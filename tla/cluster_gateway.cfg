SPECIFICATION FairClusterSpec
CONSTANTS
  Namespace = {ns}
  Route = {route}
  Service = {}
  Module = {mod}
  Domain = {dom}
  Data = {}
  ns = ns
  route = route
  NsOf <- MCNsOf
  Uses <- MCUses
  Default = ns
  NoDefault = TRUE
  Broken = {}
  Persistent = TRUE
  Overlapping = TRUE
  Early = TRUE
  NoRouter = NoRouter
  MaxCalls = 3
  MaxCrashes = 1
CHECK_DEADLOCK FALSE
INVARIANTS
  HandledShowsStore
  RaftServesStore
  CodeFollowsRouter
  ServedIsKnown
PROPERTY
  EveryChangeIsHandled

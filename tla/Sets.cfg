SPECIFICATION Spec
CONSTANTS
  k1 = k1
  k2 = k2
  e1 = e1
  e2 = e2
  None = None
  Keys = {k1, k2}
  Endpoints = {e1, e2}
  Pids = {1}
  MaxStart = 2
  ServerLists <- OneServer
  LlmCapacity = 1
  FastCapacity = 1
  MaxDrops = 0
  Selectors = {"auto"}
  Quiet = {"fast"}
  Eager = {"fast"}
  MaxClock = 2
  MaxBacklog = 1
  Wedged = {}
  MaxGeneration = 2
  MaxMappingGeneration = 3
  Events = {"resync", "process", "poll panic"}
INVARIANTS
  OnePollPerMonitor
PROPERTIES
  ContractSpec
  NeverOlderSample

SPECIFICATION Spec
CONSTANTS
  k1 = k1
  k2 = k2
  e1 = e1
  e2 = e2
  None = None
  Keys = {k1, k2}
  Endpoints = {e1, e2}
  Pids = {1}
  MaxStart = 2
  ServerLists <- LocalAndRemote
  LlmCapacity = 1
  FastCapacity = 1
  MaxDrops = 0
  Selectors = {"auto"}
  Quiet = {"llm"}
  Eager = {"llm"}
  MaxClock = 0
  MaxBacklog = 3
  Wedged = {k1, k2}
  MaxGeneration = 1
  MaxMappingGeneration = 3
  Events = {"resync", "process", "selector"}
INVARIANTS
  TypeOK
  MappingFollowsSelection
PROPERTY ContractSpec

SPECIFICATION FairSpec
CONSTANTS
  k1 = k1
  k2 = k2
  e1 = e1
  e2 = e2
  None = None
  Keys = {k1, k2}
  Endpoints = {e1, e2}
  Pids = {1}
  MaxStart = 2
  ServerLists <- Restart
  LlmCapacity = 1
  FastCapacity = 1
  MaxDrops = 0
  Selectors = {"auto"}
  Quiet = {"fast"}
  Eager = {"fast"}
  MaxClock = 0
  MaxBacklog = 2
  Wedged = {k2}
  MaxGeneration = 1
  MaxMappingGeneration = 2
  Events = {"resync", "process", "worker end"}
PROPERTIES
  HealthyServerIsRecorded

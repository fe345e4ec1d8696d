SPECIFICATION FairSpec
CONSTANTS
  k1 = k1
  k2 = k2
  e1 = e1
  e2 = e2
  None = None
  Keys = {k1, k2}
  Endpoints = {e1, e2}
  Pids = {1}
  MaxStart = 2
  ServerLists <- Fixed
  LlmCapacity = 1
  FastCapacity = 1
  MaxDrops = 1
  Selectors = {"auto"}
  Quiet = {}
  Eager = {}
  MaxClock = 0
  MaxBacklog = 2
  Wedged = {}
  MaxGeneration = 0
  MaxMappingGeneration = 1
  Events = {"worker end", "quit", "terminal error", "key", "poll panic"}
INVARIANTS
  OkMeansWorkersFinished
PROPERTIES
  PanicEndsRun
  FastWorkerStops

SPECIFICATION ContractSpec
CONSTANTS
  k1 = k1
  k2 = k2
  k3 = k3
  e1 = e1
  e2 = e2
  e3 = e3
  None = None
  Keys = {k1, k2, k3}
  Endpoints = {e1, e2, e3}
  Pids = {1}
  MaxStart = 2
  ServerLists <- TwoServers
  LlmCapacity = 1
  FastCapacity = 1
  MaxDrops = 0
  MaxClock = 0
  Selectors = {"auto"}
  Quiet = {"fast"}
  Eager = {"llm", "fast"}
  Events = {"selector", "resync", "quit"}
  MaxGeneration = 2
  MaxMappingGeneration = 4
INVARIANTS
  ContractTypeOK
  HistoryOfOneProcess
  ActiveHistoryMirrorsStored
  PanelShowsSelected
  NothingAppliedWaits
PROPERTY AcceptedFromCurrentSet

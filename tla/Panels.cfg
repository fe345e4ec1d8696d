SPECIFICATION Spec
CONSTANTS
  None = None
  e1 = e1
  e2 = e2
  e3 = e3
  e1s = e1s
  dflt = dflt
  NoServer = NoServer
  ScanPids = {1, 2}
  MaxStarts = 3
  Local = {e1, e2}
  Rank <- MCRank
  Key <- MCKey
  DEFAULT_SERVER = dflt
  MAX_MONITORED_SERVERS = 2
  Settings <- MCSettings
  Fields <- MCFields
  Hosts = {"", "h2"}
  EmptyText = ""
  host_of <- MCHostOf
  with_host <- MCWithHost
  Refreshes = {0, 1}
  InRange = {1}
  Drafts = {"", e1, e1s, e2, e3}
  Valid = {e1, e1s, e2, e3}
  ActiveServer = e1s
  MaxServers = 2
  Candidates <- MCCandidates
  GpuPids = {1}
  Clients = {"a", "b"}
  MaxFds = 2
  pid_of <- MCPidOf
  bdf_of <- MCBdfOf
  has_id = {"a"}
  Uptime = 1
  MaxNow = 2
  MaxWork = 1
  MaxRuns = 2
  Machines <- MCMachines
  Selectors <- MCSelectors
  MaxUnread = 1
  MaxUses = 2
  NotFinite = NotFinite
  HISTORY_WINDOW = 2
  HISTORY_MAX_SAMPLES = 2
  Flash = 1
  MaxInterval = 2
  Width = 3
  Height = 2
  Percentages <- MCPercentages
  Rates <- MCRates
  MaxTime = 4
  MaxObservations = 4
  Hardwares <- MCHardwares
  Kernels <- MCKernels
  Capacity <- MCCapacity
  CpuLoads <- MCCpuLoads
  Widths = {5, 35, 80}
  Spans = {7, 25, 33}
  Packages = {1, 2}
  Powercaps <- MCPowercaps
  Hwmons <- MCHwmons
  Policies <- MCPolicies
  EnergyRange = 10
  RAPL_SAMPLE_US = 2
  Courses <- MCCourses
  Temperatures <- MCTemperatures
  Frequencies = {0, 1, 3}
  MaxSensorTime = 3
  MaxReads = 2
  Absent = Absent
  Unnamed = 0
  Tables <- MCTables
  SortKeys = {"Load"}
  Panes = {Absent, 2, 3}
  Terms = {2}
  Hits <- MCHits
INVARIANTS
  IdentityServesEndpoint
  FlagsPredictMonitoring
  UtilizationIsReal
  MarkIsTrue
  LabelIsCurrent
  LinkIsContinuous
  CoreViewIsTrue
  SensorsAreMeasured
PROPERTIES
  SelectionSurvives
  SelectedRowIsPainted
CHECK_DEADLOCK FALSE

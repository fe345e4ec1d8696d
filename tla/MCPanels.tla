------------------------------ MODULE MCPanels -------------------------------
(***************************************************************************)
(* Small instances of the parts that share no state: the scan for servers, *)
(* the dialogs, the DRM sampler, the GPU panel, the telemetry histories,   *)
(* the CPU topology, the CPU sensors, of which power and the other         *)
(* counters are two parts, and the process table.  A behaviour is one of   *)
(* the part in focus; the others stay in an initial state.                 *)
(***************************************************************************)
EXTENDS ServerScan, SettingsDialog, DrmSampler, GpuDevices, TelemetryHistory,
        CpuTopology, CpuSensors, ProcessTable

CONSTANTS e1, e2, e3, e1s, dflt

VARIABLE focus

-----------------------------------------------------------------------------
\* e1 and e2 can be found by a scan; e1s is another spelling of e1.
Endpoints == {e1, e2, e3, e1s, dflt}
MCKey == [e \in Endpoints |-> IF e = e1s THEN e1 ELSE e]
MCRank == [e \in {e1, e2} |-> IF e = e1 THEN 1 ELSE 2]

MCSettings ==
  [server : {e1s, None}, servers : {<<>>, <<e3, e2>>}, auto_discovery : {TRUE}] \union
  [server : {None}, servers : {<<>>}, auto_discovery : {FALSE}]

MCHostOf == [e \in Endpoints |-> IF e \in {e1, e1s} THEN "h1" ELSE IF e = e2 THEN "h2" ELSE "h3"]
MCWithHost ==
  [pair \in Endpoints \X {"h2"} |-> e2]

MCFields == <<"Host", "Refresh", "AutoDiscovery", "ServerList">>

MCCandidates ==
  LET found(e, pid) == [endpoint |-> e, pid |-> pid, start |-> 1]
  IN  {<<>>, <<found(e2, 1), found(e1, 2)>>}

-----------------------------------------------------------------------------
\* Two clients of one process on one device.
MCPidOf == [c \in Clients |-> 1]
MCBdfOf == [c \in Clients |-> "01"]

-----------------------------------------------------------------------------
\* An integrated GPU beside one with MIG devices of each kind of name; two NVIDIA
\* GPUs; a GPU with another driver, a card of another class and an AMD GPU.
Gpu(bdf, order, class, pci_vendor, drv, uuid, children) ==
  [bdf |-> bdf, order |-> order, class |-> class, pci_vendor |-> pci_vendor, driver |-> drv,
   uuid |-> uuid, children |-> children]

MCMachines ==
  {{Gpu("00", 0, "display", "Intel", "xe", "-", <<>>),
    Gpu("01", 1, "display", "Nvidia", "nvidia", "a",
        <<<<"legacy", "a", 1>>, <<"legacy", "a", 2>>, None>>)},
   {Gpu("02", 2, "display", "Nvidia", "nvidia", "b", <<<<"opaque", "m">>>>),
    Gpu("03", 3, "unknown", "Nvidia", "nvidia", "a", <<>>)},
   {Gpu("01", 1, "display", "Nvidia", "nouveau", "-", <<>>),
    Gpu("02", 2, "other", "Nvidia", "", "-", <<>>),
    Gpu("03", 3, "display", "Amd", "amdgpu", "-", <<>>)}}

\* Beside Auto, the first choice.
MCSelectors ==
  {[by |-> "Index", index |-> 1], [by |-> "PciBusId", key |-> <<"bdf", "03">>],
   [by |-> "Uuid", key |-> <<"uuid", "a">>], [by |-> "Uuid", key |-> <<"legacy", "a", 1>>],
   [by |-> "Uuid", key |-> <<"synthetic", <<"uuid", "a">>, 3>>]}

-----------------------------------------------------------------------------
MCPercentages == {101, 0, None, NotFinite}
MCRates == {900, 3, -1, None}

-----------------------------------------------------------------------------
\* Hybrid parts with P-cores of two threads and with two or three classes, one whose
\* P-core comes last, and two equal cores whose threads alternate.
Hardware(c0, c1, c2, c3, class, vendor) ==
  [core |-> [cpu \in 0..3 |-> <<c0, c1, c2, c3>>[cpu + 1]], class |-> class, vendor |-> vendor]

MCHardwares ==
  {Hardware(1, 1, 2, 3, <<"P", "E", "E">>, "Intel"), Hardware(1, 1, 2, 3, <<"P", "E", "L">>, "Intel"),
   Hardware(1, 2, 3, 3, <<"E", "E", "P">>, "Other"), Hardware(1, 2, 1, 2, <<"P", "P">>, "Intel")}

MCKernels ==
  {{"online", "list"}, {"online", "list", "masks"}, {"online", "list", "capacity"},
   {"online", "ids", "masks"}, {"online", "masks"}, {"list"}}

MCCapacity == [P |-> 1024, E |-> 600, L |-> 300]
MCCpuLoads == {[c \in 0..3 |-> 24 * c + 4], [c \in 0..3 |-> IF c = 0 THEN 50 ELSE 0]}

-----------------------------------------------------------------------------
\* Two packages, one with a mirror and a sub-zone; one whose window is too short;
\* one without evidence of a window.
Zone(drv, name, package, udelay, max_range) ==
  [driver |-> drv, name |-> name, package |-> package, udelay |-> udelay,
   max_range |-> max_range]

MCPowercaps ==
  {<<Zone("msr", "package", 1, None, 9), Zone("mmio", "package", 1, None, 9),
     Zone("msr", "core", 1, None, 9), Zone("msr", "package", 2, 4, 9)>>,
   <<Zone("msr", "package", 1, 2, None)>>, <<Zone("msr", "package", 1, None, None)>>}

MCCourses ==
  {[energy |-> [p \in Packages |-> 2], io_wait |-> 1],
   [energy |-> [p \in Packages |-> 2 - p], io_wait |-> -1],
   [energy |-> [p \in Packages |-> 0], io_wait |-> 0]}

MCHwmons ==
  {<<[driver |-> "cpu", label |-> "core"], [driver |-> "gpu", label |-> "core"],
     [driver |-> "cpu", label |-> "package"]>>}
MCTemperatures == {None, 40, 200}
MCPolicies == {<<[cpus |-> 2], [cpus |-> 1]>>}

-----------------------------------------------------------------------------
\* Process 1 exits and its pid is given to another one, and 3 replaces its image,
\* which joins it to the group of 2; by then the name of 2 cannot be read, and is
\* known only to a cache that has seen it.
Id(pid, start) == [pid |-> pid, start_time |-> start]
Read(id, name, load) == [id |-> id, name |-> name, load |-> load]

MCTables ==
  {<<Read(Id(1, 1), 1, 1), Read(Id(2, 1), 2, 1), Read(Id(3, 1), 1, 2)>>,
   <<Read(Id(3, 1), 2, 1), Read(Id(2, 1), 0, None), Read(Id(1, 2), 3, 2)>>}

MCHits(p, term) == term \in {p.id.pid, p.program}

-----------------------------------------------------------------------------
\* A part that is not in focus has one initial state.
Init ==
  /\ focus \in {"scan", "dialog", "drm", "gpu", "history", "topology", "power", "counters",
               "table"}
  /\ ScanInit
  /\ focus # "scan" => config = [server |-> None, servers |-> <<>>, auto_discovery |-> FALSE]
  /\ DialogInit /\ (focus # "dialog" => settings.server = None)
  /\ DrmInit /\ (focus # "drm" => driver["01"] = "cycles")
  /\ GpuInit /\ (focus # "gpu" => (\E g \in machine : g.driver = "amdgpu") /\ usage = {})
  /\ HistoryInit
  /\ TopologyInit
  /\ focus # "topology" => /\ hardware.vendor = "Other" /\ offers = {"online", "list"}
                           /\ running = AllCpus /\ departs = None
  /\ SensorInit
  /\ focus # "power" => powercap = <<>> /\ energy = [p \in Packages |-> 0]
  /\ TableInit /\ (focus # "table" => pane = Absent)

panelVars == <<scanVars, dialogVars, drmVars, gpuVars, historyVars>>
cpuVars == <<topologyVars, sensorVars>>

Next ==
  \/ /\ focus = "scan" /\ ScanNext
     /\ UNCHANGED <<focus, tableVars, dialogVars, drmVars, gpuVars, historyVars, cpuVars>>
  \/ /\ focus = "dialog" /\ DialogNext
     /\ UNCHANGED <<focus, tableVars, scanVars, drmVars, gpuVars, historyVars, cpuVars>>
  \/ /\ focus = "drm" /\ DrmNext
     /\ UNCHANGED <<focus, tableVars, scanVars, dialogVars, gpuVars, historyVars, cpuVars>>
  \/ /\ focus = "gpu" /\ GpuNext
     /\ UNCHANGED <<focus, tableVars, scanVars, dialogVars, drmVars, historyVars, cpuVars>>
  \/ /\ focus = "history" /\ HistoryNext
     /\ UNCHANGED <<focus, tableVars, scanVars, dialogVars, drmVars, gpuVars, cpuVars>>
  \/ /\ focus = "topology" /\ TopologyNext
     /\ UNCHANGED <<focus, tableVars, panelVars, sensorVars>>
  \/ /\ focus = "power" /\ PowerNext
     /\ UNCHANGED <<focus, tableVars, panelVars, topologyVars>>
  \/ /\ focus = "counters" /\ CountersNext
     /\ UNCHANGED <<focus, tableVars, panelVars, topologyVars>>
  \/ /\ focus = "table" /\ TableNext
     /\ UNCHANGED <<focus, panelVars, cpuVars>>

Spec == Init /\ [][Next]_<<focus, panelVars, cpuVars, tableVars>>
==============================================================================

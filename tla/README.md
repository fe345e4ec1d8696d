# A TLA+ model of OrsikTop's run time

OrsikTop is a terminal dashboard for llama.cpp-style LLM servers and for the
GPUs, the CPU and the processes of the machine they run on. It has one thread
that owns the screen and all the state shown on it, two workers that measure,
and one short-lived thread per request to a server. This directory models that
concurrent core, the monitor behind a request, the samplers behind the workers
and the panels that show the result; checks all of it with TLC on small
instances; and proves with TLAPS, for every instance, the safety of the
application loop, that the loop with its own workers refines the contract it
relies on, the atomicity of saving, what the server list and the settings dialog
promise, and every safety property of the monitor, the samplers and the panels.

Paths are relative to the repository root (`src/app.rs`), as in the modules'
comments.

## 1. Inventory

### Components that interact at run time

| Component | State | Operations | Talks to |
|---|---|---|---|
| application loop (`src/app.rs`, `src/app/loop_events.rs`) | server list, overflow, selected key, registry of latest samples, snapshot on display, two generation counters, UI state, redraw flag | drain both channels, rebuild the overview, resync, paint, take one input event, quit, join | all others, over channels and `stop` |
| server-set reconciliation (`src/app/server.rs`) | none of its own: rewrites the loop's | `sync_server_set`, `publish_selected_mapping`, `rebuild_poll_slots`, `stabilize_llm_sample`, `update_resolved_server` | called by the loop and by the LLM worker |
| channels (`src/app/channels.rs`) | four queues, two drop counters | `drain_try_recv`, `try_send_snapshot`, `join_bounded` | loop, workers |
| LLM worker and poll threads (`src/app/workers.rs`) | session generation, poll slots with their in-flight flags, samples waiting to be forwarded | take `SetServers`, start polls, forward, sleep, bounded wait at exit; a poll measures, sends and clears its flag | loop; llama.cpp monitor |
| fast worker (`src/app/workers.rs`) | selector in use, identity and generation being mapped, cached mapping | adopt selector, take identity, refresh the mapping in two reads, send, sleep | loop; `/proc`, DRM, NVML |
| LLM histories (`src/ui/state_llm.rs`) | a history per server, a working copy for the selected one | record, select, reset, retain | called by the loop |
| configuration store (`src/config.rs`) | the configuration file, its temporary siblings, `TEMP_FILE_COUNTER` | load, save (create, write, sync, rename, sync the directory, or remove) | start of `main`, settings dialog; other processes through the file system |

What makes these hard: the three threads and the polls interleave freely; a
sample or a snapshot can be overtaken by any number of set changes and
selections; both outbound channels are bounded and drop; a local server can be
restarted at the same endpoint and its pid reused at any moment; a request can
hang; a worker can panic; the join has a deadline.

They are correct when: what is on display belongs to the server that is
selected *now* and to the process that serves it *now*; histories never join two
processes; one hanging server does not starve another; a new selection, setting
or restart takes effect in bounded work; the program ends, and says so
truthfully, on every path.

### Components that measure and show

Each of these runs on one thread and keeps its state to itself. What makes them
hard is the world they read: files and answers are read one after the other while
processes exit, pids change hands, servers restart, counters wrap or reset, CPUs
go offline and any single read fails.

| Component | State | Operations | Correct when |
|---|---|---|---|
| server list (`src/discovery_llm.rs`, `src/main.rs`) | none; a scan's locals | scan `/proc`, collect candidates, merge with the configuration, cap, resolve the target | an identity belongs to the process that serves the endpoint |
| llama.cpp monitor and Strata adapter (`src/llama/`, `src/llama.rs`, `src/strata.rs`) | counter and slot baselines, held acceptance, `/props` cache, local speculation cache, last good sample | one poll of three requests; `stabilize_llm_sample` | rates and shares are what the server did between two answers; cached and held data expire |
| process table (`src/app/process.rs`, `src/ui/state_process.rs`, `src/ui/processes.rs`) | name cache, rows, selection, pin, open groups, search, sort, scroll | collect, paint, keys, mouse, resize | the selection stays with its process and stays visible |
| settings dialog and server editor (`src/ui/state_settings.rs`, `src/server_editor.rs`) | open dialog, fields, draft, edited index | open, edit, add, delete, commit, cancel, save | what the list says will be monitored is monitored |
| telemetry histories (`src/ui/history.rs`) | bounded windows, connection state | record, resample, label | nothing old is presented as current |
| DRM sampler (`src/drm.rs`) | engine counters by process and device | collect: list processes, read each one's fdinfo, prune | a utilisation is work of that very process |
| GPU discovery, providers, evidence (`src/discovery.rs`, `src/gpu.rs`, `src/providers/`, `src/gpu_map.rs`) | provider with its device, MIG children | select, sample, scan a process | the mark says that the server uses the GPU that is shown |
| CPU topology and sensors (`src/cpu.rs`, `src/cpu_sensors.rs`) | topology (detected once), last I/O-wait counters | detect, two-read power measurement, temperature, frequency | classes, counts, usage and power are those of the hardware |

### Components that are not modelled

Diagnostics, redaction, the file-system abstraction, the updater and the
uninstaller, command-line parsing, layout and wording of the screen: section 8.
`PROJECT.json` lists every component with its status.

## 2. Modules

| Module | Models |
|---|---|
| `Servers` | `ServerSpec`, `LocalServerIdentity`, `selected_identity_of`, `changed_identity_keys`; what `collect_server_list` may return |
| `Channels` | the shared flag, the four channels, `try_send_snapshot`, drop counters, thread outcomes |
| `LlmHistories` | the LLM telemetry methods of `UiState` as operators on a record |
| `AppLoop` | `app::run`, `pump_snapshots`, `handle_key_event`, `sync_server_set`, the selector, saving, quitting, `join_bounded` |
| `WorkerContract` | `AppLoop` against the most general workers it tolerates: the **abstract specification** |
| `LlmWorker` | `spawn_llm_worker`, the poll threads, `rebuild_poll_slots` |
| `FastWorker` | `spawn_fast_worker`'s attribution path and the local processes |
| `Dashboard` | everything composed; shown to implement `WorkerContract` |
| `MCContract`, `MCDashboard` | small sets of servers for TLC |
| `ContractProofs` | theorems about `WorkerContract` |
| `DashboardProofs` | theorems about `Dashboard`: the refinement, and what only the workers' own state shows |
| `ConfigFile` | `AppConfig`, `sanitized`, `render_config`, `parse_config`, `GpuSelector` |
| `ConfigStore` | processes that load and save the file, their failures, kills, power losses |
| `SavedConfig` | the **abstract specification** of saving: one atomic register |
| `MCConfig` | a small instance of `ConfigStore` for TLC |
| `ConfigProofs` | theorems about `ConfigStore`, with its refinement of `SavedConfig` |
| `Strata` | the adapter for Strata's metrics: recognition, aliases, phase |
| `LlamaReplies` | what one answer yields: slots, context, speculation, activity phase |
| `LlamaMonitor` | a server, `LlamaMonitor::sample` and `stabilize_llm_sample` |
| `MCMonitor` | a small instance of `LlamaMonitor` for TLC |
| `MonitorProofs` | theorems about `LlamaMonitor` |
| `Options` | `Option::None` and saturating arithmetic |
| `ServerList` | candidates, `push_server`, `collect_server_list`, `resolve_monitor_target`, `monitored_flags` |
| `ServerScan` | `discover_processes`, read by read, on a changing process table |
| `SettingsDialog` | which dialog has the keys, the settings fields, the server editor, saving |
| `ProcessTable` | `collect_process_stats` with its cache and the process part of `UiState` |
| `DrmSampler` | fdinfo counters, `DrmSamplerState`, the collection that drives it |
| `GpuDevices` | device enumeration, selector and provider, NVML and render evidence, the panel's mark |
| `TelemetryHistory` | the windows and the graphs, uptime, intervals and ages painted from them |
| `CpuTopology` | `detect_topology` and the title, minibar and heat map of the cores |
| `CpuSensors` | `sample_power_w`, temperature, frequency, I/O wait |
| `MCPanels` | small instances of the eight modules above that are parts of the screen |
| `DataInduction` | lemmas about data: induction over the naturals, extreme elements, sums over a set, sorting, sequences put end to end |
| `ServerProofs` | theorems about `ServerList`, `ServerScan` and `SettingsDialog` |
| `PanelProofs` | theorems about `DrmSampler`, `GpuDevices`, `CpuSensors` and `CpuTopology` |
| `ScreenProofs` | theorems about `TelemetryHistory` and `ProcessTable` |

`ConfigStore` extends `ConfigFile` and stands beside the composition: the other
processes it interacts with are further instances of the program.
`Servers <- Channels, LlmHistories <- AppLoop <- WorkerContract <- Dashboard`,
and `Channels <- LlmWorker, FastWorker <- Dashboard`, all by `EXTENDS`.
`Strata <- LlamaReplies <- LlamaMonitor <- MCMonitor`; `ServerList <- ServerScan,
SettingsDialog`; and `MCPanels` extends `ServerScan`, `SettingsDialog`,
`ProcessTable`, `DrmSampler`, `GpuDevices`, `TelemetryHistory`, `CpuTopology` and
`CpuSensors`.

Where the models meet: a poll of `LlmWorker` is one round of `LlamaMonitor`; what
`ServerScan` lists is what `ServerListsAssumption` of `Servers` assumes; the
evidence of `FastWorker`'s two reads is the scan of `GpuDevices`; a snapshot of
`FastWorker` carries what `ProcessTable`, `DrmSampler`, `CpuTopology` and
`CpuSensors` collect; a save of `AppLoop` is the last key of `SettingsDialog` and
one save of `ConfigStore`; a recorded sample of `LlmHistories` is one of
`TelemetryHistory`. They are not composed into one specification: no property
found so far needs more than one side of such a joint, and the product is out of
TLC's reach.

### How state and actions correspond to the code

*Names.* Variables and operators keep the source's names: `registry`,
`mapping_generation`, `in_flight`, `try_send`, `record_llm_sample`, and so on.
`appPc`, `llmPc` and `fastPc` are program counters at the points where another
thread's step can matter. `order` and `endpoints` are not variables: the code
always assigns them together with `server_list`, and they are functions of it.

*Granularity.* A receive, a send, a read of shared state and each of the two
process-table reads of an attribution are steps of their own. A whole key
handler or a whole `sync_server_set` is one step: it runs on the loop's thread
and nobody else reads its state. Painting only touches the scheduler and is one
step with the input event that follows it.

*Data.* `LlmStats` is abstracted to who was measured (`by`, the server
specification of the slot) and when (`at`, a reading of a ghost clock); a
history to the set of process identities that contributed to it; a GPU mapping
to "none", "unknown" or "GPUs attributed to process `of` on evidence read from
process `by`"; the sensors of a snapshot to the GPU selector whose provider read
them. Sleeps, intervals and deadlines are scheduler choices: a deadline may pass
at any point at which the code could still be waiting.

*Ghosts.* `clock`, `unpainted` (something applied is not on the screen) and
`highlight_moved` (the user touched the selector) are not in the code; no guard
of a program step reads them.

*Failure.* `LlmPanic` (a refused `thread::spawn` in the middle of a burst),
`PollPanic` (`PollFlag::drop` clears the flag), `FastPanic`, `TerminalError`,
`PumpDisconnected`, a join that misses its 5 s. A failing save of the settings
leaves all of this state alone and is `OtherInput`.

### The abstract specification

`WorkerContract!ContractSpec` keeps the application loop in full and replaces
the workers by what the loop relies on:

* a sample tagged with the current `llm_generation` was taken by a monitor of
  the current set, under that server's key; older tags promise nothing;
* a snapshot tagged with the current `mapping_generation` attributes GPUs to
  the selected server's process, if to any; older tags promise nothing;
* a worker takes commands and sends when it likes, returns only when told to
  stop or when its channel is closed, and may panic at any time.

`Dashboard` implements it with the identity as refinement mapping: its variables
are a superset, so `ContractSpec` itself is the property checked (runs `sets`
and `mapping`) and proved (`DashboardImplementsContract`). What this needs from the code is exactly what is subtle in it:
polls are stamped with the generation of the cycle that started them, a slot is
reused only for an *unchanged* specification, and the fast worker clears its
cached mapping in the same step in which it adopts a new generation.

### The configuration store

`ConfigStore` models `save_to_path` one system call at a time, in several
processes at once. A configuration is a record, a file the sequence of its
`key=value` lines, and `render_config` and `parse_config` are the conversions
between them, with blank and repeated endpoints, out-of-range intervals, legacy
`gpu_index` and legacy `server=` files. `refresh_ms` stands for the three
intervals, which the code treats alike.

The file system is external and modelled by what the code relies on: the content
of a file survives a power loss once it is synced (before that any prefix of its
lines may be left), and a rename survives once the directory is synced (before
that either entry may be found). A kill leaves a process's temporary file; a pid
can be given to a later process, whose counter starts at 0 again.

`SavedConfig` is the promise: the stored configuration is one value, replaced
in one step; a save reports success exactly if it replaced it; a power loss may
take back saves whose directory entry was not on disk, and nothing else. The
refinement mapping reads the file with `parse_config`, so the property also says
that what is read back is what was saved. The commit point is the rename.

### The monitor of a server

One poll (`Begin`, `Answer` for each endpoint that is asked, `Finish`) asks
`/metrics`, `/slots` and, when due, `/props` at the same time. The three answers
are taken from the server at three moments, between which it works, takes tasks,
restarts or becomes unreachable; `Finish` is `sample` followed by
`stabilize_llm_sample`. An `Instant` is its age in ticks, capped where the code no
longer tells it from a higher one. A rate is kept as the difference it was computed
from, together with what the server really did between the two answers; so a
property compares the two without arithmetic on quotients.

JSON and Prometheus texts are records of the fields that are looked up, `None`
where a field is absent and `Null` where it is null. The code handles prompt and
generated tokens alike; the model follows the latter. `scenario` selects what the
server's answers tell apart: its counters and formats (`counters`), its tasks
(`slots`), partial slot arrays (`context`), models and speculation (`props`).

### The samplers and panels

* `ServerScan`: a process is a pid, a start time and a command line, which names an
  endpoint or none. Processes start and exit between any two reads.
* `SettingsDialog`: a text is an atom, and typing makes another one of it. Host and
  refresh stand for the fields that are treated alike.
* `ProcessTable`: a method of `UiState` is an operator from the record `ui` to its
  next value; a frame is an action of its own, because the code scrolls by the size
  of the last frame. `pane` is the height that the next frame will give the table: the
  terminal (`Resize`) and an applied snapshot (`CollectAndApply`) change it at any time,
  also between an event and its frame, as `draw` computes it anew from `llm.connected`
  and the panels. `load` stands for the numeric columns.
* `DrmSampler`: a client, reached through several descriptors, is counted by the
  kernel in busy time or in cycles, beside the cycles that its engine has run in all;
  a driver may reset either. A client names itself (`has_id`) or does not, and then is
  counted by each of its descriptors. Memory and further engines are summed in the
  same way. A collection lists the processes first and then reads one after the
  other, so that a process may be replaced in between.
* `GpuDevices`: identities are tuples, from three sources that may each fail to name
  a GPU in full. The readings are left out, the GPU they come from is kept.
* `TelemetryHistory`: painting changes nothing, so a frame is an operator of the
  state and the time. One percentage stands for the host's four series, one rate, in
  hundredths of a token per second, for two; a rate up to 0.05 is no activity. An
  average is kept as the interval between its smallest and its largest
  contribution.
* `CpuTopology`: a detection is one action; that it is not atomic is the variable
  `departs`, the read before which a CPU goes offline; the property of the view is
  claimed then too, but for the counts. The average of a core is kept as
  a fraction, so that the property can compare it exactly.
* `CpuSensors`: power is kept as energy and time. Its two passes over the zones are
  separate actions between which packages burn energy.

## 3. Runs

| Run | Specification, instance | Checks | Size |
|---|---|---|---|
| `select` | `ContractSpec`, two servers out of three, set changes x2 | selection, panel, histories, registry, redraw | 0.54 M states |
| `sets` | `Spec`, LLM side, set changes x2 | contract, `OnePollPerMonitor`, `NeverOlderSample` | 1.6 M |
| `mapping` | `Spec`, fast side, selections and one set change, pid reuse | contract, `MappingFollowsSelection`, types | 1.3 M |
| `shutdown` | `FairSpec`, one fixed server, all failures | truthful result, run ends, fast worker stops | 0.29 M |
| `live_llm` | `FairSpec`, one wedged and one restarting server | `HealthyServerIsRecorded` | 40 k |
| `live_fast` | `FairSpec`, settings saved, selector changes | `MappingArrives`, `SelectorTakesEffect` | about 2 min |
| `restart_polls` | as `sets` | `OnePollPerServer`: **violated** | - |
| `reorder` | as `select` | `SelectorKeepsSelection`: **violated** | - |
| `config` | `StoreSpec`, two processes, one kill or power loss | `SavesAreAtomic`, temporary files | 1.7 M |
| `selector` | `StoreSpec`, one process | `SelectorIsCanonical`: **violated** | - |
| `monitor` | `MonitorSpec`, one server of two slots, two runs of it, both formats | rates, acceptance, context, phase, speculation, held samples, model | 1.2 M |
| `panels` | `MCPanels!Spec`, the samplers and panels, one per behaviour | the ten properties about them | 2.1 M |

What the properties say:

* `AcceptedFromCurrentSet` - a sample enters the registry only if its monitor
  belongs to the set of that moment, however many changes overtook it (also
  A, B, A again).
* `HistoryOfOneProcess` - a history never holds samples of two processes.
* `ActiveHistoryMirrorsStored` - the working copy and the stored history of the
  selected server never drift apart; when there is no working copy there is no
  stored one either.
* `PanelShowsSelected` - the panel shows the registry's sample of the selected
  server, which always exists in the set.
* `MappingFollowsSelection` - GPUs on display are those of the selected
  server's present process.
* `NothingAppliedWaits` - whatever a drain, a resync or the selector applied is
  painted before the loop blocks.
* `OnePollPerMonitor` - a monitor's mutex never has two polls at it, and a slot's
  in-flight flag is set exactly while its poll runs: neither a panic of the poll nor a
  new set of servers leaves a flag behind that would keep the server from being polled
  (`sets` has `PollPanic` among its events).
* `NeverOlderSample` - the registry's sample of a server never goes back in time.
* `OkMeansWorkersFinished` - `run` returns `Ok` only if both workers returned.
* `PanicEndsRun`, `FastWorkerStops` - a panic ends the program; the fast worker
  ends on every path, also where `stop` is never set.
* `HealthyServerIsRecorded` - a healthy server gets a history of its present
  process although another one's request hangs for ever.
* `MappingArrives`, `SelectorTakesEffect` - despite dropped snapshots a new
  selection's attribution, and a newly saved GPU selector, reach the screen.
* `SavesAreAtomic` - `ConfigStore` implements `SavedConfig`.
* `OnlyOwnTempChanges` - a temporary file is changed or removed only by the save
  that created it, whoever else had that pid.
* `NothingLeftBehind` - a temporary file without a save under way stems from a
  kill, a power loss or a failed removal.
* `ExhaustedByLeftovers` - a save gives up for lack of names only if as many
  left-over files as it has attempts carry its pid.

The monitor:

* `RateIsReal` - a rate never claims more tokens than the server generated between
  the two answers it is derived from, is exact unless the server restarted, and
  never spans a failed answer.
* `SlotRateIsExact` - as long as tasks are reported, the rate from the slots is
  exact although tasks end and begin between two polls.
* `AcceptanceIsMeasured` - a share of accepted drafts compares the server's own
  counters, within one run as far as Strata dates them.
* `ContextOfOneSlot` - use, capacity and id of the context row are of one slot, the
  most used of the busy ones.
* `IdleIsEvident` - idle is never said of a server with a working slot, with
  counted tokens, or without an answer.
* `ServerDecides` - the server's latest word on speculation stands, field by field,
  against the local command line.
* `HeldSampleExpires` - a silent server is shown with its last sample only within
  the grace.
* `ModelIsCurrent` - the model on display is old by one refresh interval at most.

The samplers and panels:

* `IdentityServesEndpoint` - a listed server has the identity of a process only if
  that very process was started to serve that endpoint.
* `FlagsPredictMonitoring` - through any sequence of edits the additional servers
  stay distinct, and their marks in the dialog agree with what `collect_server_list`
  would monitor, whatever a scan finds.
* `SelectionSurvives` - a snapshot never moves the selection to another process with
  the same pid, and loses it only with its process or behind a search.
* `SelectedRowIsPainted` - once a key, a search or a snapshot has scrolled to the
  selection, its row is in the next frame that shows at least as many scrolled rows as
  the last one. A frame with fewer may leave it out, until the next snapshot: the code
  scrolls by the number of the last frame.
* `UtilizationIsReal` - a GPU utilisation is never more than the work of that very
  process since its last sample, and exactly that where nothing was closed or reset.
  It is not claimed of a sample in which an unnamed client is reached through two
  descriptors. With cycle counters and after a close or a reset it is claimed if the
  engine had run, at the last sample, for the time since then once for each client:
  only then must the sum of the totals have fallen, which the code takes as a reset.
* `MarkIsTrue` - the panel is marked as the server's only if the server was found on
  the GPU whose readings it shows; with complete names the converse holds too.
* `LabelIsCurrent` - a graph is labelled with the last observation or not at all, and
  each column shows the reading of its time.
* `LinkIsContinuous` - uptime and average interval belong to the present connection;
  overview and panel agree.
* `CoreViewIsTrue` - whatever goes offline meanwhile, detection never swaps fast and
  slow cores, and each CPU is shown once, with its own usage, as is each bar; no hole
  below a CPU that stays is an idle CPU, if the kernel lists the online ones. While no
  CPU goes offline, the cores are counted exactly or not at all and the kinds add up to
  them; how many are of which kind is exact where it can be told: with whole cores or
  masks or capacities that differ, and without LP-E cores or with masks.
* `SensorsAreMeasured` - power is energy burnt, counted once, in the window it is
  divided by; the other sensors lie within what was read.

### Bounds, and why they are enough

* `MaxGeneration`, `MaxMappingGeneration` cap the two `u64` counters in the
  guards of the steps that increment them. Two set changes are what "replaced
  and replaced back" needs; a third only repeats the second with other tags,
  because the code compares tags for equality alone.
* `LlmCapacity = FastCapacity = 1` (16 and 2 in the code): a full channel, and
  so a drop, is one send away. The proofs hold for every capacity.
* `MaxBacklog` bounds the unbounded `sample_rx`: a poll that would exceed it
  sends after the next forward. `MaxClock` and `MaxDrops` saturate.
* `MaxStart = 2` gives each pid to two processes: a restart and a pid reuse.
  `live_fast` uses one, since its servers come and go but do not restart.
* `Events` names the kinds of outside events of an instance, so that one run
  can follow one question deeply. `Quiet` names a worker that sends nothing in
  this instance, because the question is about the other one; it still takes
  its commands. `Eager` lets that worker take them at once, which removes
  interleavings that nothing in the instance can tell apart (in `select` both
  are eager: what the contract's workers send does not depend on their intake). `shutdown` has no quiet and no eager worker.
* `Wedged` names servers whose requests never return.
* `config`: `MaxAttempts = 2` (8 in the code) and `MaxCounter = 2`, so that a
  collision, a retry and the exhaustion of all names happen; `MaxFailures = 1`
  kill or power loss, which the failing steps combine with (a removal that fails,
  then a kill, then the same pid again exhausts the names). Two dialog
  configurations and the initial file tell old, new and the other process's value
  apart. The settings in use are left out of the view: no step and no property
  of that run reads them.
* `monitor`: `MaxRuns = 2` (one restart; baselines reach back one answer, so a second
  restart meets the same state), `MaxDone = 2` and `MaxTask = 2` (a counter that
  grows, stays and falls), at most three polls where counters are watched (baseline,
  rate, and a rate after a gap or a switch), two where tasks are, one for a slot array. `props` has no bound
  on its polls: the ages saturate. `PROPS_REFRESH = 2`, the other times 1: refreshed,
  not yet due and overdue are all reached. `Graces = {0, 1}`: with and without hold.
* `panels`: the parts share no state, and `focus` lets each behaviour be one of a
  single part while the others rest in one initial state; the run visits the sum of
  their state spaces, not the product. Its behaviours end where a clock or a counter
  reaches its bound, hence `CHECK_DEADLOCK FALSE`.
  - scan: two pids, three processes, so that a pid changes hands during a scan and an
    endpoint moves to another process; one endpoint in two spellings; a cap of two, so
    that discovered and configured servers overflow.
  - dialog: every sequence of keys, at most two additional servers.
  - table: two process lists with exit, pid reuse, a replaced image, a name that cannot
    be read and a dissolved group; a table of two and of three rows, so that it grows and
    shrinks by one, and no table; one search term, one sort key in both directions.
  - DRM: two clients of one process, one of which names itself, two open descriptors at
    most, one unit of work, so that a share is too large as soon as it is counted twice or
    against too little time, one restart, engines that had run for one tick, so that
    totals can and can not fall below what was counted.
  - GPU: three machines (integrated beside MIG, two NVIDIA, foreign drivers), all uses
    of at most two placements, at most one GPU whose name cannot be read in full.
  - histories: window and cap of two points, four observations: enough for a point to
    age out, to be displaced, and for fresh, held, offline and fresh again.
  - topology: four CPUs in hybrid and uniform layouts, six kinds of kernels, every
    online set and every departure; the layout of the heat map also for 7, 25 and 33
    CPUs at three widths.
  - sensors: two packages with a mirror zone, a counter that wraps once (`EnergyRange`
    exceeds what a measurement can burn, as `SensorAssumption` says), two refreshes of
    the other counters.

## 4. Fairness

`FairSpec` assumes: the application loop and both workers are scheduled (weak
fairness of each thread); a request to a server that is not wedged returns,
because the HTTP client has a timeout (weak fairness of that server's polls);
the process interval elapses, so that infinitely many fast cycles refresh the
mapping (strong fairness of `FastRefresh`, since a cycle at which it has not
elapsed disables it); and a drain ends (`DrainsEnd`), because a worker sleeps at
least `MIN_REFRESH_MS` or `MIN_LLM_POLL_MS` between two bursts while a drain is a
loop of `try_recv`. The user, the terminal, panics and the local processes are
not fair to anyone. No liveness property is stated about them.

`FastWorkerStops` has no counterpart for the LLM worker: after an error return
it notices the closed channel only when a sample arrives, and none may.

## 5. What is proved

Each theorem holds for **every** value of the constants that satisfies the named
assumptions; TLC evaluates each assumption on the instances of section 3.

### The loop against any workers (`ContractProofs`)

| Theorem | Statement |
|---|---|
| `ContractTypes` | `ContractSpec => []ContractTypeOK` |
| `MappingSafe` | `ContractSpec => []MappingFollowsSelection` |
| `AcceptedSafe` | `ContractSpec => AcceptedFromCurrentSet` (an action property) |
| `HistorySafe` | `ContractSpec => []HistoryOfOneProcess` |
| `MirrorSafe` | `ContractSpec => []ActiveHistoryMirrorsStored` |
| `PanelSafe` | `ContractSpec => []PanelShowsSelected` |
| `ShutdownSafe` | `ContractSpec => []OkMeansWorkersFinished` |
| `PaintSafe` | `ContractSpec => []NothingAppliedWaits` |

*Assumptions.* `ServerListsAssumption` (`collect_server_list` returns a non-empty
list without two entries of one key, which `CollectedLists` below proves of it),
`CapacityAssumption`, `GenerationAssumption`, `NoneAssumption` (no key is empty).

*Argument.* None of the properties is inductive as stated; each rests on one of
five strengthenings:

* `ContractTyped` - the types and a non-empty `server_list`. Without the latter
  the selector's index (`% Len`, and `Head` for the fall-back) is untyped.
* `ContractInv` - every sample and snapshot still *queued* keeps its promise
  relative to the *present* generation. A set change or a new selection advances
  the generation, which turns every current tag into an old one, so the promise
  of whatever is queued becomes void instead of false. That is what the tags are
  for, and why testing them at the receiver is enough. `MappingSafe` and
  `AcceptedSafe` follow.
* `PanelInv` - unique keys, panel, one-process histories and the mirror, which
  need one another: accepting a sample preserves the histories because its
  monitor is in the current set (from `ContractInv`), and the fall-back to the
  first server preserves the mirror because `retain_llm_histories` ran before
  `select_llm_history`.
* `JoinInv` - what the first join reported is still true at the second, because
  a thread that has ended does not run again (`ThreadsEndOnce`).
* `PaintInv` - a change that is not on the screen implies the dirty flag, at
  every point of the iteration.

### The program's own workers (`DashboardProofs`)

| Theorem | Statement |
|---|---|
| `DashboardImplementsContract` | `Spec => ContractSpec` |
| `DashboardTypes` | `Spec => []TypeOK` |
| `DashboardMappingSafe`, `DashboardShutdownSafe` | `MappingFollowsSelection` and `OkMeansWorkersFinished` of `Spec` |
| `OnePollSafe` | `Spec => []OnePollPerMonitor` |
| `FreshSlotsSafe` | `Spec => FreshSlotsAreIdle` (an action property): a slot made for a new or restarted server has no poll in flight, whatever still hangs on the slot it replaces |
| `NeverOlderSafe` | `Spec => NeverOlderSample` (an action property) |

By `DashboardImplementsContract` every theorem of `ContractProofs` is one of the
whole program; two are restated, because a run checks them of `Spec`.

*Assumptions.* Those above, with `InstanceAssumption`, `BacklogAssumption` and
`MaxStartAssumption` for the bounds.

*Argument.* The refinement mapping is the identity, so each step of a worker has to
be one that the contract allows. That needs to know how far a worker *lags behind*
the loop:

* `RefinementInv` - the generations of the queued commands are consecutive from what
  the worker has taken to what the loop published (`Chain`); the last queued command
  carries the present servers or identity, and when nothing is queued the worker
  itself has them (`CommandInv`, `IdentityInv`). A worker whose generation is current
  is therefore one with nothing queued, and what it sends with that tag keeps the
  promise. `PromiseInv` says so of polls already started and of samples between poll
  thread and worker; `ThreadInv` ties the outcome of a thread to its program counter.
* `SlotInv` - `born` tells a replaced slot from a fresh one for the same server,
  polls of the present generation work on present slots, and no two slots of the
  worker are for one specification.
* `OrderInv` - for samples of one server and the present generation: the registry is
  no younger than anything under way (`RegistryFirst`), both queues are in order, all
  of `llm_rx` precedes all of `sample_rx`, and a poll that has measured but not sent
  comes last (`Latest`). It needs `SlotInv`: with two polls of one monitor the last
  conjunct is false, and a stale sample could overtake a fresh one.

### Saving the configuration (`ConfigProofs`)

| Theorem | Statement |
|---|---|
| `SavesAtomicSafe` | `StoreSpec => SavesAreAtomic`, the refinement of `SavedConfig` |
| `NothingLeftSafe` | `StoreSpec => []NothingLeftBehind` |
| `ExhaustedSafe` | `StoreSpec => []ExhaustedByLeftovers` |
| `OnlyOwnSafe` | `StoreSpec => OnlyOwnTempChanges` (an action property) |
| `PrivateTempsSafe` | no two processes hold the same temporary file |

*Assumptions.* `StoreAssumption` and `NothingAssumption` (bounds, and "nothing" is
no name or file), and `RoundTripAssumption`: `parse_config` of a rendered
configuration is that configuration, sanitized. The last is a fact about a text of
any number of lines. It depends on the values the dialog can produce, and TLC
evaluates it on those of the instance; it is not proved.

*Argument.* `StoreInv`: a temporary file is either left over or held by the one
running process whose pid its name carries, under a number that process has already
drawn (`OwnTemps`; a counter never goes back, and two running processes never share
a pid, `RunningProcesses`). Hence `create_new` can only collide with left-over files
(`RefusedNames`, which counts them), and nobody else touches the file between create
and rename. `SyncedFirst` is what makes the rename atomic under a power loss: the
file that is renamed is complete and on disk.

### The server list, the scan and the dialog (`ServerProofs`)

| Theorem | Statement |
|---|---|
| `CollectedLists` | for any configuration and scan, `collect_server_list` returns a non-empty list within the cap, without a repeated key, whose identities are those of found processes |
| `FlagsAgree` | the marks of `monitored_flags` are what `collect_server_list` would monitor, for any scan and any configuration that names a server, as those of the dialog do |
| `IdentitySafe` | `ScanSpec => []IdentityServesEndpoint` |
| `FlagsSafe` | `DialogSpec => []FlagsPredictMonitoring` |

*Assumptions.* `CapAssumption` (the cap is positive), `RankAssumption` (the order of
discovery is total), `ScanAssumption` and `DialogAssumption` (the types of what is
configured and found).

*Argument.* `collect_server_list` and `monitored_flags` are loops, modelled as folds
over the configured servers. `CollectedLists` is an invariant of the first loop,
`FlagsAgree` a simulation between the two: after each configured entry the keys that
the one has counted are those that the other has listed, in the same order, and what a
scan adds comes after them. `ScanInv` says that
start times are never given out twice, that every start time read so far is of the
past, and that every candidate was noted while its process ran: a start time that is
the same before and after the command line was read is of one process. `DialogInv`
says that the keys of the additional servers are pairwise distinct and that the entry
being edited is in the list, also after another one was deleted.

### The monitor (`MonitorProofs`)

| Theorem | Statement |
|---|---|
| `HeldSampleSafe` | `MonitorSpec => HeldSampleExpires` (an action property) |
| `ModelSafe` | `MonitorSpec => ModelIsCurrent` (an action property) |
| `ContextSafe` | `MonitorSpec => []ContextOfOneSlot` |
| `IdleSafe` | `MonitorSpec => []IdleIsEvident` |
| `ServerSafe` | `MonitorSpec => []ServerDecides` |
| `AcceptanceSafe` | `MonitorSpec => []AcceptanceIsMeasured` |
| `RateSafe` | `MonitorSpec => []RateIsReal` |
| `SlotRateSafe` | `MonitorSpec => []SlotRateIsExact` |

*Assumptions.* `TimesAssumption` (the intervals are natural numbers, there is a
longest grace), `NoneAssumption`, `AbsentAssumption` and `LabelsAssumption` ("absent" is
no number, truth value or label), `ServersAssumption` and `ArraysAssumption` (the types
of what a server answers; a slot array has any length), `JoinedAssumption` (how the words
of Strata's names run together) and `PollsAssumption` (where the arrays are any arrays
and not those of one server, one is answered: none can be compared with another).

*Argument.*

* `HeldInv` - the server has not been silent for longer than the age of the sample in
  `last_good` and the time of one request: the age starts when the poll ends, and the
  answer came while the poll ran.
* `PropsInv` - a cache fetched after the server last changed has its model, a poll
  that does not ask for `/props` has a cache that is not due, and an answer still in a
  running poll is current if the server has been steady since it was given.
* `PhaseInv` - what is shown of the slots is what the array says that the monitor has
  kept, and a connected sample rests on an endpoint that answered.
* `SpecInv` - the cache holds what the server said last, the published sample too,
  unless it is a held one. So the local command line can only fill what the server
  left open.
* `MetricsInv` - the baseline that the monitor has kept, the answer under way and what
  is shown are counts the server had at some moment of the past, in this order. A
  restart makes that order visible as a smaller count; where it does not, the
  difference of two counts is work that was done between the two.
* `SlotsInv` - the same of the slot arrays: each array kept or answered is a view of
  the slots at some moment, and the work done between two such moments is at least,
  task by task, what the arrays differ by (`Since`). The sums over the slots follow
  by induction over the positions of the array.

### The samplers and the cores (`PanelProofs`)

| Theorem | Statement |
|---|---|
| `UtilizationSafe` | `DrmSpec => []UtilizationIsReal` |
| `MarkSafe` | `GpuSpec => []MarkIsTrue` |
| `SensorsSafe` | `SensorSpec => []SensorsAreMeasured` |
| `CoreViewSafe` | `TopologySpec => []CoreViewIsTrue` |

*Assumptions.* `DrmAssumption`, `MachinesAssumption` (the cards of a machine have their
own places and addresses, NVIDIA's their own UUIDs) and
`SensorAssumption`, the types of what the kernel offers. None of them says which
clients name themselves or how long an engine has run: where that matters,
`UtilizationIsReal` says so of the single sample.

`TopologyAssumption` says what hybrid machines have in common, as far as the code
relies on it: CPUs are numbered from 0 without a gap; an E-core's capacity is at least
5 % below a P-core's, the difference that `classify_capacity_values` asks for, and an
LP-E core's is no larger; on Intel only P-cores have several threads, and cores of a
class have equally many (`src/cpu.rs:127`, "P-cores have more sibling threads than
E-cores"). Nothing is assumed of which CPUs are online or of what a kernel offers.

*Argument.*

* `DrmInv` - under the key of a process and a device the sampler keeps counts and a
  time of the past (`SampleTyped`); as long as that process lives, what its counters
  have grown by since is work it has done since, and all of it unless a client has
  gone (`SampleCounts`). A pid that was given away has another key. `TotalsInv` compares
  the sums of cycles: they grow by time once for each client while nothing is closed or
  reset, and fall below the last sum otherwise if the engine had run for long enough.
* `GpuInv` - each selectable device stands for exactly one card or one of its MIG
  children (`StandsFor`); what the provider was opened with, what the last sample saw
  and what evidence there is speak of cards of the machine.
* `SensorInv` - between the two reads of the energy counters, each zone's first value
  is at most what was burnt when the sleep began, and its second at least what was
  burnt when it ended (`BaselinesOk`, `SleepOk`, `AgainOk`); so the power shown lies
  between what was burnt during and around the sleep. `CountedOk`, `ClocksOk` and
  `ThermalOk` say the same of single reads.
* `TopologyInv` - the topology on display is the one that a detection makes of the
  machine, and the usage is that of the last loads, by CPU number. The rest is about
  one detection. Every kind it gives out comes from the masks, the capacities or the
  siblings (`ResolvedCases`), and a value that makes a P-core is larger than one that
  makes an E-core (`Classifies`); a CPU that goes offline can only leave kinds unknown
  or lower a sibling count, which never makes an E-core's CPU a P-core's
  (`FasterIsPerformance`). A group that was found is of CPUs that were online when they
  were asked about, and no CPU is in two of them (`FoundAre`), so the bars are sorted and
  each averages its own (`CoresSorted`, `AverageIs`). With all CPUs in place, the CPUs of
  a core have one kind, and all have one if any has (`KindsOfACore`, `AllKnown`), groups
  and cores are the same partition and have the same number (`SameKernel`), and the
  counts of the kinds add up to it (`KindsPartition`). Where classes can be told, a
  fall-back that separates two CPUs separates two classes, so it gives each its own kind
  (`KindsExact`). For the heat map,
  `RowsCover` shows by induction over the rows that they are 0, 1, ... in order, and
  `HeatmapCovers` that the number of rows suffices at every width.

### The screen (`ScreenProofs`)

| Theorem | Statement |
|---|---|
| `LinkSafe` | `HistorySpec => []LinkIsContinuous` |
| `LabelSafe` | `HistorySpec => []LabelIsCurrent` |
| `SelectionSafe` | `TableSpec => SelectionSurvives` (an action property) |
| `PaintedSafe` | `TableSpec => SelectedRowIsPainted` (an action property) |

*Assumptions.* `HistoryAssumption` (the bounds and types of readings) and
`TableAssumption`: a scan lists each pid once, as a map of processes does, and "none" is
no pid, program or row.

*Argument.*

* The history: `ObservedOk` orders what was observed; `LinkOk` ties the loop's three
  times to it; `HistoriesOk` says of each history that it is a subsequence of the
  finite readings which misses none of those that are within the window and the cap
  (`Tracks`). The search of a graph for the newest reading before a column's time is
  then one among all readings.
* The table: `TableInv` says that at most one of a process and a group is selected, and
  that a selection which was scrolled to stands among the scrolled rows of the last
  frame, or is outside the scroll stream (`Followed`). The next frame with at least as
  many rows then shows it (`RowsShown`, `OnRow`), and keeps `Followed`, since it starts
  no later. Underneath are lemmas about the functions: sorting keeps every member and
  repeats none (`SortedMembers`), every process is a row itself or its group is one,
  unless a search hides it, and removing what is pinned or gone loses no other row.

### Folds and sorting

The provers cannot instantiate the library's induction theorems, which take an
operator. `DataInduction` proves induction with the predicate given as a *set*
(`SetInduction`), from the well-foundedness of the naturals. The proofs about folds
first show that the recursive function behind the fold exists (`VisitSetExists` and
its counterparts), then that the fold is the last of a chain of values
in which each is one step after the one before, and then carry the loop's invariant
along that chain. The same induction gives sums over a finite set (that of a union,
monotonicity, equality term by term) and what sorting returns: `Ordered` and
`sorted_processes` place each member by the number of those before it, and in a strict
order no two share a place.

## 6. What is only model-checked

* Liveness and fairness, and `ENABLED`, are outside the prover's reach: `PanicEndsRun`,
  `FastWorkerStops`, `HealthyServerIsRecorded`, `MappingArrives`,
  `SelectorTakesEffect`.
* The round trip of the configuration's text is assumed by `SavesAtomicSafe` and
  evaluated by TLC.

## 7. Disagreements and observations

Three statements of the repository are refuted by a run:

* `restart_polls`: `src/app/workers.rs:262` says "One poll per server at a time."
  and `docs/RUNTIME_RISKS.md:114` derives the bound of 16 threads from it. The
  flag belongs to the slot; a restart at the same endpoint gives the server a
  fresh slot while the old slot's request still hangs. One monitor is never
  polled twice (`OnePollPerMonitor`), one server may be.
* `reorder`: `src/ui/state_llm.rs:131` says that "opening and confirming does not
  switch away". The highlight is an index, and a resync under the open dialog
  moves the servers below it.
* `selector`: `src/domain.rs:587` says that "a user-supplied selector in upper
  case must reach the same identity as the lower-case sysfs key". The settings
  dialog's configuration is sanitized into the file, but the program adopts the
  unsanitized one (`src/app/loop_events.rs:139`), whose bus id then matches no
  device until a restart.

Noted while modelling, with no property stated because the code or its comments
accept it:

* after a resync that replaces the selected server, one frame is painted with
  the previous overview and `selected_server` beside the new panel
  (`src/app.rs:290`);
* polls of replaced slots are not waited for at exit (`src/app/workers.rs:322`);
* a pid reused between the start-time read and the evidence read attributes the
  new process's GPUs until the next refresh (`src/app/workers.rs:131`); the model
  reaches `of # by`;
* `docs/RUNTIME_RISKS.md` F6 says that `run` returns `Ok(())` when a join misses
  its deadline; `join_bounded` returns an error, and `OkMeansWorkersFinished`
  shows that `run` passes it on.

About the monitor and the server list:

* an alias of Strata that is spelled first but lies only outside a present group hides
  a later spelling inside it: the counter is then unknown, not wrong;
* a held share of accepted drafts may outlive a switch of formats within
  `SPEC_ACCEPTANCE_HOLD`;
* `last_good` survives a hard failure, so that a soft one within the grace after it
  shows the sample from before; `HeldSampleExpires` speaks of the grace alone;
* saving the settings writes the endpoint shown in the dialog: a server that was only
  discovered becomes the configured one.

About the panels:

* the selected row may leave the view when the table shows fewer scrolled rows than in
  the last frame - a server connects, the terminal shrinks, a pinned group grows -, for
  `ensure_selected_process_visible` computes with the last frame's number
  (`src/ui/state_process.rs:205`); the next snapshot brings it back;
* `src/ui/state_process.rs:218` says that pinned rows are always visible, but a frame
  paints at most as many rows as the table has: a pinned and expanded group with more
  members is cut, and no key scrolls to the rest;
* DRM: work between the clock of the list and the read of a process skews its busy
  share; a pid reused between the two gives one sample of the wrong process; two `xe`
  clients of one process are averaged, since their totals are summed as well; a
  client without `drm-client-id` is counted once per descriptor, so a process that
  duplicates one seems busier than it is; soon after an engine started or its cycles
  were reset, a sum of totals may grow although a client has gone, and the share
  derived from it may exceed the work done;
* a server with two placements, or with a render node besides a MIG device, is mapped
  to a MIG device and to its parent, although `src/gpu_map.rs:103` says that a process
  is "never mapped to both"; a GPU that a scan names only by UUID is not recognised in a panel named
  only by bus address;
* the average interval is kept while a server is offline; the overview does not show
  it, since it asks for the connection itself;
* CPU: an unknown class counts as a class when detection decides whether the classes
  differ (`has_multiple_core_kinds`); on Intel without masks and capacities, a core with an offline thread is taken
  for an E-core; a CPU that departs during detection may be counted as a core of its
  own; the topology is not detected again after a hot-plug; LP-E cores have no bar;
* a temperature below zero does not parse although the plausible range starts at -20;
  a package whose counter cannot be read is missing from that sample's total.

## 8. Not modelled, and the plan

Left out of the modelled components:

* `update_resolved_server`, which rewrites the endpoint in the header;
* in `LlmWorker`, that a poll may answer by a held sample (`LlamaMonitor` has it): `at`
  is the time of the poll, not of the sample held;
* which sensor is due in which cycle of the fast worker, the drop counters in the
  footer, and the scheduler's idle tick: leaving it out makes `NothingAppliedWaits`
  stronger, since the tick could only hide a change that nobody marked;
* the readings of a GPU, and the attribute files of the Intel and AMD providers: single
  reads with a fall-back to unknown;
* a descriptor passed from one process to another (`DrmSampler`).

Components left out, and why:

* diagnostics: a report printed once, made of what the modelled parts return;
* redaction and `mask_draft`: rewriting of texts, which a state model says nothing
  useful about;
* the file-system abstraction: pure I/O behind a trait, present in the models as reads
  that may fail;
* the updater's wait (one process polling one child with a deadline) and the
  uninstaller: they report errors and keep no state;
* layout, colours and wording, and the drawing of the dialogs.

Every safety property that a passing run checks is proved. What a next step could add is
breadth: the providers' attribute files, and which sensor is due in which cycle.

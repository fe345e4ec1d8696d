--------------------------- MODULE WorkerContract ----------------------------
(***************************************************************************)
(* What the application loop relies on, and nothing more, of the threads   *)
(* behind its channels: the loop of AppLoop against workers that send any- *)
(* thing their contract allows.                                            *)
(*                                                                         *)
(*   - An LLM sample tagged with the current generation was measured by a  *)
(*     monitor of the current server set, under that server's key; a       *)
(*     sample with an older tag can come from anywhere.                    *)
(*   - A snapshot tagged with the current mapping generation attributes    *)
(*     GPUs to the selected server's process or to none; one with an older *)
(*     tag to any process.                                                 *)
(*   - A worker takes its commands when it likes, sends into the bounded   *)
(*     channel when it likes, returns only when it is told to stop or finds *)
(*     its channel closed, and may panic at any time.                      *)
(*                                                                         *)
(* Dashboard implements this specification with the real workers.          *)
(***************************************************************************)
EXTENDS AppLoop

contractVars == <<channelVars, appVars>>

\* Servers that were ever monitored, or may be.
Known == UNION {Range(next.monitored) : next \in ServerLists}

\* Without auto-discovery no process is looked up.
Discoverable(next, auto) ==
  \A spec \in Range(next.monitored) \union Range(next.overflow) :
    spec.identity # None => auto

ContractInit ==
  /\ ChannelsInit
  /\ \E next \in ServerLists, auto \in BOOLEAN :
       /\ Discoverable(next, auto)
       /\ \E choice \in KeysOf(next.monitored) : AppInit(next, choice, auto)

-----------------------------------------------------------------------------
\* The tag of a sample against its origin.
LlmPromise(sample) ==
  /\ sample.generation <= llm_generation
  /\ sample.server = sample.stats.by.key
  /\ sample.stats.by \in Known
  /\ sample.generation = llm_generation => sample.stats.by \in Range(server_list)

\* The tag of a snapshot against the process its GPUs are attributed to.
FastPromise(next) ==
  /\ next.mapping_generation <= mapping_generation
  /\ next.mapping_generation = mapping_generation /\ next.gpu_map.kind = "gpus" =>
       next.gpu_map.of = selected_identity_of(server_list, selected)

FeedLlm(sample) ==
  /\ "llm" \notin Quiet
  /\ LlmPromise(sample)
  /\ llm_thread = "running"
  /\ receiving
  /\ llm_rx' = try_send(llm_rx, sample, LlmCapacity)
  /\ llm_drops' = count_drop(llm_rx, llm_drops, LlmCapacity)
  /\ UNCHANGED <<server_rx, signalVars, fastChannel>>

FeedFast(next) ==
  /\ "fast" \notin Quiet
  /\ FastPromise(next)
  /\ fast_thread = "running"
  /\ receiving
  /\ fast_rx' = try_send(fast_rx, next, FastCapacity)
  /\ fast_drops' = count_drop(fast_rx, fast_drops, FastCapacity)
  /\ UNCHANGED <<server_identity_rx, gpu_selector, signalVars, llmChannel>>

TakeCommand ==
  /\ llm_thread = "running"
  /\ server_rx # <<>>
  /\ server_rx' = Tail(server_rx)
  /\ UNCHANGED <<llm_rx, llm_drops, signalVars, fastChannel>>

TakeIdentity ==
  /\ fast_thread = "running"
  /\ server_identity_rx # <<>>
  /\ server_identity_rx' = Tail(server_identity_rx)
  /\ UNCHANGED <<fast_rx, fast_drops, gpu_selector, signalVars, llmChannel>>

\* A worker returns once it is told to stop or finds its channel closed; it may
\* panic at any time.
WorkerEnds(how) ==
  /\ \/ how = "finished" /\ (stop \/ ~receiving)
     \/ how = "panicked" /\ "worker end" \in Events
  /\ \/ /\ llm_thread = "running"
        /\ llm_thread' = how
        /\ UNCHANGED fast_thread
     \/ /\ fast_thread = "running"
        /\ fast_thread' = how
        /\ UNCHANGED llm_thread
  /\ UNCHANGED <<stop, receiving, llmChannel, fastChannel>>

Workers ==
  \/ \E g \in 0 .. llm_generation, by \in Known, at \in 0 .. MaxClock :
       FeedLlm([server |-> by.key, generation |-> g,
                stats |-> [by |-> by, at |-> at]])
  \/ \E g \in 0 .. mapping_generation, map \in GpuMappings, gpu \in Selectors :
       FeedFast([gpu |-> gpu, gpu_map |-> map, mapping_generation |-> g])
  \/ \E how \in {"finished", "panicked"} : WorkerEnds(how)

ContractResync ==
  /\ "resync" \in Events
  /\ \E next \in ServerLists : Discoverable(next, auto_discovery) /\ Resync(next)

ContractSave ==
  /\ "settings" \in Events
  /\ \E next \in ServerLists, auto \in BOOLEAN, selector \in Selectors :
       Discoverable(next, auto) /\ SaveSettings(next, auto, selector)

ContractNext ==
  \/ Prompt /\ (LoopStep \/ UserStep \/ ContractResync \/ ContractSave)
  \/ (Workers \/ TakeCommand \/ TakeIdentity) /\ UNCHANGED appVars
  \/ appPc = "returned" /\ UNCHANGED contractVars

ContractSpec == ContractInit /\ [][ContractNext]_contractVars

-----------------------------------------------------------------------------
(***************************************************************************)
(* Types                                                                   *)
(***************************************************************************)
Command == [generation : Nat, servers : Seq(Specs)]

ChannelsTypeOK ==
  /\ stop \in BOOLEAN
  /\ receiving \in BOOLEAN
  /\ llm_thread \in ThreadStates
  /\ fast_thread \in ThreadStates
  /\ server_rx \in Seq(Command)
  /\ server_identity_rx \in Seq([generation : Nat, identity : Sessions])
  /\ llm_rx \in Seq(LlmSample)
  /\ fast_rx \in Seq(FastSnapshot)
  /\ llm_drops \in 0 .. MaxDrops
  /\ fast_drops \in 0 .. MaxDrops
  /\ gpu_selector \in Selectors

AppTypeOK ==
  /\ appPc \in AppPcs
  /\ server_list \in Seq(Specs)
  /\ overflow \in Seq(Specs)
  /\ selected \in Keys
  /\ DOMAIN registry \subseteq Keys
  /\ \A k \in DOMAIN registry : registry[k] \in LlmStats
  /\ llm_generation \in 0 .. MaxGeneration
  /\ mapping_generation \in 1 .. MaxMappingGeneration
  /\ snapshot \in DashboardSnapshot
  /\ ui \in UiHistories
  /\ auto_discovery \in BOOLEAN
  /\ dialog \in {"none", "selector", "settings"}
  /\ selector_index \in Nat
  /\ highlight_moved \in BOOLEAN
  /\ dirty \in BOOLEAN
  /\ unpainted \in BOOLEAN
  /\ llm_join \in {"none", "ok", "err"}
  /\ result \in {"none", "ok", "err"}

\* Every variable of the loop and of the channels holds a value of its type.
ContractTypeOK == ChannelsTypeOK /\ AppTypeOK

-----------------------------------------------------------------------------
(***************************************************************************)
(* What the application loop guarantees on top of the contract             *)
(***************************************************************************)

\* A sample enters the registry only when the monitor that took it belongs to
\* the server set of this moment, under its own key: a late sample of a
\* replaced set, of a removed server or of a restarted process is rejected by
\* the generation tag, however many set changes overtook it.
AcceptedFromCurrentSet ==
  [][\A k \in DOMAIN registry' :
       \/ k \in DOMAIN registry /\ registry'[k] = registry[k]
       \/ /\ registry'[k].by \in Range(server_list)
          /\ registry'[k].by.key = k]_contractVars

\* A server's history holds samples of one process only: after a restart at
\* the same endpoint, throughput from before and after is never one graph.
HistoryOfOneProcess ==
  \A k \in DOMAIN ui.llm_histories :
    /\ k \in KeysOf(server_list)
    /\ ui.llm_histories[k] \subseteq {selected_identity_of(server_list, k)}

\* The working history of the selected server and the stored one never drift
\* apart, across samples, switches, restarts and removals, so that what
\* record_llm_sample writes back never loses what was accumulated before.
ActiveHistoryMirrorsStored ==
  \/ /\ ui.llm_history_key = selected
     /\ ui.llm_history = history_of(ui, selected)
  \/ /\ ui.llm_history_key = None
     /\ ui.llm_history = {}
     /\ selected \notin DOMAIN ui.llm_histories

\* The LLM panel shows the selected server's own latest sample.
PanelShowsSelected ==
  /\ selected \in KeysOf(server_list)
  /\ snapshot.llm = sample_of(registry, selected)

\* GPUs are never shown for a server other than the selected one: neither a
\* late snapshot nor the worker's cached mapping survives a new selection or
\* a restart of the selected server.
MappingFollowsSelection ==
  snapshot.gpu_map.kind = "gpus" =>
    snapshot.gpu_map.of = selected_identity_of(server_list, selected)

\* What the pumps, a resync or the selector applied is on the screen before
\* the loop blocks for input.
NothingAppliedWaits == appPc = "paint" /\ unpainted => dirty

\* run returns Ok only after both workers ended by themselves without a panic.
OkMeansWorkersFinished ==
  result = "ok" => llm_thread = "finished" /\ fast_thread = "finished"

\* A selector whose highlight the user never moved highlights the selected
\* server, so that Enter does not switch away.  open_server_selector says so;
\* the highlight is an index, and a resync under the open dialog moves the
\* servers below it.
SelectorKeepsSelection ==
  dialog = "selector" /\ ~highlight_moved =>
    server_list[server_selector_index + 1].key = selected
==============================================================================

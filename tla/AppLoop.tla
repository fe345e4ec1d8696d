------------------------------- MODULE AppLoop -------------------------------
(***************************************************************************)
(* The application loop: app::run in src/app.rs with pump_snapshots and    *)
(* handle_key_event in src/app/loop_events.rs and sync_server_set in       *)
(* src/app/server.rs.  One iteration drains the fast channel, drains the   *)
(* LLM channel, refreshes the overview, re-resolves the servers when the   *)
(* resync interval has elapsed, paints, and waits for one input event.     *)
(* After Esc it sets stop and joins the two workers.                       *)
(*                                                                         *)
(* Intervals are choices of the scheduler.  `order` and `endpoints` are    *)
(* OrderOf(server_list) and its keys, which the code always updates with   *)
(* the list.  Help, process search and the process table do not touch this *)
(* state; their keys are OtherInput.                                       *)
(***************************************************************************)
EXTENDS Channels, LlmHistories

CONSTANTS
  MaxGeneration,        \* bound on llm_generation (a u64 in the code)
  MaxMappingGeneration  \* bound on mapping_generation (a u64 in the code)

VARIABLES
  appPc,              \* where the loop is in its iteration
  server_list,        \* the monitored servers, in display order
  overflow,           \* endpoints past the cap
  selected,           \* key of the selected server
  registry,           \* latest sample of each server, by key
  llm_generation,     \* generation of server_list
  mapping_generation, \* generation of the published identity
  snapshot,           \* DashboardSnapshot
  ui,                 \* the LLM histories of UiState
  auto_discovery,     \* settings.auto_discovery
  dialog,             \* which dialog takes the keys
  selector_index,     \* highlighted row of the server selector, from 0
  highlight_moved,    \* the user moved it since it was opened (not in the code)
  dirty,              \* RedrawScheduler.dirty
  unpainted,          \* a change of the snapshot's samples or of the selection is
                      \* not on the screen yet (not in the code)
  llm_join,           \* outcome of joining the LLM worker
  result              \* what app::run returned

setVars == <<server_list, overflow, selected, registry, llm_generation,
             mapping_generation, ui>>
inputVars == <<auto_discovery, dialog, selector_index, highlight_moved>>
paintVars == <<dirty, unpainted>>
endVars == <<llm_join, result>>
appVars == <<appPc, setVars, snapshot, inputVars, paintVars, endVars>>

AppPcs == {"fast", "llm", "resync", "paint", "join_llm", "join_fast",
           "returned"}

DashboardSnapshot ==
  [gpu : Selectors \union {None}, llm : LlmStats \union {None},
   servers : Seq(Keys), selected_server : Keys \union {None},
   gpu_map : GpuMappings]

ASSUME GenerationAssumption ==
  /\ MaxGeneration \in Nat
  /\ MaxMappingGeneration \in Nat \ {0}

\* Mutant: a switch forgets the sample that is already there.
sample_forgotten(reg, key) == None

\* BTreeMap::get(key).cloned().unwrap_or_default()
sample_of(reg, key) == IF key \in DOMAIN reg THEN reg[key] ELSE None

\* What run does before its loop; the first mapping is published at once.
AppInit(next, choice, auto) ==
  /\ appPc = "fast"
  /\ server_list = next.monitored
  /\ overflow = next.overflow
  /\ selected = choice
  /\ registry = [k \in {} |-> None]
  /\ llm_generation = 0
  /\ mapping_generation = 1
  /\ server_identity_rx =
       <<[generation |-> 1, identity |-> selected_identity_of(server_list, selected)]>>
  /\ snapshot = [gpu |-> None, llm |-> None, servers |-> <<>>,
                 selected_server |-> None, gpu_map |-> NoMapping]
  /\ ui = HistoriesInit
  /\ auto_discovery = auto
  /\ dialog = "none"
  /\ selector_index = 0
  /\ highlight_moved = FALSE
  /\ dirty = TRUE
  /\ unpainted = FALSE
  /\ llm_join = "none"
  /\ result = "none"

\* Mutant: mark_dirty is forgotten.
RepaintUnmarked == unpainted' = TRUE /\ UNCHANGED dirty

\* scheduler.mark_dirty() after something the screen shows was changed.
Repaint == dirty' = TRUE /\ unpainted' = TRUE

\* Mutant: the receivers outlive run.
ReturnHolding(outcome) ==
  /\ appPc' = "returned"
  /\ result' = outcome
  /\ UNCHANGED receiving

\* app::run returns: its ends of the channels are dropped with it.
Return(outcome) ==
  /\ appPc' = "returned"
  /\ result' = outcome
  /\ receiving' = FALSE

-----------------------------------------------------------------------------
\* apply_fast_snapshot: the sensors always, the mapping only when it was
\* computed for the current mapping generation.
PumpFast ==
  /\ appPc = "fast"
  /\ fast_rx # <<>>
  /\ LET next == Head(fast_rx)
     IN  snapshot' = [snapshot EXCEPT
           !.gpu = next.gpu,
           !.gpu_map = IF next.mapping_generation = mapping_generation
                       THEN next.gpu_map ELSE @]
  /\ fast_rx' = Tail(fast_rx)
  /\ Repaint
  /\ UNCHANGED <<appPc, setVars, inputVars, endVars, signalVars, llmChannel,
                 server_identity_rx, fast_drops, gpu_selector>>

PumpFastEmpty ==
  /\ appPc = "fast"
  /\ fast_rx = <<>>
  /\ fast_thread = "running"
  /\ appPc' = "llm"
  /\ UNCHANGED <<setVars, snapshot, inputVars, paintVars, endVars, channelVars>>

\* Mutant: the generation tag is not compared.
AcceptedByKey(sample) == sample.server \in KeysOf(server_list)

\* accepts_llm_sample and endpoints.contains_key
Accepted(sample) ==
  /\ sample.generation = llm_generation
  /\ sample.server \in KeysOf(server_list)

PumpLlmAccept ==
  /\ appPc = "llm"
  /\ llm_rx # <<>>
  /\ LET next == Head(llm_rx)
     IN  /\ Accepted(next)
         /\ ui' = record_llm_sample(ui, next.server, selected,
                                    next.stats.by.identity)
         /\ registry' = [k \in DOMAIN registry \union {next.server} |->
                           IF k = next.server THEN next.stats ELSE registry[k]]
         /\ snapshot' = IF next.server = selected
                        THEN [snapshot EXCEPT !.llm = next.stats] ELSE snapshot
  /\ llm_rx' = Tail(llm_rx)
  /\ Repaint
  /\ UNCHANGED <<appPc, server_list, overflow, selected, llm_generation,
                 mapping_generation, inputVars, endVars, signalVars,
                 fastChannel, server_rx, llm_drops>>

PumpLlmReject ==
  /\ appPc = "llm"
  /\ llm_rx # <<>>
  /\ ~Accepted(Head(llm_rx))
  /\ llm_rx' = Tail(llm_rx)
  /\ UNCHANGED <<appPc, setVars, snapshot, inputVars, paintVars, endVars,
                 signalVars, fastChannel, server_rx, llm_drops>>

\* Both drains are done: rebuild the overview. This does not mark it dirty.
PumpLlmEmpty ==
  /\ appPc = "llm"
  /\ llm_rx = <<>>
  /\ llm_thread = "running"
  /\ snapshot' = [snapshot EXCEPT !.servers = OrderOf(server_list),
                                  !.selected_server = selected]
  /\ appPc' = "resync"
  /\ UNCHANGED <<setVars, inputVars, paintVars, endVars, channelVars>>

\* Mutant: a vanished sender is taken for an empty channel.
PumpDisconnectedAsEmpty ==
  /\ \/ appPc = "fast" /\ fast_rx = <<>> /\ fast_thread # "running"
        /\ appPc' = "llm"
     \/ appPc = "llm" /\ llm_rx = <<>> /\ llm_thread # "running"
        /\ appPc' = "resync"
  /\ UNCHANGED <<setVars, snapshot, inputVars, paintVars, endVars, channelVars>>

\* A drain finds the sender gone: run returns the error, without setting stop.
PumpDisconnected ==
  /\ \/ appPc = "fast" /\ fast_rx = <<>> /\ fast_thread # "running"
     \/ appPc = "llm" /\ llm_rx = <<>> /\ llm_thread # "running"
  /\ Return("err")
  /\ UNCHANGED <<setVars, snapshot, inputVars, paintVars, llm_join, stop,
                 llm_thread, fast_thread, llmChannel, fastChannel>>

-----------------------------------------------------------------------------
\* Mutants: the new identity is published under the old generation; the
\* generation advances and the identity is never sent.
publish_same_generation(list, key) ==
  /\ UNCHANGED mapping_generation
  /\ server_identity_rx' =
       Append(server_identity_rx,
              [generation |-> mapping_generation,
               identity |-> selected_identity_of(list, key)])
publish_nothing(list, key) ==
  /\ mapping_generation < MaxMappingGeneration
  /\ mapping_generation' = mapping_generation + 1
  /\ UNCHANGED server_identity_rx

\* publish_selected_mapping, with the new generation already computed.
publish_selected_mapping(list, key) ==
  /\ mapping_generation < MaxMappingGeneration
  /\ mapping_generation' = mapping_generation + 1
  /\ server_identity_rx' =
       Append(server_identity_rx,
              [generation |-> mapping_generation + 1,
               identity |-> selected_identity_of(list, key)])

\* sync_server_set when only the overflow changed, or nothing did.
SyncOverflow(next) ==
  /\ next.monitored = server_list
  /\ overflow' = next.overflow
  /\ UNCHANGED <<server_list, selected, registry, llm_generation,
                 mapping_generation, ui, snapshot, server_rx,
                 server_identity_rx>>

\* sync_server_set when the monitored set changed.
SyncMonitored(next) ==
  LET list == next.monitored
      live == KeysOf(list)
      kept == Restrict(registry, DOMAIN registry \intersect live)
      gone == selected \notin live
      choice == IF gone THEN Head(list).key ELSE selected
      retained == retain_llm_histories(
                    reset_llm_history(ui, changed_identity_keys(server_list, list)),
                    live)
  IN  /\ list # server_list
      /\ overflow' = next.overflow
      /\ llm_generation < MaxGeneration
      /\ llm_generation' = llm_generation + 1
      /\ server_rx' = Append(server_rx, [generation |-> llm_generation + 1,
                                         servers |-> list])
      /\ server_list' = list
      /\ registry' = kept
      /\ selected' = choice
      /\ ui' = IF gone THEN select_llm_history(retained, choice) ELSE retained
      /\ publish_selected_mapping(list, choice)
      /\ snapshot' = [snapshot EXCEPT
                        !.llm = IF gone THEN sample_of(kept, choice) ELSE @,
                        !.gpu_map = NoMapping]

sync_server_set(next) == SyncOverflow(next) \/ SyncMonitored(next)

\* The resync interval has elapsed and auto-discovery is on.
Resync(next) ==
  /\ appPc = "resync"
  /\ auto_discovery
  /\ sync_server_set(next)
  /\ Repaint
  /\ appPc' = "paint"
  /\ UNCHANGED <<inputVars, endVars, signalVars, llm_rx, llm_drops, fast_rx,
                 fast_drops, gpu_selector>>

NoResync ==
  /\ appPc = "resync"
  /\ appPc' = "paint"
  /\ UNCHANGED <<setVars, snapshot, inputVars, paintVars, endVars, channelVars>>

\* terminal.draw, event::poll or event::read fails: run returns at once.
TerminalError ==
  /\ appPc = "paint"
  /\ Return("err")
  /\ UNCHANGED <<setVars, snapshot, inputVars, paintVars, llm_join, stop,
                 llm_thread, fast_thread, llmChannel, fastChannel>>
-----------------------------------------------------------------------------
(***************************************************************************)
(* Painting touches nothing but the scheduler, so one step paints and then *)
(* takes one input event.  Only a dirty view is painted: the idle tick is  *)
(* left out, it would only hide a change that nobody marked.               *)
(***************************************************************************)
\* event::poll timed out.
NoInput ==
  /\ appPc = "paint"
  /\ dirty' = FALSE
  /\ unpainted' = (unpainted /\ ~dirty)
  /\ appPc' = "fast"
  /\ UNCHANGED <<setVars, snapshot, inputVars, endVars, channelVars>>

\* An event was read: the view is dirty again and the loop starts over.
Input(changed) ==
  /\ appPc = "paint"
  /\ dirty' = TRUE
  /\ unpainted' = (changed \/ (unpainted /\ ~dirty))
  /\ appPc' = "fast"
  /\ UNCHANGED endVars

\* Resize, mouse, help, process search, refresh interval, a rejected save.
OtherInput ==
  /\ Input(FALSE)
  /\ UNCHANGED <<setVars, snapshot, inputVars, channelVars>>

\* order.iter().position(..).unwrap_or(0)
position(list, key) ==
  IF key \in KeysOf(list)
  THEN (CHOOSE i \in DOMAIN list : list[i].key = key) - 1
  ELSE 0

\* 's': the highlight starts on the selected server.
OpenSelector ==
  /\ Input(FALSE)
  /\ dialog = "none"
  /\ dialog' = "selector"
  /\ selector_index' = position(server_list, selected)
  /\ highlight_moved' = FALSE
  /\ UNCHANGED <<setVars, snapshot, auto_discovery, channelVars>>

\* The highlight, clamped to the current list.
server_selector_index ==
  IF selector_index < Len(server_list) THEN selector_index
  ELSE Len(server_list) - 1

\* Mutant: the highlight does not wrap.
MoveHighlightUnwrapped(delta) ==
  /\ Input(FALSE)
  /\ dialog = "selector"
  /\ selector_index' = server_selector_index + delta
  /\ highlight_moved' = TRUE
  /\ UNCHANGED <<setVars, snapshot, auto_discovery, dialog,
                 channelVars>>

\* Up and Down wrap around; nothing is selected yet.
MoveHighlight(delta) ==
  /\ Input(FALSE)
  /\ dialog = "selector"
  /\ selector_index' = (server_selector_index + delta) % Len(server_list)
  /\ highlight_moved' = TRUE
  /\ UNCHANGED <<setVars, snapshot, auto_discovery, dialog,
                 channelVars>>

\* Enter: select the highlighted server and re-attribute the GPUs to it.
ConfirmSelector ==
  LET choice == server_list[server_selector_index + 1].key
  IN  /\ Input(TRUE)
      /\ dialog = "selector"
      /\ dialog' = "none"
      /\ selected' = choice
      /\ ui' = select_llm_history(ui, choice)
      /\ publish_selected_mapping(server_list, choice)
      /\ snapshot' = [snapshot EXCEPT !.llm = sample_of(registry, choice),
                                      !.gpu_map = NoMapping]
      /\ UNCHANGED <<server_list, overflow, registry, llm_generation,
                     auto_discovery, selector_index, highlight_moved,
                     signalVars, llmChannel, fast_rx, fast_drops, gpu_selector>>

\* Esc in the selector or in the settings.
CloseDialog ==
  /\ Input(FALSE)
  /\ dialog # "none"
  /\ dialog' = "none"
  /\ UNCHANGED <<setVars, snapshot, auto_discovery, selector_index,
                 highlight_moved, channelVars>>

\* 'q': the keys go to the settings dialog until it is closed or saved.
OpenSettings ==
  /\ Input(FALSE)
  /\ dialog = "none"
  /\ dialog' = "settings"
  /\ UNCHANGED <<setVars, snapshot, auto_discovery, selector_index,
                 highlight_moved, channelVars>>

\* The settings were saved: adopt them and reconcile the server set.
SaveSettings(next, auto, selector) ==
  /\ Input(TRUE)
  /\ dialog = "settings"
  /\ dialog' = "none"
  /\ auto_discovery' = auto
  /\ gpu_selector' = selector
  /\ sync_server_set(next)
  /\ UNCHANGED <<selector_index, highlight_moved, signalVars, llm_rx,
                 llm_drops, fast_rx, fast_drops>>

\* Esc with no dialog open: leave the loop and ask the workers to stop.
Quit ==
  /\ appPc = "paint"
  /\ dialog = "none"
  /\ stop' = TRUE
  /\ dirty' = TRUE
  /\ appPc' = "join_llm"
  /\ UNCHANGED <<setVars, snapshot, inputVars, unpainted, endVars, receiving,
                 llm_thread, fast_thread, llmChannel, fastChannel>>

-----------------------------------------------------------------------------
\* Mutant: a worker that misses the deadline is left behind without an error.
join_bounded_leniently(thread) == IF thread = "panicked" THEN "err" ELSE "ok"

\* join_bounded: the worker's own outcome; a worker that still runs when 5 s
\* have passed, or that panicked, is an error.
join_bounded(thread) == IF thread = "finished" THEN "ok" ELSE "err"

JoinLlm ==
  /\ appPc = "join_llm"
  /\ llm_join' = join_bounded(llm_thread)
  /\ appPc' = "join_fast"
  /\ UNCHANGED <<setVars, snapshot, inputVars, paintVars, result, channelVars>>

\* Both joins are awaited; the first error wins.
JoinFast ==
  /\ appPc = "join_fast"
  /\ Return(IF llm_join = "ok" THEN join_bounded(fast_thread) ELSE llm_join)
  /\ UNCHANGED <<setVars, snapshot, inputVars, paintVars, llm_join, stop,
                 llm_thread, fast_thread, llmChannel, fastChannel>>

\* The steps that need no user and no elapsed resync interval.
LoopStep ==
  \/ PumpFast \/ PumpFastEmpty
  \/ PumpLlmAccept \/ PumpLlmReject \/ PumpLlmEmpty
  \/ PumpDisconnected \/ NoResync \/ NoInput \/ JoinLlm \/ JoinFast

\* Keys of the user, as far as they leave the server set alone, and failures
\* of the terminal.
UserStep ==
  \/ /\ "selector" \in Events
     /\ \/ OpenSelector
        \/ ConfirmSelector
        \/ \E delta \in {-1, 1} : MoveHighlight(delta)
  \/ "settings" \in Events /\ OpenSettings
  \/ CloseDialog
  \/ "key" \in Events /\ OtherInput
  \/ "quit" \in Events /\ Quit
  \/ "terminal error" \in Events /\ TerminalError
==============================================================================

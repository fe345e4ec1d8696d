------------------------------- MODULE Channels ------------------------------
(***************************************************************************)
(* What the three threads of app::run share: the stop flag, the four mpsc  *)
(* channels with their drop counters, the GPU selector behind its RwLock   *)
(* and what the standard library knows of each thread (src/app.rs,         *)
(* src/app/channels.rs).  A channel is the sequence of its queued values.  *)
(* A receiver learns that the sender is gone only once the queue is empty; *)
(* a sender learns at once that the receiver is gone.                      *)
(***************************************************************************)
EXTENDS Servers

CONSTANTS
  LlmCapacity,  \* bound of llm_rx: MAX_MONITORED_SERVERS in the code
  FastCapacity, \* bound of fast_rx: 2 in the code
  MaxDrops,     \* bound: the drop counters saturate here
  MaxClock,     \* bound: the measurement clock saturates here
  Selectors,    \* GPU selectors a user may save
  Events,       \* bound: the kinds of events from outside that may happen
  Quiet,        \* bound: workers that send nothing
  Eager         \* bound: workers that take a message before anyone else moves

VARIABLES
  stop,               \* AtomicBool: set once, by app::run
  server_rx,          \* LlmCommand::SetServers queued for the LLM worker
  server_identity_rx, \* (generation, identity) queued for the fast worker
  llm_rx,             \* LlmSample queued for the application loop
  fast_rx,            \* FastSnapshot queued for the application loop
  llm_drops,          \* samples the LLM worker dropped on a full channel
  fast_drops,         \* snapshots the fast worker dropped on a full channel
  gpu_selector,       \* the selector shared with the fast worker
  receiving,          \* app::run still holds fast_rx and llm_rx
  llm_thread,         \* what a join of the LLM worker would return
  fast_thread         \* what a join of the fast worker would return

signalVars == <<stop, receiving, llm_thread, fast_thread>>
llmChannel == <<server_rx, llm_rx, llm_drops>>
fastChannel == <<server_identity_rx, fast_rx, fast_drops, gpu_selector>>
channelVars == <<signalVars, llmChannel, fastChannel>>

ThreadStates == {"running", "finished", "panicked"}

(***************************************************************************)
(* LlmStats: what was measured is abstracted to the specification of the   *)
(* server it was measured for and the time of the measurement.             *)
(***************************************************************************)
LlmStats == [by : Specs, at : 0 .. MaxClock]

LlmSample == [server : Keys, generation : Nat, stats : LlmStats]

(***************************************************************************)
(* GpuMapping: not computed, unknown, or GPUs (one or several) that were   *)
(* attributed to the server process `of` on evidence read from process     *)
(* `by`.                                                                   *)
(***************************************************************************)
NoMapping == [kind |-> "none"]
UnknownMapping == [kind |-> "unknown"]
Gpus(of, by) == [kind |-> "gpus", of |-> of, by |-> by]

GpuMappings == {NoMapping, UnknownMapping}
               \union {Gpus(of, by) : of \in Identities, by \in Identities}

FastSnapshot == [gpu : Selectors, gpu_map : GpuMappings,
                 mapping_generation : Nat]

ASSUME CapacityAssumption ==
  /\ LlmCapacity \in Nat \ {0}
  /\ FastCapacity \in Nat \ {0}
  /\ MaxDrops \in Nat
  /\ MaxClock \in Nat

ASSUME InstanceAssumption ==
  /\ Events \subseteq {"selector", "settings", "key", "quit", "resync",
                      "terminal error", "worker end", "poll panic", "process"}
  /\ Quiet \subseteq {"llm", "fast"}
  /\ Eager \subseteq {"llm", "fast"}

\* Counters that only the footer shows saturate instead of growing forever.
Saturate(n, bound) == IF n < bound THEN n + 1 ELSE n

(***************************************************************************)
(* try_send_snapshot: a full channel keeps what it holds and drops the     *)
(* incoming value.  The third outcome, Disconnected, is `~receiving`.      *)
(***************************************************************************)
try_send(queue, value, capacity) ==
  IF Len(queue) < capacity THEN Append(queue, value) ELSE queue

count_drop(queue, drops, capacity) ==
  IF Len(queue) < capacity THEN drops ELSE Saturate(drops, MaxDrops)

\* A worker that is eager in this instance leaves nothing queued for it.
LlmPrompt == "llm" \in Eager /\ llm_thread = "running" => server_rx = <<>>
FastPrompt ==
  "fast" \in Eager /\ fast_thread = "running" => server_identity_rx = <<>>
Prompt == LlmPrompt /\ FastPrompt

ChannelsInit ==
  /\ stop = FALSE
  /\ receiving = TRUE
  /\ llm_thread = "running"
  /\ fast_thread = "running"
  /\ server_rx = <<>>
  /\ llm_rx = <<>>
  /\ llm_drops = 0
  /\ fast_rx = <<>>
  /\ fast_drops = 0
  /\ gpu_selector \in Selectors
==============================================================================

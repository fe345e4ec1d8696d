------------------------------ MODULE Dashboard ------------------------------
(***************************************************************************)
(* OrsikTop at run time: the application loop, the LLM worker with its     *)
(* poll threads, the fast worker and the local processes it watches,       *)
(* composed over the channels of Channels.  app::run starts everything;    *)
(* each thread then takes its own steps.                                   *)
(***************************************************************************)
EXTENDS WorkerContract, LlmWorker, FastWorker

vars == <<channelVars, appVars, llmVars, fastVars, processVars>>

\* What a /proc scan can have found: identities of running processes, and none
\* at all while auto-discovery is off.
Collectable(next, auto) ==
  \A spec \in Range(next.monitored) \union Range(next.overflow) :
    spec.identity # None =>
      auto /\ process_at(spec.identity.pid) = spec.identity

Init ==
  /\ ChannelsInit
  /\ ProcessesInit
  /\ FastInit
  /\ \E next \in ServerLists, auto \in BOOLEAN :
       /\ Collectable(next, auto)
       /\ \E choice \in KeysOf(next.monitored) : AppInit(next, choice, auto)
       /\ LlmInit(next.monitored)

\* Steps of the application loop.
AppStep == LoopStep /\ UNCHANGED <<llmVars, fastVars, processVars>>

AppEvent ==
  /\ \/ UserStep
     \/ /\ "resync" \in Events
        /\ \E next \in ServerLists :
             Collectable(next, auto_discovery) /\ Resync(next)
     \/ /\ "settings" \in Events
        /\ \E next \in ServerLists, auto \in BOOLEAN, selector \in Selectors :
             Collectable(next, auto) /\ SaveSettings(next, auto, selector)
  /\ UNCHANGED <<llmVars, fastVars, processVars>>

\* Steps of the workers and of the poll threads.
LlmThread ==
  /\ LlmStep \/ ("worker end" \in Events /\ LlmPanic)
  /\ UNCHANGED <<appVars, fastVars, processVars, fastChannel>>

PollThreads ==
  /\ PollStep \/ ("poll panic" \in Events /\ \E poll \in polls : PollPanic(poll))
  /\ UNCHANGED <<appVars, fastVars, processVars, fastChannel>>

FastThread ==
  /\ FastStep \/ ("worker end" \in Events /\ FastPanic)
  /\ UNCHANGED <<appVars, llmVars, processVars, llmChannel>>

Environment ==
  /\ "process" \in Events
  /\ ProcessNext
  /\ UNCHANGED <<appVars, llmVars, fastVars, channelVars>>

\* app::run has returned; the process is about to exit.
Finished == appPc = "returned" /\ UNCHANGED vars

\* An eager worker goes first, see Prompt.
Next ==
  \/ Prompt /\ (AppStep \/ AppEvent \/ PollThreads \/ Environment)
  \/ FastPrompt /\ LlmThread
  \/ (LlmPrompt \/ ~FastPrompt) /\ FastThread
  \/ Finished

Spec == Init /\ [][Next]_vars

-----------------------------------------------------------------------------
(***************************************************************************)
(* Types                                                                   *)
(***************************************************************************)
Poll == [slot : Slots, generation : Nat, at : 0 .. MaxClock,
         stage : {"asked", "measured", "sent"}]

LlmTypeOK ==
  /\ llmPc \in LlmPcs \union LlmEnds
  /\ generation \in Nat
  /\ slots \subseteq Slots
  /\ in_flight \subseteq Slots
  /\ polls \subseteq Poll
  /\ sample_rx \in Seq(LlmSample)
  /\ clock \in 0 .. MaxClock

FastTypeOK ==
  /\ fastPc \in FastPcs
  /\ current_selector \in Selectors
  /\ server_generation \in Nat
  /\ server_identity \in Sessions
  /\ current_start \in (1 .. MaxStart) \union {None}
  /\ gpu_map \in GpuMappings
  /\ start_of \in [Pids -> 1 .. MaxStart]
  /\ running \subseteq Pids

\* Every variable holds a value of its type.
TypeOK == ChannelsTypeOK /\ LlmTypeOK /\ FastTypeOK /\ AppTypeOK

-----------------------------------------------------------------------------
(***************************************************************************)
(* Safety                                                                  *)
(***************************************************************************)

\* A newer measurement of a server is never replaced by an older one, whatever
\* order poll threads, worker and application loop run in.
NeverOlderSample ==
  [][\A k \in DOMAIN registry \intersect DOMAIN registry' :
       registry[k].at <= registry'[k].at]_vars

\* The in-flight flag of a slot is set exactly while a poll thread works on its
\* monitor, and only one does: no poll waits for another's mutex, a kept slot
\* keeps this over a set change, and a poll that panics releases its slot.
OnePollPerMonitor ==
  /\ in_flight = {poll.slot : poll \in polls}
  /\ \A p, q \in polls : p.slot = q.slot => p = q

\* One poll per server at a time, as the comment in spawn_llm_worker and the
\* thread bound of RUNTIME_RISKS.md have it.  A restart at the same endpoint
\* gives the server a fresh slot while the old slot's request still hangs.
OnePollPerServer ==
  \A p, q \in polls : p.slot.spec.endpoint = q.slot.spec.endpoint => p = q

-----------------------------------------------------------------------------
(***************************************************************************)
(* Liveness                                                                *)
(*                                                                         *)
(* Threads of the program are scheduled fairly; a request of a server that *)
(* is not wedged returns (the HTTP client has a timeout); the process      *)
(* interval elapses.  A drain ends: a worker sleeps at least MIN_REFRESH_MS *)
(* or MIN_LLM_POLL_MS between the bursts it sends, and a drain is a loop   *)
(* of try_recv calls.  The user, the terminal and the local processes are  *)
(* not fair to anyone.                                                     *)
(***************************************************************************)
PollsOf(key) ==
  /\ Prompt
  /\ \E poll \in polls :
       /\ poll.slot.spec.key = key
       /\ PollRuns(poll)
  /\ UNCHANGED <<appVars, fastVars, processVars, fastChannel>>

DrainsEnd == []<>(appPc # "fast") /\ []<>(appPc # "llm")

Fairness ==
  /\ WF_vars(Prompt /\ AppStep)
  /\ WF_vars(LlmStep /\ UNCHANGED <<appVars, fastVars, processVars, fastChannel>>)
  /\ \A key \in Keys : WF_vars(PollsOf(key))
  /\ WF_vars(FastStep /\ UNCHANGED <<appVars, llmVars, processVars, llmChannel>>)
  /\ SF_vars(FastRefresh /\ UNCHANGED <<appVars, llmVars, processVars, llmChannel>>)
  /\ DrainsEnd

FairSpec == Spec /\ Fairness

\* The loop is in an iteration, with both workers behind it.
Monitoring ==
  /\ appPc \in {"fast", "llm", "resync", "paint"}
  /\ llm_thread = "running"
  /\ fast_thread = "running"

\* A worker that panics ends the dashboard: run returns instead of showing
\* old telemetry for ever, also when the channel still holds samples.
PanicEndsRun ==
  llm_thread = "panicked" \/ fast_thread = "panicked" ~> appPc = "returned"

\* Once run has returned the fast worker stops too, on the error path as well,
\* where stop is never set and only the closed channel tells it.
FastWorkerStops == appPc = "returned" ~> fast_thread # "running"

\* Every healthy monitored server gets a history of its present process, even
\* while another server's request hangs and after every restart.
HealthyServerIsRecorded ==
  \A key \in Keys \ Wedged :
    key \in KeysOf(server_list) ~>
      \/ key \in DOMAIN ui.llm_histories
      \/ key \notin KeysOf(server_list)
      \/ ~Monitoring

\* A saved GPU selector reaches the screen.
SelectorTakesEffect ==
  \A selector \in Selectors :
    gpu_selector = selector ~>
      snapshot.gpu = selector \/ gpu_selector # selector \/ ~Monitoring

\* After a selection or a restart the GPU association of a local server is
\* determined again, be it as unknown.
MappingArrives ==
  selected_identity_of(server_list, selected) # None ~>
    \/ snapshot.gpu_map.kind # "none"
    \/ selected_identity_of(server_list, selected) = None
    \/ ~Monitoring
==============================================================================

------------------------------ MODULE LlmWorker ------------------------------
(***************************************************************************)
(* The LLM worker (spawn_llm_worker in src/app/workers.rs) and the poll    *)
(* threads it detaches.  The worker repeats a cycle: drain the SetServers  *)
(* commands, start one poll for every slot whose in-flight flag is clear,  *)
(* forward the samples that have arrived, sleep.  A poll thread outlives   *)
(* the cycle that started it; it measures its server, sends a sample that  *)
(* carries the generation of the cycle that started it, and clears the     *)
(* flag when it ends, by a return or by a panic.                           *)
(*                                                                         *)
(* Sleeps take any time, so refresh intervals and timeouts are choices of  *)
(* the scheduler.  What LlmStats measures is abstracted to the specifi-    *)
(* cation of the server it was measured for and a reading of `clock`.      *)
(***************************************************************************)
EXTENDS Channels

CONSTANTS
  MaxBacklog, \* bound on sample_rx: further polls answer after a drain
  Wedged      \* keys of servers whose requests never return

VARIABLES
  llmPc,       \* where the worker is in its cycle
  generation,  \* session generation of the worker's server set
  slots,       \* the current LlmPollSlots: a spec and the generation that built it
  in_flight,   \* slots, current or replaced, whose in-flight flag is set
  polls,       \* poll threads: slot, generation tag, progress, reading of clock
  sample_rx,   \* samples sent by poll threads, not yet forwarded
  clock        \* orders measurements (not in the code)

llmVars == <<llmPc, generation, slots, in_flight, polls, sample_rx, clock>>

Slots == [spec : Specs, born : Nat]

\* Where the worker's closure can be; the last four are how it ended.
LlmPcs == {"top", "cmds", "forward", "wait"}
LlmEnds == {"idle", "deadline", "left", "panicked"}

ASSUME BacklogAssumption == MaxBacklog \in Nat

\* LlmPollSlot::new for every initial server; generation 0.
LlmInit(list) ==
  /\ llmPc = "top"
  /\ generation = 0
  /\ slots = {[spec |-> spec, born |-> 0] : spec \in Range(list)}
  /\ in_flight = {}
  /\ polls = {}
  /\ sample_rx = <<>>
  /\ clock = 0

\* Mutant: a slot is kept for its key, whatever process is behind it now.
rebuild_poll_slots_by_key(existing, list, next_generation) ==
  LET kept == {slot \in existing : slot.spec.key \in KeysOf(list)}
      fresh == {spec \in Range(list) : \A slot \in kept : slot.spec.key # spec.key}
  IN  kept \union {[spec |-> spec, born |-> next_generation] : spec \in fresh}

(***************************************************************************)
(* An unchanged server keeps its slot, with monitor and in-flight flag; a  *)
(* new or changed one gets a fresh slot; any other slot is dropped.        *)
(***************************************************************************)
rebuild_poll_slots(existing, list, next_generation) ==
  LET kept == {slot \in existing : slot.spec \in Range(list)}
      fresh == Range(list) \ {slot.spec : slot \in kept}
  IN  kept \union {[spec |-> spec, born |-> next_generation] : spec \in fresh}

-----------------------------------------------------------------------------
\* The head of the cycle: leave the loop when stop is set.
LlmTop ==
  /\ llmPc = "top"
  /\ llmPc' = IF stop THEN "wait" ELSE "cmds"
  /\ UNCHANGED <<generation, slots, in_flight, polls, sample_rx, clock,
                 llmChannel, signalVars>>

\* One SetServers command.
LlmCommand ==
  /\ llmPc = "cmds"
  /\ server_rx # <<>>
  /\ generation' = Head(server_rx).generation
  /\ slots' = rebuild_poll_slots(slots, Head(server_rx).servers,
                                 Head(server_rx).generation)
  /\ server_rx' = Tail(server_rx)
  /\ UNCHANGED <<llmPc, in_flight, polls, sample_rx, clock,
                 llm_rx, llm_drops, signalVars>>

\* Mutants: the flag is not consulted; a cycle waits for every poll before it.
IdleUnchecked == slots
IdleTogether == IF in_flight = {} THEN slots ELSE {}

\* The compare_exchange on each flag: only an idle slot gets a new poll.
Idle == slots \ in_flight

StartPolls(chosen) ==
  /\ in_flight' = in_flight \union chosen
  /\ polls' = polls \union
       {[slot |-> slot, generation |-> generation, stage |-> "asked", at |-> 0] :
          slot \in chosen}

\* No command is left: start a poll for every idle slot.
LlmSpawn ==
  /\ "llm" \notin Quiet
  /\ llmPc = "cmds"
  /\ server_rx = <<>>
  /\ StartPolls(Idle)
  /\ llmPc' = "forward"
  /\ UNCHANGED <<generation, slots, sample_rx, clock,
                 llmChannel, signalVars>>

\* thread::spawn panics when the system refuses a thread: the polls started
\* before it run on, the worker unwinds and drops its ends of the channels.
LlmPanic ==
  /\ "llm" \notin Quiet
  /\ llmPc = "cmds"
  /\ server_rx = <<>>
  /\ \E failed \in Idle : \E started \in SUBSET (Idle \ {failed}) :
       StartPolls(started)
  /\ llmPc' = "panicked"
  /\ llm_thread' = "panicked"
  /\ UNCHANGED <<generation, slots, sample_rx, clock, llmChannel,
                 stop, receiving, fast_thread>>

\* Forward one sample; a full channel drops it and counts the drop.
LlmForward ==
  /\ llmPc = "forward"
  /\ sample_rx # <<>>
  /\ receiving
  /\ llm_rx' = try_send(llm_rx, Head(sample_rx), LlmCapacity)
  /\ llm_drops' = count_drop(llm_rx, llm_drops, LlmCapacity)
  /\ sample_rx' = Tail(sample_rx)
  /\ UNCHANGED <<llmPc, generation, slots, in_flight, polls, clock,
                 server_rx, signalVars>>

\* app::run dropped llm_rx: the worker returns without waiting for its polls.
LlmLeave ==
  /\ llmPc = "forward"
  /\ sample_rx # <<>>
  /\ ~receiving
  /\ llmPc' = "left"
  /\ llm_thread' = "finished"
  /\ UNCHANGED <<generation, slots, in_flight, polls, sample_rx, clock,
                 llmChannel, stop, receiving, fast_thread>>

\* No sample is left: sleep, then begin the next cycle.
LlmSleep ==
  /\ llmPc = "forward"
  /\ sample_rx = <<>>
  /\ llmPc' = "top"
  /\ UNCHANGED <<generation, slots, in_flight, polls, sample_rx, clock,
                 llmChannel, signalVars>>

\* The bounded wait after the loop: it ends when no current slot is in flight
\* or when its deadline passes.
LlmExit ==
  /\ llmPc = "wait"
  /\ \/ slots \intersect in_flight = {} /\ llmPc' = "idle"
     \/ slots \intersect in_flight # {} /\ llmPc' = "deadline"
  /\ llm_thread' = "finished"
  /\ UNCHANGED <<generation, slots, in_flight, polls, sample_rx, clock,
                 llmChannel, stop, receiving, fast_thread>>

-----------------------------------------------------------------------------
\* A poll thread measures its server, holding the slot's mutex until it ends.
PollMeasure(poll) ==
  /\ poll.stage = "asked"
  /\ poll.slot.spec.key \notin Wedged
  /\ clock' = Saturate(clock, MaxClock)
  /\ polls' = (polls \ {poll})
               \union {[poll EXCEPT !.stage = "measured", !.at = clock']}
  /\ UNCHANGED <<llmPc, generation, slots, in_flight, sample_rx,
                 llmChannel, signalVars>>

\* It sends what it measured, with the generation it was started with. The send
\* fails, and nothing is kept, once the worker has dropped its receiver.
PollSend(poll) ==
  /\ poll.stage = "measured"
  /\ Len(sample_rx) < MaxBacklog
  /\ polls' = (polls \ {poll}) \union {[poll EXCEPT !.stage = "sent"]}
  /\ sample_rx' =
       IF llm_thread = "running"
       THEN Append(sample_rx,
                   [server |-> poll.slot.spec.key,
                    generation |-> poll.generation,
                    stats |-> [by |-> poll.slot.spec, at |-> poll.at]])
       ELSE sample_rx
  /\ UNCHANGED <<llmPc, generation, slots, in_flight, clock,
                 llmChannel, signalVars>>

\* The thread is over and PollFlag::drop clears the flag.
PollEnds(poll) ==
  /\ polls' = polls \ {poll}
  /\ in_flight' = in_flight \ {poll.slot}
  /\ UNCHANGED <<llmPc, generation, slots, sample_rx, clock,
                 llmChannel, signalVars>>

\* It returns after it has sent.
PollDone(poll) == poll.stage = "sent" /\ PollEnds(poll)

\* It unwinds before it has sent anything; PollFlag::drop still runs.
PollPanic(poll) ==
  /\ poll.stage = "asked"
  /\ poll.slot.spec.key \notin Wedged
  /\ PollEnds(poll)

PollRuns(poll) == PollMeasure(poll) \/ PollSend(poll) \/ PollDone(poll)

LlmStep ==
  \/ LlmTop \/ LlmCommand \/ LlmSpawn \/ LlmForward
  \/ LlmLeave \/ LlmSleep \/ LlmExit

PollStep == \E poll \in polls : PollRuns(poll)
==============================================================================

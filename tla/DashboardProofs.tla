--------------------------- MODULE DashboardProofs ---------------------------
(***************************************************************************)
(* Proofs about the whole program at run time, with the real workers and   *)
(* their poll threads, for any servers, processes, selectors, capacities   *)
(* and bounds: the workers keep the contract that the application loop     *)
(* relies on, a monitor is polled by one thread at a time, and a newer     *)
(* sample of a server never gives way to an older one.                     *)
(***************************************************************************)
EXTENDS Dashboard, ContractProofs

-----------------------------------------------------------------------------
(***************************************************************************)
(* The inductive invariant of the refinement                               *)
(***************************************************************************)

\* Commands carry consecutive generations: the first one queued is one past
\* what the worker has taken, the last one is what the loop published last.
Chain(queue, taken, published) ==
  /\ taken + Len(queue) = published
  /\ \A i \in 1 .. Len(queue) : queue[i].generation = taken + i

\* What a join would report and where the worker's closure is.
ThreadInv ==
  /\ llm_thread = "running" <=> llmPc \in LlmPcs
  /\ fast_thread = "running" <=> fastPc # "done"
  /\ llmPc = "wait" => stop
  /\ llmPc = "forward" => "llm" \notin Quiet
  /\ fastPc \in {"evidence", "send"} => "fast" \notin Quiet
  /\ fastPc = "evidence" => server_identity # None

\* The LLM worker lags behind server_list by the commands still queued: with
\* none queued its slots are those of the monitored servers.
CommandInv ==
  /\ Chain(server_rx, generation, llm_generation)
  /\ \A i \in 1 .. Len(server_rx) : Range(server_rx[i].servers) \subseteq Known
  /\ \A slot \in slots : slot.spec \in Known
  /\ server_rx # <<>> => server_rx[Len(server_rx)].servers = server_list
  /\ server_rx = <<>> => \A slot \in slots : slot.spec \in Range(server_list)

\* The fast worker lags behind the selection by the identities still queued,
\* and never holds GPUs of any but its own identity.
IdentityInv ==
  /\ Chain(server_identity_rx, server_generation, mapping_generation)
  /\ server_identity_rx # <<>> =>
       server_identity_rx[Len(server_identity_rx)].identity
         = selected_identity_of(server_list, selected)
  /\ server_identity_rx = <<>> =>
       server_identity = selected_identity_of(server_list, selected)
  /\ gpu_map.kind = "gpus" => gpu_map.of = server_identity

\* The tag of a poll against the server it measures, as in LlmPromise.
PollPromise(poll) ==
  /\ poll.generation <= llm_generation
  /\ poll.slot.spec \in Known
  /\ poll.generation = llm_generation => poll.slot.spec \in Range(server_list)

\* Running polls and samples on the way to the worker keep the promise that
\* the loop relies on when the sample reaches it.
PromiseInv ==
  /\ \A poll \in polls : PollPromise(poll)
  /\ \A sample \in Range(sample_rx) : LlmPromise(sample)

RefinementInv ==
  /\ ContractTyped
  /\ LlmTypeOK
  /\ FastTypeOK
  /\ ThreadInv
  /\ CommandInv
  /\ IdentityInv
  /\ PromiseInv

-----------------------------------------------------------------------------
(***************************************************************************)
(* What the operators of the workers return                                *)
(***************************************************************************)

\* Publishing one more command, or taking the first one, keeps the chain.
LEMMA ChainLemma ==
  ASSUME NEW S, NEW queue \in Seq(S), NEW taken \in Nat, NEW published \in Nat,
         Chain(queue, taken, published)
  PROVE  /\ \A v \in S : v.generation = published + 1 =>
              Chain(Append(queue, v), taken, published + 1)
         /\ queue # <<>> =>
              /\ Head(queue).generation = taken + 1
              /\ Chain(Tail(queue), Head(queue).generation, published)
              /\ Head(queue) = queue[1]
              /\ \A i \in 1 .. Len(Tail(queue)) :
                   i + 1 \in 1 .. Len(queue) /\ Tail(queue)[i] = queue[i + 1]
              /\ Tail(queue) = <<>> => Head(queue) = queue[Len(queue)]
              /\ Tail(queue) # <<>> => Tail(queue)[Len(Tail(queue))] = queue[Len(queue)]
         /\ queue = <<>> <=> taken = published
<1>0. Len(queue) \in Nat /\ (queue = <<>> <=> Len(queue) = 0)
  BY LenProperties, EmptySeq
<1>1. ASSUME NEW v \in S, v.generation = published + 1
      PROVE  Chain(Append(queue, v), taken, published + 1)
  <2>1. /\ Len(Append(queue, v)) = Len(queue) + 1
        /\ \A i \in 1 .. Len(queue) + 1 :
             Append(queue, v)[i] = IF i = Len(queue) + 1 THEN v ELSE queue[i]
    BY <1>0
  <2>2. \A i \in 1 .. Len(queue) + 1 : Append(queue, v)[i].generation = taken + i
    <3> TAKE i \in 1 .. Len(queue) + 1
    <3>1. CASE i = Len(queue) + 1
      <4>1. Append(queue, v)[i] = v
        BY <2>1, <3>1
      <4>2. taken + i = published + 1
        BY <1>0, <3>1 DEF Chain
      <4> QED
        BY <1>1, <4>1, <4>2
    <3>2. CASE i # Len(queue) + 1
      <4>1. i \in 1 .. Len(queue)
        BY <1>0, <3>2
      <4> QED BY <2>1, <3>2, <4>1 DEF Chain
    <3> QED BY <3>1, <3>2
  <2> QED BY <1>0, <2>1, <2>2 DEF Chain
<1>2. ASSUME queue # <<>>
      PROVE  /\ Head(queue) = queue[1]
             /\ Len(queue) \in Nat \ {0}
             /\ Tail(queue) \in Seq(S)
             /\ Len(Tail(queue)) = Len(queue) - 1
             /\ Tail(queue) = <<>> <=> Len(queue) = 1
             /\ \A i \in 1 .. Len(Tail(queue)) : Tail(queue)[i] = queue[i + 1]
  <2>1. /\ Tail(queue) \in Seq(S) /\ Len(Tail(queue)) = Len(queue) - 1
        /\ \A i \in 1 .. Len(Tail(queue)) : Tail(queue)[i] = queue[i + 1]
    BY <1>2, HeadTailProperties
  <2>2. Tail(queue) = <<>> <=> Len(Tail(queue)) = 0
    BY <2>1, EmptySeq
  <2> QED BY <1>0, <1>2, <2>1, <2>2
<1>3. ASSUME queue # <<>>
      PROVE  /\ Head(queue).generation = taken + 1
             /\ Chain(Tail(queue), Head(queue).generation, published)
  <2>1. /\ Len(queue) \in Nat \ {0} /\ taken + Len(queue) = published
        /\ Len(Tail(queue)) = Len(queue) - 1
    BY <1>2, <1>3 DEF Chain
  <2>2. Head(queue).generation = taken + 1
    <3>1. 1 \in 1 .. Len(queue)
      BY <2>1
    <3> QED BY <1>2, <1>3, <3>1 DEF Chain
  <2>3. ASSUME NEW i \in 1 .. Len(Tail(queue))
        PROVE  Tail(queue)[i].generation = taken + 1 + i
    <3>1. i + 1 \in 1 .. Len(queue) /\ Tail(queue)[i] = queue[i + 1]
      BY <1>2, <1>3, <2>1
    <3>2. queue[i + 1].generation = taken + (i + 1)
      BY <3>1 DEF Chain
    <3> QED BY <3>1, <3>2
  <2> QED BY <2>1, <2>2, <2>3 DEF Chain
<1>4. ASSUME queue # <<>>
      PROVE  \A i \in 1 .. Len(Tail(queue)) :
               i + 1 \in 1 .. Len(queue) /\ Tail(queue)[i] = queue[i + 1]
  BY <1>0, <1>2, <1>4
<1>5. queue = <<>> <=> taken = published
  BY <1>0 DEF Chain
<1>6. ASSUME queue # <<>>
      PROVE  /\ Tail(queue) = <<>> => Head(queue) = queue[Len(queue)]
             /\ Tail(queue) # <<>> => Tail(queue)[Len(Tail(queue))] = queue[Len(queue)]
  <2>1. Tail(queue) = <<>> => Head(queue) = queue[Len(queue)]
    BY <1>2, <1>6
  <2>2. ASSUME Tail(queue) # <<>>
        PROVE  Tail(queue)[Len(Tail(queue))] = queue[Len(queue)]
    <3>1. Len(queue) \in Nat /\ Len(queue) > 1 /\ Len(Tail(queue)) = Len(queue) - 1
      BY <1>2, <1>6, <2>2
    <3>2. Len(Tail(queue)) \in 1 .. Len(Tail(queue))
      BY <3>1
    <3>3. Tail(queue)[Len(Tail(queue))] = queue[Len(Tail(queue)) + 1]
      BY <1>2, <1>6, <3>2
    <3> QED BY <3>1, <3>3
  <2> QED BY <2>1, <2>2
<1> QED BY <1>1, <1>2, <1>3, <1>4, <1>5, <1>6

\* The last element of a queue after a send.
LEMMA LastSent ==
  ASSUME NEW S, NEW queue \in Seq(S), NEW v \in S
  PROVE  /\ Append(queue, v) # <<>>
         /\ Append(queue, v)[Len(Append(queue, v))] = v
         /\ \A i \in 1 .. Len(Append(queue, v)) :
              \/ i \in 1 .. Len(queue) /\ Append(queue, v)[i] = queue[i]
              \/ Append(queue, v)[i] = v
<1>1. Len(queue) \in Nat
  BY LenProperties
<1>2. /\ Len(Append(queue, v)) = Len(queue) + 1
      /\ Append(queue, v)[Len(queue) + 1] = v
      /\ \A i \in 1 .. Len(queue) : Append(queue, v)[i] = queue[i]
  BY <1>1
<1>3. Append(queue, v) # <<>>
  BY <1>1, <1>2
<1> QED BY <1>1, <1>2, <1>3

\* The slots of a rebuilt set serve exactly the servers of its list, and a slot
\* that was not there before carries the generation of the command.
LEMMA RebuiltSlots ==
  ASSUME NEW existing \in SUBSET Slots, NEW list \in Seq(Specs), NEW g \in Nat
  PROVE  /\ rebuild_poll_slots(existing, list, g) \subseteq Slots
         /\ \A slot \in rebuild_poll_slots(existing, list, g) :
              /\ slot.spec \in Range(list)
              /\ slot \in existing \/ slot.born = g
<1>1. Range(list) \subseteq Specs
  BY ListTypes
<1>2. ASSUME NEW slot \in rebuild_poll_slots(existing, list, g)
      PROVE  /\ slot \in Slots
             /\ slot.spec \in Range(list)
             /\ slot \in existing \/ slot.born = g
  BY <1>1, <1>2 DEF rebuild_poll_slots, Slots
<1> QED BY <1>2

-----------------------------------------------------------------------------
(***************************************************************************)
(* Every step of the program is a step of the contract or leaves the loop  *)
(* and the channels alone                                                  *)
(***************************************************************************)

\* What a worker may do to the loop and the channels.
WorkerStep ==
  [(Workers \/ TakeCommand \/ TakeIdentity) /\ UNCHANGED appVars]_contractVars

\* What a scan finds without auto-discovery is looked up in no process table.
LEMMA CollectedIsDiscoverable ==
  ASSUME NEW next, NEW auto, Collectable(next, auto)
  PROVE  Discoverable(next, auto)
BY DEF Collectable, Discoverable

\* app::run starts the workers in a state the contract starts in.
LEMMA ImplementsInit == Init => ContractInit
BY CollectedIsDiscoverable DEF Init, ContractInit

\* A cycle of the LLM worker: only a taken command, a forwarded sample and its
\* end are visible, and the sample keeps its promise.
LEMMA LlmImplements ==
  ASSUME RefinementInv, LlmThread
  PROVE  WorkerStep
<1> USE DEF contractVars, channelVars, signalVars, llmChannel, fastChannel
<1>0. UNCHANGED <<appVars, fastChannel>>
  BY DEF LlmThread
<1>1. CASE LlmTop \/ LlmSpawn \/ LlmSleep
  BY <1>0, <1>1 DEF LlmTop, LlmSpawn, LlmSleep, WorkerStep
<1>2. CASE LlmCommand
  <2>1. llm_thread = "running"
    BY <1>2 DEF LlmCommand, RefinementInv, ThreadInv, LlmPcs
  <2>2. TakeCommand
    BY <1>0, <1>2, <2>1 DEF LlmCommand, TakeCommand
  <2> QED BY <1>0, <2>2 DEF WorkerStep
<1>3. CASE LlmForward
  <2>1. /\ sample_rx \in Seq(LlmSample) /\ sample_rx # <<>>
        /\ llm_generation \in Nat
    BY <1>3, GenerationAssumption DEF LlmForward, RefinementInv, LlmTypeOK,
       ContractTyped, ContractTypeOK, AppTypeOK
  <2> DEFINE sample == Head(sample_rx)
             g == sample.generation
             by == sample.stats.by
             at == sample.stats.at
  <2>2. sample \in LlmSample /\ sample \in Range(sample_rx)
    BY <2>1, QueueContents, QueueTypes
  <2>3. LlmPromise(sample)
    BY <2>2 DEF RefinementInv, PromiseInv
  <2>4. /\ g \in 0 .. llm_generation /\ by \in Known /\ at \in 0 .. MaxClock
        /\ sample = [server |-> by.key, generation |-> g,
                     stats |-> [by |-> by, at |-> at]]
    BY <2>1, <2>2, <2>3 DEF LlmSample, LlmStats, LlmPromise
  <2>5. llm_thread = "running" /\ "llm" \notin Quiet
    BY <1>3 DEF LlmForward, RefinementInv, ThreadInv, LlmPcs
  <2>6. FeedLlm(sample)
    BY <1>0, <1>3, <2>3, <2>5 DEF LlmForward, FeedLlm
  <2> HIDE DEF g, by, at, sample
  <2>7. Workers
    BY <2>4, <2>6 DEF Workers
  <2> QED BY <1>0, <2>7 DEF WorkerStep
<1>4. CASE LlmLeave \/ LlmExit
  <2>1. llm_thread = "running" /\ (stop \/ ~receiving)
    BY <1>4 DEF LlmLeave, LlmExit, RefinementInv, ThreadInv, LlmPcs
  <2>2. /\ llm_thread' = "finished"
        /\ UNCHANGED <<stop, receiving, fast_thread, llmChannel>>
    BY <1>4 DEF LlmLeave, LlmExit
  <2>3. WorkerEnds("finished")
    BY <1>0, <2>1, <2>2 DEF WorkerEnds
  <2> QED BY <1>0, <2>3 DEF Workers, WorkerStep
<1>5. CASE "worker end" \in Events /\ LlmPanic
  <2>1. llm_thread = "running"
    BY <1>5 DEF LlmPanic, RefinementInv, ThreadInv, LlmPcs
  <2>2. WorkerEnds("panicked")
    BY <1>0, <1>5, <2>1 DEF LlmPanic, WorkerEnds
  <2> QED BY <1>0, <2>2 DEF Workers, WorkerStep
<1> QED BY <1>1, <1>2, <1>3, <1>4, <1>5 DEF LlmThread, LlmStep

\* A cycle of the fast worker: only a taken identity, a sent snapshot and its
\* end are visible, and the snapshot keeps its promise.
LEMMA FastImplements ==
  ASSUME RefinementInv, FastThread
  PROVE  WorkerStep
<1> USE DEF contractVars, channelVars, signalVars, llmChannel, fastChannel
<1>0. UNCHANGED <<appVars, llmChannel>>
  BY DEF FastThread
<1>1. CASE FastSkip \/ FastRefresh \/ FastEvidence
  BY <1>0, <1>1 DEF FastSkip, FastRefresh, FastEvidence, WorkerStep
<1>2. CASE FastTop
  <2>1. CASE ~stop
    BY <1>0, <1>2, <2>1 DEF FastTop, WorkerStep
  <2>2. CASE stop
    <3>1. fast_thread = "running"
      BY <1>2 DEF FastTop, RefinementInv, ThreadInv
    <3>2. WorkerEnds("finished")
      BY <1>0, <1>2, <2>2, <3>1 DEF FastTop, WorkerEnds
    <3> QED BY <1>0, <3>2 DEF Workers, WorkerStep
  <2> QED BY <2>1, <2>2
<1>3. CASE FastIdentity
  <2>1. fast_thread = "running"
    BY <1>3 DEF FastIdentity, RefinementInv, ThreadInv
  <2>2. TakeIdentity
    BY <1>0, <1>3, <2>1 DEF FastIdentity, TakeIdentity
  <2> QED BY <1>0, <2>2 DEF WorkerStep
<1>4. CASE FastSend
  <2> DEFINE sent == [gpu |-> current_selector, gpu_map |-> gpu_map,
                      mapping_generation |-> server_generation]
  <2>1. /\ server_generation \in Nat /\ mapping_generation \in Nat
        /\ current_selector \in Selectors /\ gpu_map \in GpuMappings
        /\ server_identity_rx \in Seq([generation : Nat, identity : Sessions])
    BY GenerationAssumption DEF RefinementInv, FastTypeOK, ContractTyped,
       ContractTypeOK, AppTypeOK, ChannelsTypeOK
  <2>2. Chain(server_identity_rx, server_generation, mapping_generation)
    BY DEF RefinementInv, IdentityInv
  <2>3. server_identity_rx = <<>> <=> server_generation = mapping_generation
    BY <2>1, <2>2, ChainLemma
  <2>4. server_generation \in 0 .. mapping_generation
    BY <2>1, <2>2, LenProperties DEF Chain
  <2>5. FastPromise(sent)
    BY <2>3, <2>4 DEF FastPromise, RefinementInv, IdentityInv
  <2>6. fast_thread = "running" /\ "fast" \notin Quiet
    BY <1>4 DEF FastSend, RefinementInv, ThreadInv
  <2>7. FeedFast(sent)
    BY <1>0, <1>4, <2>5, <2>6 DEF FastSend, FeedFast
  <2>8. Workers
    BY <2>1, <2>4, <2>7 DEF Workers
  <2> QED BY <1>0, <2>8 DEF WorkerStep
<1>5. CASE FastLeave
  <2>1. fast_thread = "running"
    BY <1>5 DEF FastLeave, RefinementInv, ThreadInv
  <2>2. WorkerEnds("finished")
    BY <1>0, <1>5, <2>1 DEF FastLeave, WorkerEnds
  <2> QED BY <1>0, <2>2 DEF Workers, WorkerStep
<1>6. CASE "worker end" \in Events /\ FastPanic
  <2>1. fast_thread = "running"
    BY <1>6 DEF FastPanic, RefinementInv, ThreadInv
  <2>2. WorkerEnds("panicked")
    BY <1>0, <1>6, <2>1 DEF FastPanic, WorkerEnds
  <2> QED BY <1>0, <2>2 DEF Workers, WorkerStep
<1> QED BY <1>1, <1>2, <1>3, <1>4, <1>5, <1>6 DEF FastThread, FastStep

\* A poll thread touches no channel of the loop.
LEMMA PollsImplement ==
  ASSUME PollThreads
  PROVE  UNCHANGED contractVars
BY DEF PollThreads, PollStep, PollRuns, PollMeasure, PollSend, PollDone,
   PollPanic, PollEnds, contractVars, channelVars

\* Every step of the program is one of the contract.
LEMMA ImplementsStep ==
  RefinementInv /\ [Next]_vars => [ContractNext]_contractVars
<1> SUFFICES ASSUME RefinementInv, [Next]_vars
             PROVE  [ContractNext]_contractVars
  OBVIOUS
<1>1. CASE Prompt /\ AppStep
  BY <1>1 DEF AppStep, ContractNext
<1>2. CASE Prompt /\ AppEvent
  BY <1>2, CollectedIsDiscoverable
     DEF AppEvent, ContractNext, ContractResync, ContractSave
<1>3. CASE PollThreads
  BY <1>3, PollsImplement
<1>4. CASE Environment
  BY <1>4 DEF Environment, contractVars
<1>5. CASE LlmThread
  BY <1>5, LlmImplements DEF WorkerStep, ContractNext
<1>6. CASE FastThread
  BY <1>6, FastImplements DEF WorkerStep, ContractNext
<1>7. CASE UNCHANGED vars
  BY <1>7 DEF vars, contractVars
<1> QED BY <1>1, <1>2, <1>3, <1>4, <1>5, <1>6, <1>7 DEF Next, Finished

-----------------------------------------------------------------------------
(***************************************************************************)
(* The invariant is inductive                                              *)
(***************************************************************************)

\* A new server set is published to the LLM worker under the next generation.
SetPublished ==
  \E next \in ServerLists :
    /\ server_list' = next.monitored
    /\ llm_generation' = llm_generation + 1
    /\ server_rx' = Append(server_rx, [generation |-> llm_generation + 1,
                                       servers |-> next.monitored])

\* The identity behind the selection is published to the fast worker.
IdentityPublished ==
  /\ mapping_generation' = mapping_generation + 1
  /\ server_identity_rx' =
       Append(server_identity_rx,
              [generation |-> mapping_generation + 1,
               identity |-> selected_identity_of(server_list', selected')])

\* What the workers can see of a step of the application loop: the server set
\* changes only together with a command, the selection only with an identity.
LoopEffect ==
  /\ UNCHANGED <<llm_thread, fast_thread>>
  /\ stop => stop'
  /\ UNCHANGED <<server_list, llm_generation, server_rx>> \/ SetPublished
  /\ \/ UNCHANGED <<server_list, selected, mapping_generation, server_identity_rx>>
     \/ IdentityPublished

\* sync_server_set publishes a changed set, and the selection with it.
LEMMA SyncEffect ==
  ASSUME NEW next \in ServerLists, sync_server_set(next), UNCHANGED signalVars
  PROVE  LoopEffect
<1> USE DEF signalVars
<1>1. CASE SyncOverflow(next)
  BY <1>1 DEF SyncOverflow, LoopEffect
<1>2. CASE SyncMonitored(next)
  <2>1. SetPublished
    BY <1>2 DEF SyncMonitored, SetPublished
  <2>2. IdentityPublished
    BY <1>2 DEF SyncMonitored, publish_selected_mapping, IdentityPublished
  <2> QED BY <2>1, <2>2 DEF LoopEffect
<1> QED BY <1>1, <1>2 DEF sync_server_set

\* Of all the steps of the loop only sync_server_set and a confirmed selection
\* reach the workers' queues.
LEMMA AppEffect ==
  ASSUME AppStep \/ AppEvent
  PROVE  LoopEffect
<1> USE DEF setVars, signalVars, llmChannel, fastChannel, channelVars
<1>1. CASE /\ UNCHANGED <<server_list, selected, llm_generation, server_rx,
                          mapping_generation, server_identity_rx,
                          llm_thread, fast_thread>>
           /\ stop => stop'
  BY <1>1 DEF LoopEffect
<1>2. CASE LoopStep
  BY <1>1, <1>2 DEF LoopStep, PumpFast, PumpFastEmpty, PumpLlmAccept,
     PumpLlmReject, PumpLlmEmpty, PumpDisconnected, NoResync, NoInput, JoinLlm,
     JoinFast
<1>3. CASE ConfirmSelector
  BY <1>3 DEF ConfirmSelector, publish_selected_mapping, IdentityPublished,
     LoopEffect
<1>4. CASE UserStep
  BY <1>1, <1>3, <1>4 DEF UserStep, OpenSelector, MoveHighlight, OpenSettings,
     CloseDialog, OtherInput, Quit, TerminalError
<1>5. ASSUME NEW next \in ServerLists, Resync(next)
      PROVE  LoopEffect
  BY <1>5, SyncEffect DEF Resync
<1>6. ASSUME NEW next \in ServerLists, NEW auto, NEW selector,
             SaveSettings(next, auto, selector)
      PROVE  LoopEffect
  BY <1>6, SyncEffect DEF SaveSettings
<1> QED BY <1>2, <1>4, <1>5, <1>6 DEF AppStep, AppEvent

\* What publish_selected_mapping sends.
IdentityMessage == [generation : Nat, identity : Sessions]

\* The types of what the chains relate.
LEMMA ChainTypes ==
  ASSUME RefinementInv
  PROVE  /\ server_rx \in Seq(Command)
         /\ server_identity_rx \in Seq(IdentityMessage)
         /\ generation \in Nat /\ llm_generation \in Nat
         /\ server_generation \in Nat /\ mapping_generation \in Nat
         /\ slots \subseteq Slots
         /\ polls \subseteq Poll
         /\ sample_rx \in Seq(LlmSample)
         /\ Range(sample_rx) \subseteq LlmSample
         /\ server_list \in Seq(Specs)
<1>1. /\ server_rx \in Seq(Command)
      /\ server_identity_rx \in Seq(IdentityMessage)
      /\ generation \in Nat /\ llm_generation \in Nat
      /\ server_generation \in Nat /\ mapping_generation \in Nat
      /\ slots \subseteq Slots
      /\ polls \subseteq Poll
      /\ sample_rx \in Seq(LlmSample)
      /\ server_list \in Seq(Specs)
  BY GenerationAssumption DEF RefinementInv, LlmTypeOK, FastTypeOK,
     ContractTyped, ContractTypeOK, AppTypeOK, ChannelsTypeOK, IdentityMessage
<1>2. Range(sample_rx) \subseteq LlmSample
  BY <1>1, LenProperties, ElementOfSeq DEF Range
<1> QED BY <1>1, <1>2

\* A step of the loop keeps the worker's view of the server set: a sample that
\* was tagged with the old generation promises nothing about the new set.
LEMMA CommandsAfterLoop ==
  ASSUME RefinementInv, LoopEffect, UNCHANGED llmVars
  PROVE  CommandInv' /\ PromiseInv'
<1> USE DEF llmVars
<1>0. CommandInv /\ PromiseInv
  BY DEF RefinementInv
<1>1. CASE UNCHANGED <<server_list, llm_generation, server_rx>>
  <2>1. CommandInv'
    BY <1>0, <1>1 DEF CommandInv, Chain
  <2>2. PromiseInv'
    BY <1>0, <1>1 DEF PromiseInv, PollPromise, LlmPromise
  <2> QED BY <2>1, <2>2
<1>2. CASE SetPublished
  <2>1. PICK next \in ServerLists :
          /\ server_list' = next.monitored
          /\ llm_generation' = llm_generation + 1
          /\ server_rx' = Append(server_rx, [generation |-> llm_generation + 1,
                                             servers |-> next.monitored])
    BY <1>2 DEF SetPublished
  <2> DEFINE command == [generation |-> llm_generation + 1,
                         servers |-> next.monitored]
  <2>2. command \in Command /\ Range(next.monitored) \subseteq Known
    BY ServerListTypes, ChainTypes DEF Command, Known
  <2>3. command.generation = llm_generation + 1 /\ command.servers = next.monitored
    OBVIOUS
  <2> HIDE DEF command
  <2>4. Chain(server_rx', generation, llm_generation + 1)
    BY <1>0, <2>1, <2>2, <2>3, ChainTypes, ChainLemma DEF CommandInv, command
  <2>5. Chain(server_rx, generation, llm_generation)'
    BY <2>1, <2>4 DEF Chain
  <2>6. /\ server_rx' # <<>>
        /\ server_rx'[Len(server_rx')] = command
        /\ \A i \in 1 .. Len(server_rx') :
             \/ i \in 1 .. Len(server_rx) /\ server_rx'[i] = server_rx[i]
             \/ server_rx'[i] = command
    BY <2>1, <2>2, ChainTypes, LastSent DEF command
  <2>7. \A i \in 1 .. Len(server_rx') : Range(server_rx'[i].servers) \subseteq Known
    BY <1>0, <2>2, <2>3, <2>6 DEF CommandInv
  <2>8. CommandInv'
    BY <1>0, <2>1, <2>3, <2>5, <2>6, <2>7 DEF CommandInv
  <2>9. ASSUME NEW poll \in polls PROVE PollPromise(poll)'
    <3>1. poll.generation \in Nat /\ PollPromise(poll)
      BY <1>0, ChainTypes DEF Poll, PromiseInv
    <3> QED BY <2>1, <3>1, ChainTypes DEF PollPromise
  <2>10. ASSUME NEW sample \in Range(sample_rx) PROVE LlmPromise(sample)'
    <3>1. sample.generation \in Nat /\ LlmPromise(sample)
      BY <1>0, ChainTypes DEF LlmSample, PromiseInv
    <3> QED BY <2>1, <3>1, ChainTypes DEF LlmPromise
  <2> QED BY <2>8, <2>9, <2>10 DEF PromiseInv
<1> QED BY <1>1, <1>2 DEF LoopEffect

\* A step of the loop keeps the worker's view of the selection.
LEMMA IdentitiesAfterLoop ==
  ASSUME RefinementInv, LoopEffect, UNCHANGED fastVars
  PROVE  IdentityInv'
<1> USE DEF fastVars
<1>0. IdentityInv
  BY DEF RefinementInv
<1>1. CASE UNCHANGED <<server_list, selected, mapping_generation, server_identity_rx>>
  BY <1>0, <1>1 DEF IdentityInv, Chain
<1>2. CASE IdentityPublished
  <2> DEFINE session == selected_identity_of(server_list', selected')
             sent == [generation |-> mapping_generation + 1, identity |-> session]
  <2>1. /\ mapping_generation' = mapping_generation + 1
        /\ server_identity_rx' = Append(server_identity_rx, sent)
    BY <1>2 DEF IdentityPublished
  <2>2. session \in Sessions
    <3>1. server_list' \in Seq(Specs)
      BY ChainTypes, ServerListTypes DEF LoopEffect, SetPublished
    <3> QED BY <3>1, ListTypes
  <2>3. sent \in IdentityMessage
    BY <2>2, ChainTypes DEF IdentityMessage
  <2>4. sent.generation = mapping_generation + 1 /\ sent.identity = session
    OBVIOUS
  <2> HIDE DEF sent
  <2>5. Chain(server_identity_rx', server_generation, mapping_generation + 1)
    BY <1>0, <2>1, <2>3, <2>4, ChainTypes, ChainLemma DEF IdentityInv
  <2>6. Chain(server_identity_rx, server_generation, mapping_generation)'
    BY <2>1, <2>5 DEF Chain
  <2>7. /\ server_identity_rx' # <<>>
        /\ server_identity_rx'[Len(server_identity_rx')] = sent
    <3>1. /\ Append(server_identity_rx, sent) # <<>>
          /\ Append(server_identity_rx, sent)[Len(Append(server_identity_rx, sent))]
               = sent
      BY <2>3, ChainTypes, LastSent
    <3> QED BY <2>1, <3>1
  <2> QED BY <1>0, <2>4, <2>6, <2>7 DEF IdentityInv
<1> QED BY <1>1, <1>2 DEF LoopEffect

\* Every step of the application loop keeps the invariant.
LEMMA RefinementAfterLoop ==
  ASSUME RefinementInv, ContractTyped', AppStep \/ AppEvent
  PROVE  RefinementInv'
<1>0. LoopEffect /\ UNCHANGED <<llmVars, fastVars, processVars>>
  BY AppEffect DEF AppStep, AppEvent
<1>1. CommandInv' /\ PromiseInv'
  BY <1>0, CommandsAfterLoop
<1>2. IdentityInv'
  BY <1>0, IdentitiesAfterLoop
<1>3. ThreadInv'
  BY <1>0 DEF RefinementInv, ThreadInv, LoopEffect, llmVars, fastVars
<1>4. LlmTypeOK' /\ FastTypeOK'
  BY <1>0 DEF RefinementInv, LlmTypeOK, FastTypeOK, llmVars, fastVars, processVars
<1> QED BY <1>1, <1>2, <1>3, <1>4 DEF RefinementInv

\* What the LLM worker starts, started with an idle slot, keeps its promise:
\* with no command queued the worker's set is the loop's.
LEMMA StartedPolls ==
  ASSUME RefinementInv, server_rx = <<>>, NEW chosen \in SUBSET slots,
         StartPolls(chosen)
  PROVE  /\ polls' \subseteq Poll
         /\ \A poll \in polls' : PollPromise(poll)
<1>1. ASSUME NEW poll \in polls'
      PROVE  poll \in Poll /\ PollPromise(poll)
  <2>1. CASE poll \in polls
    BY <2>1, ChainTypes DEF RefinementInv, PromiseInv
  <2>2. CASE poll \notin polls
    <3>1. PICK slot \in chosen :
            poll = [slot |-> slot, generation |-> generation,
                    stage |-> "asked", at |-> 0]
      BY <1>1, <2>2 DEF StartPolls
    <3>2. /\ slot \in Slots /\ slot.spec \in Range(server_list)
          /\ slot.spec \in Known
      BY ChainTypes DEF RefinementInv, CommandInv
    <3>3. generation = llm_generation
      BY ChainTypes, ChainLemma DEF RefinementInv, CommandInv
    <3>4. poll \in Poll
      BY <3>1, <3>2, ChainTypes, CapacityAssumption DEF Poll
    <3> QED BY <3>1, <3>2, <3>3, <3>4, ChainTypes DEF PollPromise
  <2> QED BY <2>1, <2>2
<1> QED BY <1>1

\* A taken command brings the worker's set one generation closer to the loop's.
LEMMA CommandTaken ==
  ASSUME RefinementInv, LlmCommand, UNCHANGED <<server_list, llm_generation>>
  PROVE  CommandInv' /\ generation' \in Nat /\ slots' \subseteq Slots
<1> DEFINE command == Head(server_rx)
<1>0. CommandInv
  BY DEF RefinementInv
<1>1. /\ server_rx # <<>> /\ server_rx' = Tail(server_rx)
      /\ generation' = command.generation
      /\ slots' = rebuild_poll_slots(slots, command.servers, command.generation)
  BY DEF LlmCommand
<1>2. command \in Command
  BY <1>1, ChainTypes, QueueTypes
<1>3. command.generation \in Nat /\ command.servers \in Seq(Specs)
  BY <1>2 DEF Command
<1>4. /\ Chain(Tail(server_rx), command.generation, llm_generation)
      /\ command = server_rx[1]
      /\ \A i \in 1 .. Len(Tail(server_rx)) :
           i + 1 \in 1 .. Len(server_rx) /\ Tail(server_rx)[i] = server_rx[i + 1]
      /\ Tail(server_rx) = <<>> => command = server_rx[Len(server_rx)]
      /\ Tail(server_rx) # <<>> =>
           Tail(server_rx)[Len(Tail(server_rx))] = server_rx[Len(server_rx)]
  BY <1>0, <1>1, ChainTypes, ChainLemma DEF CommandInv
<1>5. /\ slots' \subseteq Slots
      /\ \A slot \in slots' : slot.spec \in Range(command.servers)
  BY <1>1, <1>3, ChainTypes, RebuiltSlots
<1>6. Range(command.servers) \subseteq Known
  <2>1. 1 \in 1 .. Len(server_rx)
    BY <1>1, ChainTypes, EmptySeq, LenProperties
  <2> QED BY <1>0, <1>4, <2>1 DEF CommandInv
<1> HIDE DEF command
<1>7. \A i \in 1 .. Len(server_rx') : Range(server_rx'[i].servers) \subseteq Known
  BY <1>0, <1>1, <1>4 DEF CommandInv
<1>8. Chain(server_rx, generation, llm_generation)'
  BY <1>1, <1>4 DEF Chain
<1>9. server_rx' # <<>> => server_rx'[Len(server_rx')].servers = server_list'
  BY <1>0, <1>1, <1>4 DEF CommandInv
<1>10. server_rx' = <<>> => \A slot \in slots' : slot.spec \in Range(server_list')
  BY <1>0, <1>1, <1>4, <1>5 DEF CommandInv
<1>11. \A slot \in slots' : slot.spec \in Known
  BY <1>5, <1>6
<1> QED BY <1>1, <1>3, <1>5, <1>7, <1>8, <1>9, <1>10, <1>11 DEF CommandInv

\* Every step of the LLM worker keeps the invariant.
LEMMA RefinementAfterLlm ==
  ASSUME RefinementInv, ContractTyped', LlmThread
  PROVE  RefinementInv'
<1> USE DEF signalVars, llmChannel, fastChannel
<1>0. /\ UNCHANGED <<appVars, fastVars, processVars, fastChannel>>
      /\ UNCHANGED <<server_list, llm_generation, selected, mapping_generation>>
  BY DEF LlmThread, appVars, setVars
<1>1. IdentityInv' /\ FastTypeOK'
  BY <1>0 DEF RefinementInv, IdentityInv, Chain, FastTypeOK, fastVars, processVars
<1>2. ASSUME UNCHANGED <<generation, slots, server_rx>> PROVE CommandInv'
  BY <1>0, <1>2 DEF RefinementInv, CommandInv, Chain
<1>3. ASSUME UNCHANGED <<polls, sample_rx>> PROVE PromiseInv'
  BY <1>0, <1>3 DEF RefinementInv, PromiseInv, PollPromise, LlmPromise
<1>4. /\ fast_thread = "running" <=> fastPc # "done"
      /\ fastPc \in {"evidence", "send"} => "fast" \notin Quiet
      /\ fastPc = "evidence" => server_identity # None
      /\ UNCHANGED <<fastPc, server_identity>>
  BY <1>0 DEF RefinementInv, ThreadInv, fastVars
<1>5. CASE LlmTop \/ LlmSleep
  <2>1. ThreadInv'
    BY <1>4, <1>5 DEF LlmTop, LlmSleep, RefinementInv, ThreadInv, LlmPcs
  <2>2. LlmTypeOK'
    BY <1>5 DEF LlmTop, LlmSleep, RefinementInv, LlmTypeOK, LlmPcs
  <2>3. UNCHANGED <<generation, slots, server_rx, polls, sample_rx>>
    BY <1>5 DEF LlmTop, LlmSleep
  <2> QED BY <1>1, <1>2, <1>3, <2>1, <2>2, <2>3 DEF RefinementInv
<1>6. CASE LlmCommand
  <2>1. CommandInv' /\ generation' \in Nat /\ slots' \subseteq Slots
    BY <1>0, <1>6, CommandTaken
  <2>2. ThreadInv'
    BY <1>4, <1>6 DEF LlmCommand, RefinementInv, ThreadInv
  <2>3. LlmTypeOK'
    BY <1>6, <2>1 DEF LlmCommand, RefinementInv, LlmTypeOK
  <2> QED BY <1>1, <1>3, <1>6, <2>1, <2>2, <2>3 DEF RefinementInv, LlmCommand
<1>7. ASSUME server_rx = <<>>, NEW chosen \in SUBSET slots, StartPolls(chosen),
             UNCHANGED <<generation, slots, sample_rx, clock, server_rx>>,
             llmPc' \in LlmPcs \union LlmEnds
      PROVE  LlmTypeOK' /\ CommandInv' /\ PromiseInv'
  <2>1. polls' \subseteq Poll /\ \A poll \in polls' : PollPromise(poll)
    BY <1>7, StartedPolls
  <2>2. in_flight' \subseteq Slots
    BY <1>7, ChainTypes DEF StartPolls, RefinementInv, LlmTypeOK
  <2>3. LlmTypeOK'
    BY <1>7, <2>1, <2>2 DEF RefinementInv, LlmTypeOK
  <2>4. PromiseInv'
    BY <1>0, <1>7, <2>1 DEF RefinementInv, PromiseInv, PollPromise, LlmPromise
  <2> QED BY <1>2, <1>7, <2>3, <2>4
<1>8. CASE LlmSpawn
  <2>1. ThreadInv'
    BY <1>4, <1>8 DEF LlmSpawn, RefinementInv, ThreadInv, LlmPcs
  <2>2. LlmTypeOK' /\ CommandInv' /\ PromiseInv'
    BY <1>7, <1>8 DEF LlmSpawn, Idle, LlmPcs
  <2> QED BY <1>1, <2>1, <2>2 DEF RefinementInv
<1>9. CASE LlmPanic
  <2>1. ThreadInv'
    BY <1>4, <1>9 DEF LlmPanic, RefinementInv, ThreadInv, LlmPcs
  <2>2. PICK started \in SUBSET slots : StartPolls(started)
    BY <1>9 DEF LlmPanic, Idle
  <2>3. LlmTypeOK' /\ CommandInv' /\ PromiseInv'
    BY <1>7, <1>9, <2>2 DEF LlmPanic, LlmEnds
  <2> QED BY <1>1, <2>1, <2>3 DEF RefinementInv
<1>10. CASE LlmForward
  <2>1. /\ Tail(sample_rx) \in Seq(LlmSample)
        /\ Range(Tail(sample_rx)) \subseteq Range(sample_rx)
    BY <1>10, ChainTypes, QueueTypes, QueueContents DEF LlmForward
  <2>2. PromiseInv'
    BY <1>0, <1>10, <2>1
       DEF LlmForward, RefinementInv, PromiseInv, PollPromise, LlmPromise
  <2>3. LlmTypeOK'
    BY <1>10, <2>1 DEF LlmForward, RefinementInv, LlmTypeOK
  <2>4. ThreadInv'
    BY <1>4, <1>10 DEF LlmForward, RefinementInv, ThreadInv
  <2> QED BY <1>1, <1>2, <1>10, <2>2, <2>3, <2>4 DEF RefinementInv, LlmForward
<1>11. CASE LlmLeave \/ LlmExit
  <2>1. ThreadInv'
    BY <1>4, <1>11 DEF LlmLeave, LlmExit, RefinementInv, ThreadInv, LlmPcs
  <2>2. LlmTypeOK'
    BY <1>11 DEF LlmLeave, LlmExit, RefinementInv, LlmTypeOK, LlmEnds
  <2>3. UNCHANGED <<generation, slots, server_rx, polls, sample_rx>>
    BY <1>11 DEF LlmLeave, LlmExit
  <2> QED BY <1>1, <1>2, <1>3, <2>1, <2>2, <2>3 DEF RefinementInv
<1> QED BY <1>5, <1>6, <1>8, <1>9, <1>10, <1>11 DEF LlmThread, LlmStep

\* A poll that measured, sent or ended is one that ran before, with the tag and
\* the slot it was started with.
LEMMA PollsAfterStep ==
  ASSUME RefinementInv, PollThreads
  PROVE  /\ polls' \subseteq Poll
         /\ clock' \in 0 .. MaxClock
         /\ \A poll \in polls' : \E old \in polls :
              poll.slot = old.slot /\ poll.generation = old.generation
         /\ UNCHANGED <<llmPc, generation, slots>>
         /\ in_flight' \subseteq in_flight
<1>0. clock \in 0 .. MaxClock /\ polls \subseteq Poll
  BY DEF RefinementInv, LlmTypeOK
<1>1. ASSUME NEW poll \in polls, PollMeasure(poll)
      PROVE  /\ clock' \in 0 .. MaxClock
             /\ polls' \subseteq Poll
             /\ \A next \in polls' : \E old \in polls :
                  next.slot = old.slot /\ next.generation = old.generation
  <2> DEFINE next == [poll EXCEPT !.stage = "measured", !.at = clock']
  <2>1. clock' \in 0 .. MaxClock
    BY <1>0, <1>1, CapacityAssumption DEF PollMeasure, Saturate
  <2>2. /\ next \in Poll /\ next.slot = poll.slot
        /\ next.generation = poll.generation
    BY <1>0, <2>1 DEF Poll
  <2>3. polls' = (polls \ {poll}) \union {next}
    BY <1>1 DEF PollMeasure
  <2> HIDE DEF next
  <2> QED BY <1>0, <2>1, <2>2, <2>3
<1>2. ASSUME NEW poll \in polls, PollSend(poll)
      PROVE  /\ polls' \subseteq Poll
             /\ \A next \in polls' : \E old \in polls :
                  next.slot = old.slot /\ next.generation = old.generation
  <2> DEFINE next == [poll EXCEPT !.stage = "sent"]
  <2>1. /\ next \in Poll /\ next.slot = poll.slot
        /\ next.generation = poll.generation
    BY <1>0 DEF Poll
  <2>2. polls' = (polls \ {poll}) \union {next}
    BY <1>2 DEF PollSend
  <2> HIDE DEF next
  <2> QED BY <1>0, <2>1, <2>2
<1>3. ASSUME NEW poll \in polls, PollEnds(poll)
      PROVE  /\ polls' \subseteq polls /\ in_flight' \subseteq in_flight
             /\ UNCHANGED <<clock, llmPc, generation, slots, sample_rx>>
  BY <1>3 DEF PollEnds
<1>4. PICK poll \in polls : \/ PollMeasure(poll) \/ PollSend(poll)
                            \/ PollEnds(poll)
  BY DEF PollThreads, PollStep, PollRuns, PollDone, PollPanic
<1>5. CASE PollMeasure(poll)
  BY <1>1, <1>5 DEF PollMeasure
<1>6. CASE PollSend(poll)
  BY <1>0, <1>2, <1>6 DEF PollSend
<1>7. CASE PollEnds(poll)
  BY <1>0, <1>3, <1>7
<1> QED BY <1>4, <1>5, <1>6, <1>7

\* The sample a poll sends carries the promise of the poll.
LEMMA SamplesAfterPoll ==
  ASSUME RefinementInv, PollThreads
  PROVE  /\ sample_rx' \in Seq(LlmSample)
         /\ \A sample \in Range(sample_rx') : LlmPromise(sample)
<1>0. /\ sample_rx \in Seq(LlmSample)
      /\ \A sample \in Range(sample_rx) : LlmPromise(sample)
  BY DEF RefinementInv, LlmTypeOK, PromiseInv
<1>1. CASE UNCHANGED sample_rx
  BY <1>0, <1>1
<1>2. ASSUME NEW poll \in polls, PollSend(poll), sample_rx' # sample_rx
      PROVE  /\ sample_rx' \in Seq(LlmSample)
             /\ \A sample \in Range(sample_rx') : LlmPromise(sample)
  <2> DEFINE sent == [server |-> poll.slot.spec.key,
                      generation |-> poll.generation,
                      stats |-> [by |-> poll.slot.spec, at |-> poll.at]]
  <2>1. poll \in Poll /\ PollPromise(poll)
    BY ChainTypes DEF RefinementInv, PromiseInv
  <2>2. sent \in LlmSample
    BY <2>1 DEF Poll, Slots, LlmSample, LlmStats, Specs
  <2>3. LlmPromise(sent)
    BY <2>1 DEF PollPromise, LlmPromise
  <2>4. sample_rx' = Append(sample_rx, sent)
    BY <1>2 DEF PollSend
  <2> HIDE DEF sent
  <2>5. Range(Append(sample_rx, sent)) \subseteq Range(sample_rx) \union {sent}
    BY <1>0, <2>2, LastSent, LenProperties, QueueTypes DEF Range
  <2> QED BY <1>0, <2>2, <2>3, <2>4, <2>5, QueueTypes
<1> QED BY <1>1, <1>2 DEF PollThreads, PollStep, PollRuns, PollMeasure,
           PollDone, PollPanic, PollEnds

\* Every step of a poll thread keeps the invariant.
LEMMA RefinementAfterPoll ==
  ASSUME RefinementInv, ContractTyped', PollThreads
  PROVE  RefinementInv'
<1> USE DEF channelVars, signalVars, llmChannel, fastChannel
<1>0. UNCHANGED contractVars /\ UNCHANGED <<fastVars, processVars>>
  BY PollsImplement DEF PollThreads
<1>1. UNCHANGED <<channelVars, server_list, llm_generation, selected, mapping_generation>>
  BY <1>0 DEF contractVars, appVars, setVars
<1>2. UNCHANGED <<llmPc, generation, slots>> /\ clock' \in 0 .. MaxClock
      /\ polls' \subseteq Poll /\ in_flight' \subseteq in_flight
  BY PollsAfterStep
<1>3. IdentityInv' /\ FastTypeOK'
  BY <1>0, <1>1 DEF RefinementInv, IdentityInv, Chain, FastTypeOK, fastVars, processVars
<1>4. ThreadInv'
  BY <1>0, <1>1, <1>2 DEF RefinementInv, ThreadInv, fastVars
<1>5. CommandInv'
  BY <1>1, <1>2 DEF RefinementInv, CommandInv, Chain
<1>6. LlmTypeOK'
  BY <1>2, SamplesAfterPoll DEF RefinementInv, LlmTypeOK
<1>7. PromiseInv'
  <2>1. ASSUME NEW poll \in polls' PROVE PollPromise(poll)'
    <3>1. PICK old \in polls :
            poll.slot = old.slot /\ poll.generation = old.generation
      BY PollsAfterStep
    <3> QED BY <1>1, <3>1 DEF RefinementInv, PromiseInv, PollPromise
  <2>2. ASSUME NEW sample \in Range(sample_rx') PROVE LlmPromise(sample)'
    BY <1>1, SamplesAfterPoll DEF LlmPromise
  <2> QED BY <2>1, <2>2 DEF PromiseInv
<1> QED BY <1>3, <1>4, <1>5, <1>6, <1>7 DEF RefinementInv

\* What the fast worker reads of a process, and what it concludes from it.
LEMMA MappingTypes ==
  ASSUME FastTypeOK, server_identity # None
  PROVE  /\ server_identity \in Identities
         /\ read_process_start_time(server_identity.pid) \in (1 .. MaxStart) \union {None}
         /\ \A map \in map_server_identity(server_identity, current_start,
                                           process_at(server_identity.pid)) :
              /\ map \in GpuMappings
              /\ map.kind = "gpus" => map.of = server_identity
<1>1. server_identity \in Identities /\ server_identity.pid \in Pids
  BY DEF FastTypeOK, Sessions, Identities
<1>2. /\ start_of \in [Pids -> 1 .. MaxStart]
      /\ start_of[server_identity.pid] \in 1 .. MaxStart
  BY <1>1 DEF FastTypeOK
<1>3. read_process_start_time(server_identity.pid) \in (1 .. MaxStart) \union {None}
  BY <1>2 DEF read_process_start_time
<1>4. process_at(server_identity.pid) \in Identities \union {None}
  BY <1>1, <1>2 DEF process_at, Identities
<1>5. ASSUME NEW map \in map_server_identity(server_identity, current_start,
                                             process_at(server_identity.pid))
      PROVE  map \in GpuMappings /\ (map.kind = "gpus" => map.of = server_identity)
  <2>1. CASE map = UnknownMapping
    BY <2>1 DEF UnknownMapping, GpuMappings
  <2>2. CASE map # UnknownMapping
    <3> DEFINE found == process_at(server_identity.pid)
    <3>1. found # None /\ map = Gpus(server_identity, found)
      BY <1>5, <2>2, Zenon DEF map_server_identity
    <3>2. found \in Identities
      BY <1>4, <3>1
    <3> HIDE DEF found
    <3> QED BY <1>1, <3>1, <3>2 DEF Gpus, GpuMappings
  <2> QED BY <2>1, <2>2
<1> QED BY <1>1, <1>3, <1>5

\* A taken identity brings the worker one generation closer to the selection;
\* whatever it had mapped before is forgotten with it.
LEMMA IdentityTaken ==
  ASSUME RefinementInv, FastIdentity,
         UNCHANGED <<server_list, selected, mapping_generation>>
  PROVE  /\ IdentityInv'
         /\ server_generation' \in Nat /\ server_identity' \in Sessions
         /\ gpu_map' \in GpuMappings
<1> DEFINE sent == Head(server_identity_rx)
<1>0. IdentityInv
  BY DEF RefinementInv
<1>1. /\ server_identity_rx # <<>> /\ server_identity_rx' = Tail(server_identity_rx)
      /\ server_generation' = sent.generation
      /\ server_identity' = sent.identity
      /\ gpu_map' = NoMapping
  BY DEF FastIdentity
<1>2. sent \in IdentityMessage
  BY <1>1, ChainTypes, QueueTypes
<1>3. sent.generation \in Nat /\ sent.identity \in Sessions
  BY <1>2 DEF IdentityMessage
<1>4. /\ Chain(Tail(server_identity_rx), sent.generation, mapping_generation)
      /\ Tail(server_identity_rx) = <<>> =>
           sent = server_identity_rx[Len(server_identity_rx)]
      /\ Tail(server_identity_rx) # <<>> =>
           Tail(server_identity_rx)[Len(Tail(server_identity_rx))]
             = server_identity_rx[Len(server_identity_rx)]
  BY <1>0, <1>1, ChainTypes, ChainLemma DEF IdentityInv
<1> HIDE DEF sent
<1>5. Chain(server_identity_rx, server_generation, mapping_generation)'
  BY <1>1, <1>4 DEF Chain
<1>6. gpu_map'.kind # "gpus" /\ gpu_map' \in GpuMappings
  BY <1>1 DEF NoMapping, GpuMappings
<1> QED BY <1>0, <1>1, <1>3, <1>4, <1>5, <1>6 DEF IdentityInv

\* Every step of the fast worker keeps the invariant.
LEMMA RefinementAfterFast ==
  ASSUME RefinementInv, ContractTyped', FastThread
  PROVE  RefinementInv'
<1> USE DEF signalVars, llmChannel, fastChannel
<1>0. /\ UNCHANGED <<appVars, llmVars, processVars, llmChannel>>
      /\ UNCHANGED <<server_list, llm_generation, selected, mapping_generation>>
  BY DEF FastThread, appVars, setVars
<1>1. CommandInv' /\ LlmTypeOK' /\ PromiseInv'
  BY <1>0 DEF RefinementInv, CommandInv, Chain, LlmTypeOK, llmVars, PromiseInv,
     PollPromise, LlmPromise
<1>2. /\ llm_thread = "running" <=> llmPc \in LlmPcs
      /\ llmPc = "wait" => stop
      /\ llmPc = "forward" => "llm" \notin Quiet
      /\ UNCHANGED llmPc
  BY <1>0 DEF RefinementInv, ThreadInv, llmVars
<1>3. /\ start_of \in [Pids -> 1 .. MaxStart] /\ running \subseteq Pids
      /\ UNCHANGED <<start_of, running>>
  BY <1>0 DEF RefinementInv, FastTypeOK, processVars
<1>4. ASSUME UNCHANGED <<server_identity_rx, server_generation, server_identity, gpu_map>>
      PROVE  IdentityInv'
  BY <1>0, <1>4 DEF RefinementInv, IdentityInv, Chain
<1>5. CASE FastTop
  <2>1. ThreadInv'
    BY <1>2, <1>5 DEF FastTop, RefinementInv, ThreadInv
  <2>2. gpu_selector \in Selectors
    BY DEF RefinementInv, ContractTyped, ContractTypeOK, ChannelsTypeOK
  <2>3. FastTypeOK'
    BY <1>3, <1>5, <2>2 DEF FastTop, RefinementInv, FastTypeOK, FastPcs
  <2> QED BY <1>1, <1>4, <1>5, <2>1, <2>3 DEF RefinementInv, FastTop
<1>6. CASE FastIdentity
  <2>1. /\ IdentityInv'
        /\ server_generation' \in Nat /\ server_identity' \in Sessions
        /\ gpu_map' \in GpuMappings
    BY <1>0, <1>6, IdentityTaken
  <2>2. ThreadInv'
    BY <1>2, <1>6 DEF FastIdentity, RefinementInv, ThreadInv
  <2>3. FastTypeOK'
    BY <1>3, <1>6, <2>1 DEF FastIdentity, RefinementInv, FastTypeOK
  <2> QED BY <1>1, <2>1, <2>2, <2>3 DEF RefinementInv
<1>7. CASE FastSkip \/ FastSend \/ FastLeave \/ FastPanic
  <2>1. ThreadInv'
    BY <1>2, <1>7 DEF FastSkip, FastSend, FastLeave, FastPanic, RefinementInv, ThreadInv
  <2>2. FastTypeOK'
    BY <1>3, <1>7 DEF FastSkip, FastSend, FastLeave, FastPanic, RefinementInv,
       FastTypeOK, FastPcs
  <2>3. UNCHANGED <<server_identity_rx, server_generation, server_identity, gpu_map>>
    BY <1>7 DEF FastSkip, FastSend, FastLeave, FastPanic
  <2> QED BY <1>1, <1>4, <2>1, <2>2, <2>3 DEF RefinementInv
<1>8. CASE FastRefresh
  <2>1. ThreadInv'
    BY <1>2, <1>8 DEF FastRefresh, RefinementInv, ThreadInv
  <2>2. CASE server_identity = None
    <3>1. gpu_map' = NoMapping /\ fastPc' = "send" /\ UNCHANGED current_start
      BY <1>8, <2>2 DEF FastRefresh
    <3>2. FastTypeOK'
      BY <1>3, <1>8, <3>1 DEF FastRefresh, RefinementInv, FastTypeOK, FastPcs, GpuMappings
    <3>3. IdentityInv'
      BY <1>0, <1>8, <3>1 DEF FastRefresh, RefinementInv, IdentityInv, Chain, NoMapping
    <3> QED BY <1>1, <2>1, <3>2, <3>3 DEF RefinementInv
  <2>3. CASE server_identity # None
    <3>1. current_start' \in (1 .. MaxStart) \union {None}
      BY <1>8, <2>3, MappingTypes DEF FastRefresh, RefinementInv
    <3>2. FastTypeOK'
      BY <1>3, <1>8, <2>3, <3>1 DEF FastRefresh, RefinementInv, FastTypeOK, FastPcs
    <3>3. IdentityInv'
      BY <1>4, <1>8, <2>3 DEF FastRefresh
    <3> QED BY <1>1, <2>1, <3>2, <3>3 DEF RefinementInv
  <2> QED BY <2>2, <2>3
<1>9. CASE FastEvidence
  <2>1. ThreadInv'
    BY <1>2, <1>9 DEF FastEvidence, RefinementInv, ThreadInv
  <2>2. server_identity # None
    BY <1>9 DEF FastEvidence, RefinementInv, ThreadInv
  <2>3. gpu_map' \in GpuMappings /\ (gpu_map'.kind = "gpus" => gpu_map'.of = server_identity)
    BY <1>9, <2>2, MappingTypes DEF FastEvidence, RefinementInv
  <2>4. FastTypeOK'
    BY <1>3, <1>9, <2>3 DEF FastEvidence, RefinementInv, FastTypeOK, FastPcs
  <2>5. IdentityInv'
    BY <1>0, <1>9, <2>3 DEF FastEvidence, RefinementInv, IdentityInv, Chain
  <2> QED BY <1>1, <2>1, <2>4, <2>5 DEF RefinementInv
<1> QED BY <1>5, <1>6, <1>7, <1>8, <1>9 DEF FastThread, FastStep

\* A process that exits or starts keeps the invariant.
LEMMA RefinementAfterEnvironment ==
  ASSUME RefinementInv, ContractTyped', Environment
  PROVE  RefinementInv'
<1> USE DEF channelVars, signalVars, llmChannel, fastChannel
<1>0. UNCHANGED <<appVars, llmVars, fastVars, channelVars>>
  BY DEF Environment
<1>1. UNCHANGED <<server_list, llm_generation, selected, mapping_generation>>
  BY <1>0 DEF appVars, setVars
<1>2. start_of' \in [Pids -> 1 .. MaxStart] /\ running' \subseteq Pids
  <2>1. start_of \in [Pids -> 1 .. MaxStart] /\ running \subseteq Pids
    BY DEF RefinementInv, FastTypeOK
  <2>2. PICK pid \in Pids : ProcessExit(pid) \/ ProcessStart(pid)
    BY DEF Environment, ProcessNext
  <2> QED BY <2>1, <2>2, MaxStartAssumption DEF ProcessExit, ProcessStart
<1>3. FastTypeOK' /\ LlmTypeOK'
  BY <1>0, <1>2 DEF RefinementInv, FastTypeOK, LlmTypeOK, fastVars, llmVars
<1>4. ThreadInv'
  BY <1>0 DEF RefinementInv, ThreadInv, fastVars, llmVars
<1>5. CommandInv' /\ IdentityInv'
  BY <1>0, <1>1 DEF RefinementInv, CommandInv, IdentityInv, Chain, fastVars, llmVars
<1>6. PromiseInv'
  BY <1>0, <1>1 DEF RefinementInv, PromiseInv, PollPromise, LlmPromise, llmVars
<1> QED BY <1>3, <1>4, <1>5, <1>6 DEF RefinementInv

\* The workers start with the loop's own server set, nothing running and
\* nothing mapped; the first identity is one generation ahead of them.
LEMMA RefinementInit == Init => RefinementInv
<1> SUFFICES ASSUME Init PROVE RefinementInv
  OBVIOUS
<1>1. PICK next \in ServerLists, auto \in BOOLEAN :
        /\ \E choice \in KeysOf(next.monitored) : AppInit(next, choice, auto)
        /\ LlmInit(next.monitored)
  BY DEF Init
<1>2. ChannelsInit /\ ProcessesInit /\ FastInit
  BY DEF Init
<1>3. ContractTyped
  BY ImplementsInit, TypedInit
<1>4. /\ server_list = next.monitored
      /\ llm_generation = 0 /\ mapping_generation = 1
      /\ server_identity_rx =
           <<[generation |-> 1, identity |-> selected_identity_of(server_list, selected)]>>
  BY <1>1 DEF AppInit
<1>5. server_list \in Seq(Specs) /\ Range(server_list) \subseteq Specs
      /\ Range(server_list) \subseteq Known
  BY <1>4, ServerListTypes, ListTypes DEF Known
<1>6. \A slot \in slots : slot \in Slots /\ slot.spec \in Range(server_list)
  BY <1>1, <1>4, <1>5 DEF LlmInit, Slots
<1>7. LlmTypeOK
  BY <1>1, <1>6, CapacityAssumption DEF LlmInit, LlmTypeOK, LlmPcs
<1>8. FastTypeOK
  BY <1>2, MaxStartAssumption DEF ChannelsInit, ProcessesInit, FastInit,
     FastTypeOK, FastPcs, Sessions, GpuMappings
<1>9. ThreadInv
  BY <1>1, <1>2 DEF ChannelsInit, FastInit, LlmInit, ThreadInv, LlmPcs
<1>10. CommandInv
  <2>1. server_rx = <<>> /\ generation = 0
    BY <1>1, <1>2 DEF ChannelsInit, LlmInit
  <2> QED BY <1>4, <1>5, <1>6, <2>1 DEF CommandInv, Chain
<1>11. IdentityInv
  <2>1. server_generation = 0 /\ gpu_map.kind = "none"
    BY <1>2 DEF FastInit, NoMapping
  <2>2. /\ Len(server_identity_rx) = 1 /\ server_identity_rx # <<>>
        /\ server_identity_rx[1].generation = 1
        /\ server_identity_rx[1].identity = selected_identity_of(server_list, selected)
    BY <1>4
  <2> QED BY <1>4, <2>1, <2>2 DEF IdentityInv, Chain
<1>12. PromiseInv
  BY <1>1 DEF LlmInit, PromiseInv, Range
<1> QED BY <1>3, <1>7, <1>8, <1>9, <1>10, <1>11, <1>12 DEF RefinementInv

\* Every step of the program keeps the invariant.
LEMMA RefinementStep == RefinementInv /\ [Next]_vars => RefinementInv'
<1> SUFFICES ASSUME RefinementInv, [Next]_vars PROVE RefinementInv'
  OBVIOUS
<1>0. ContractTyped'
  BY ImplementsStep, TypedStep DEF RefinementInv
<1>1. CASE AppStep \/ AppEvent
  BY <1>0, <1>1, RefinementAfterLoop
<1>2. CASE LlmThread
  BY <1>0, <1>2, RefinementAfterLlm
<1>3. CASE PollThreads
  BY <1>0, <1>3, RefinementAfterPoll
<1>4. CASE FastThread
  BY <1>0, <1>4, RefinementAfterFast
<1>5. CASE Environment
  BY <1>0, <1>5, RefinementAfterEnvironment
<1>6. CASE UNCHANGED vars
  <2> USE <1>6 DEF vars, channelVars, signalVars, llmChannel, fastChannel,
              appVars, setVars, llmVars, fastVars, processVars
  <2>1. LlmTypeOK' /\ FastTypeOK' /\ ThreadInv'
    BY DEF RefinementInv, LlmTypeOK, FastTypeOK, ThreadInv
  <2>2. CommandInv' /\ IdentityInv' /\ PromiseInv'
    BY DEF RefinementInv, CommandInv, IdentityInv, Chain, PromiseInv,
       PollPromise, LlmPromise
  <2> QED BY <1>0, <2>1, <2>2 DEF RefinementInv
<1> QED BY <1>1, <1>2, <1>3, <1>4, <1>5, <1>6 DEF Next, Finished

\* The invariant of the refinement holds for ever.
LEMMA AlwaysRefinement == Spec => []RefinementInv
BY RefinementInit, RefinementStep, PTL DEF Spec

\* Every variable of app::run, of both workers, of the poll threads and of the
\* process table keeps its type.
THEOREM DashboardTypes == Spec => []TypeOK
<1>1. RefinementInv => TypeOK
  BY DEF RefinementInv, ContractTyped, ContractTypeOK, TypeOK
<1> QED BY <1>1, AlwaysRefinement, PTL

\* spawn_llm_worker and spawn_fast_worker keep the contract that app::run
\* relies on: what a poll measured before a set change, or GPUs resolved before
\* a new selection, always carries a generation that gives it away, however far
\* the workers lag behind the commands queued for them.
THEOREM DashboardImplementsContract == Spec => ContractSpec
<1>1. RefinementInv /\ [Next]_vars => [ContractNext]_contractVars
  BY ImplementsStep
<1> QED BY <1>1, ImplementsInit, AlwaysRefinement, PTL DEF Spec, ContractSpec

\* With the real workers, GPUs are never shown for a server that is not the
\* selected one (publish_selected_mapping, apply_fast_snapshot).
THEOREM DashboardMappingSafe == Spec => []MappingFollowsSelection
BY DashboardImplementsContract, MappingSafe, PTL

\* With the real workers, app::run returns Ok only after both have ended by
\* themselves (join_bounded).
THEOREM DashboardShutdownSafe == Spec => []OkMeansWorkersFinished
BY DashboardImplementsContract, ShutdownSafe, PTL

-----------------------------------------------------------------------------
(***************************************************************************)
(* One poll per monitor.  By itself the property is not inductive only     *)
(* because the types are needed; the rest of SlotInv is what the order of  *)
(* samples rests on below: `born` tells a replaced slot from a fresh one   *)
(* for the same server, and the polls of the worker's generation work on   *)
(* its current slots.                                                      *)
(***************************************************************************)
SlotInv ==
  /\ OnePollPerMonitor
  /\ \A slot \in slots \union in_flight : slot.born <= generation
  /\ \A a, b \in slots : a.spec = b.spec => a = b
  /\ \A poll \in polls : /\ poll.generation <= generation
                         /\ poll.generation = generation => poll.slot \in slots

\* Only a slot without a running poll gets a new one.
LEMMA SlotsAfterStart ==
  ASSUME RefinementInv, SlotInv, NEW chosen \in SUBSET Idle,
         StartPolls(chosen), UNCHANGED <<generation, slots>>
  PROVE  SlotInv'
<1> DEFINE started == {[slot |-> slot, generation |-> generation,
                        stage |-> "asked", at |-> 0] : slot \in chosen}
<1>0. /\ chosen \subseteq slots /\ \A slot \in chosen : slot \notin in_flight
      /\ in_flight = {poll.slot : poll \in polls}
      /\ generation \in Nat
  BY ChainTypes DEF Idle, SlotInv, OnePollPerMonitor
<1>1. /\ in_flight' = in_flight \union chosen
      /\ polls' = polls \union started
  BY DEF StartPolls
<1>2. \A poll \in started : poll.slot \in chosen /\ poll.generation = generation
  OBVIOUS
<1>3. \A p, q \in started : p.slot = q.slot => p = q
  OBVIOUS
<1>4. {poll.slot : poll \in started} = chosen
  <2>1. ASSUME NEW slot \in chosen PROVE \E poll \in started : poll.slot = slot
    <3> DEFINE poll == [slot |-> slot, generation |-> generation,
                        stage |-> "asked", at |-> 0]
    <3>1. poll \in started /\ poll.slot = slot
      OBVIOUS
    <3> QED BY <3>1
  <2> QED BY <1>2, <2>1
<1> HIDE DEF started
<1>5. in_flight' = {poll.slot : poll \in polls'}
  BY <1>0, <1>1, <1>4
<1>6. \A p, q \in polls' : p.slot = q.slot => p = q
  BY <1>0, <1>1, <1>2, <1>3 DEF SlotInv, OnePollPerMonitor
<1>7. \A slot \in slots' \union in_flight' : slot.born <= generation'
  BY <1>0, <1>1 DEF SlotInv
<1>8. \A poll \in polls' : /\ poll.generation <= generation'
                           /\ poll.generation = generation' => poll.slot \in slots'
  BY <1>0, <1>1, <1>2 DEF SlotInv
<1> QED BY <1>5, <1>6, <1>7, <1>8 DEF SlotInv, OnePollPerMonitor

\* A slot keeps its flag over a set change, a fresh one is told from every
\* slot before it, and no server gets two slots.
LEMMA SlotsAfterCommand ==
  ASSUME RefinementInv, SlotInv, LlmCommand
  PROVE  /\ SlotInv'
         /\ generation' = generation + 1
         /\ \A slot \in slots' \ slots : slot \notin in_flight
<1> DEFINE command == Head(server_rx)
<1>0. /\ UNCHANGED <<in_flight, polls>> /\ server_rx # <<>>
      /\ generation' = command.generation
      /\ slots' = rebuild_poll_slots(slots, command.servers, command.generation)
  BY DEF LlmCommand
<1>1. generation' = generation + 1 /\ generation \in Nat
  BY <1>0, ChainTypes, ChainLemma DEF RefinementInv, CommandInv
<1>2. command.servers \in Seq(Specs)
  <2>1. command \in Command
    BY <1>0, ChainTypes, QueueTypes
  <2> QED BY <2>1 DEF Command
<1> HIDE DEF command
<1>3. /\ slots \subseteq Slots /\ in_flight \subseteq Slots
      /\ polls \subseteq Poll
  BY DEF RefinementInv, LlmTypeOK
<1>4. \A slot \in slots' : slot \in slots \/ slot.born = generation + 1
  BY <1>0, <1>1, <1>2, <1>3, RebuiltSlots
<1>5. \A slot \in slots' \union in_flight' : slot.born <= generation'
  BY <1>0, <1>1, <1>3, <1>4 DEF SlotInv, Slots
<1>6. \A slot \in slots' \ slots : slot \notin in_flight
  BY <1>1, <1>3, <1>4 DEF SlotInv, Slots
<1>7. \A a, b \in slots' : a.spec = b.spec => a = b
  BY <1>0 DEF rebuild_poll_slots, SlotInv
<1>8. \A poll \in polls' : /\ poll.generation <= generation'
                           /\ poll.generation = generation' => poll.slot \in slots'
  BY <1>0, <1>1, <1>3 DEF SlotInv, Poll
<1> QED BY <1>0, <1>1, <1>5, <1>6, <1>7, <1>8 DEF SlotInv, OnePollPerMonitor

\* A poll that moves on keeps its slot; one that ends releases it.
LEMMA SlotsAfterPoll ==
  ASSUME RefinementInv, SlotInv, PollThreads
  PROVE  SlotInv'
<1>0. polls \subseteq Poll /\ UNCHANGED <<generation, slots>>
      /\ in_flight' \subseteq in_flight
  BY PollsAfterStep DEF RefinementInv, LlmTypeOK
<1>1. ASSUME NEW poll \in polls, NEW next, next.slot = poll.slot,
             next.generation = poll.generation,
             polls' = (polls \ {poll}) \union {next}, UNCHANGED in_flight
      PROVE  SlotInv'
  <2>1. in_flight' = {p.slot : p \in polls'}
    BY <1>1 DEF SlotInv, OnePollPerMonitor
  <2>2. \A p, q \in polls' : p.slot = q.slot => p = q
    BY <1>1 DEF SlotInv, OnePollPerMonitor
  <2> QED BY <1>0, <1>1, <2>1, <2>2 DEF SlotInv, OnePollPerMonitor
<1>2. ASSUME NEW poll \in polls, PollEnds(poll)
      PROVE  SlotInv'
  <2>1. polls' = polls \ {poll} /\ in_flight' = in_flight \ {poll.slot}
    BY <1>2 DEF PollEnds
  <2>2. in_flight' = {p.slot : p \in polls'}
    BY <2>1 DEF SlotInv, OnePollPerMonitor
  <2> QED BY <1>0, <2>1, <2>2 DEF SlotInv, OnePollPerMonitor
<1>3. ASSUME NEW poll \in polls, PollMeasure(poll)
      PROVE  SlotInv'
  <2> DEFINE next == [poll EXCEPT !.stage = "measured", !.at = clock']
  <2>1. next.slot = poll.slot /\ next.generation = poll.generation
    BY <1>0 DEF Poll
  <2>2. polls' = (polls \ {poll}) \union {next} /\ UNCHANGED in_flight
    BY <1>3 DEF PollMeasure
  <2> HIDE DEF next
  <2> QED BY <1>1, <2>1, <2>2
<1>4. ASSUME NEW poll \in polls, PollSend(poll)
      PROVE  SlotInv'
  <2> DEFINE next == [poll EXCEPT !.stage = "sent"]
  <2>1. next.slot = poll.slot /\ next.generation = poll.generation
    BY <1>0 DEF Poll
  <2>2. polls' = (polls \ {poll}) \union {next} /\ UNCHANGED in_flight
    BY <1>4 DEF PollSend
  <2> HIDE DEF next
  <2> QED BY <1>1, <2>1, <2>2
<1> QED BY <1>2, <1>3, <1>4
        DEF PollThreads, PollStep, PollRuns, PollDone, PollPanic

\* No other step touches slots, flags or polls.
LEMMA SlotStep == RefinementInv /\ SlotInv /\ [Next]_vars => SlotInv'
<1> SUFFICES ASSUME RefinementInv, SlotInv, [Next]_vars PROVE SlotInv'
  OBVIOUS
<1>1. CASE UNCHANGED <<generation, slots, in_flight, polls>>
  BY <1>1 DEF SlotInv, OnePollPerMonitor
<1>2. CASE UNCHANGED llmVars
  BY <1>1, <1>2 DEF llmVars
<1>3. CASE PollThreads
  BY <1>3, SlotsAfterPoll
<1>4. CASE LlmSpawn
  BY <1>4, SlotsAfterStart DEF LlmSpawn
<1>5. CASE LlmPanic
  <2>1. PICK started \in SUBSET Idle : StartPolls(started)
    BY <1>5 DEF LlmPanic
  <2> QED BY <1>5, <2>1, SlotsAfterStart DEF LlmPanic
<1>6. CASE LlmCommand
  BY <1>6, SlotsAfterCommand
<1>7. CASE LlmTop \/ LlmForward \/ LlmLeave \/ LlmSleep \/ LlmExit
  BY <1>1, <1>7 DEF LlmTop, LlmForward, LlmLeave, LlmSleep, LlmExit
<1>8. CASE LlmThread
  BY <1>4, <1>5, <1>6, <1>7, <1>8 DEF LlmThread, LlmStep
<1>9. CASE UNCHANGED vars
  BY <1>2, <1>9 DEF vars
<1> QED BY <1>2, <1>3, <1>8, <1>9
        DEF Next, AppStep, AppEvent, FastThread, Environment, Finished

\* Slots, flags and polls agree when the worker starts.
LEMMA SlotInit == Init => SlotInv
<1> SUFFICES ASSUME Init PROVE SlotInv
  OBVIOUS
<1>1. PICK next \in ServerLists : LlmInit(next.monitored)
  BY DEF Init
<1>2. /\ generation = 0 /\ in_flight = {} /\ polls = {}
      /\ slots = {[spec |-> spec, born |-> 0] : spec \in Range(next.monitored)}
  BY <1>1 DEF LlmInit
<1>3. \A slot \in slots : slot.born = 0
  BY <1>2
<1>4. \A a, b \in slots : a.spec = b.spec => a = b
  BY <1>2
<1>5. OnePollPerMonitor
  BY <1>2 DEF OnePollPerMonitor
<1> QED BY <1>2, <1>3, <1>4, <1>5 DEF SlotInv

\* Slots, flags and polls agree for ever.
LEMMA AlwaysSlots == Spec => []SlotInv
BY AlwaysRefinement, SlotInit, SlotStep, PTL DEF Spec

\* The compare_exchange in spawn_llm_worker and PollFlag::drop: a flag is set
\* exactly while one thread polls the slot's monitor, over every set change,
\* worker panic, poll panic and exit of the worker.
THEOREM OnePollSafe == Spec => []OnePollPerMonitor
<1>1. SlotInv => OnePollPerMonitor
  BY DEF SlotInv
<1> QED BY <1>1, AlwaysSlots, PTL

\* A slot that a new command builds shares its flag with no slot before it: the
\* LlmPollSlot::new of rebuild_poll_slots, told apart by `born`.
FreshSlotsAreIdle ==
  [][\A slot \in slots' \ slots : slot \notin in_flight]_vars

\* Whatever replaced slots are still being polled, rebuild_poll_slots adds only
\* slots whose flag is clear.
THEOREM FreshSlotsSafe == Spec => FreshSlotsAreIdle
<1> DEFINE A == \A slot \in slots' \ slots : slot \notin in_flight
<1>1. RefinementInv /\ SlotInv /\ [Next]_vars => [A]_vars
  <2> SUFFICES ASSUME RefinementInv, SlotInv, [Next]_vars PROVE A
    OBVIOUS
  <2>1. CASE UNCHANGED slots
    BY <2>1
  <2>2. CASE LlmCommand
    BY <2>2, SlotsAfterCommand
  <2>3. CASE LlmThread
    BY <2>1, <2>2, <2>3 DEF LlmThread, LlmStep, LlmTop, LlmSpawn, LlmForward,
       LlmLeave, LlmSleep, LlmExit, LlmPanic
  <2>4. CASE PollThreads
    BY <2>1, <2>4, PollsAfterStep
  <2>5. CASE UNCHANGED llmVars
    BY <2>1, <2>5 DEF llmVars
  <2>6. CASE UNCHANGED vars
    BY <2>5, <2>6 DEF vars
  <2> HIDE DEF A
  <2> QED BY <2>3, <2>4, <2>5, <2>6
          DEF Next, AppStep, AppEvent, FastThread, Environment, Finished
<1> HIDE DEF A
<1>2. Spec => [][A]_vars
  BY <1>1, AlwaysRefinement, AlwaysSlots, PTL DEF Spec
<1> QED BY <1>2 DEF FreshSlotsAreIdle, A

-----------------------------------------------------------------------------
(***************************************************************************)
(* Samples arrive in the order they were measured.  NeverOlderSample is    *)
(* about one step of the loop; its reason is that everything on the way    *)
(* from a poll thread to the registry, as far as it carries the current    *)
(* generation, is ordered by the time of its measurement, server by server. *)
(***************************************************************************)

\* Neither sample is accepted any more, or s was measured no later than t.
NotAfter(s, t) ==
  /\ s.generation = llm_generation
  /\ t.generation = llm_generation
  /\ s.server = t.server
  => s.stats.at <= t.stats.at

InOrder(queue) ==
  \A i, j \in 1 .. Len(queue) : i < j => NotAfter(queue[i], queue[j])

Underway == Range(llm_rx) \union Range(sample_rx)

\* Nothing was measured in the future.
MeasuredBefore ==
  /\ \A k \in DOMAIN registry : registry[k].at <= clock
  /\ \A sample \in Underway : sample.stats.at <= clock
  /\ \A poll \in polls : poll.at <= clock

\* A sample that can still be accepted is no older than what the registry has.
RegistryFirst ==
  \A k \in DOMAIN registry, sample \in Underway :
    sample.generation = llm_generation /\ sample.server = k =>
      registry[k].at <= sample.stats.at

\* A poll that has measured but not sent comes after everything underway.
Latest(poll) ==
  poll.stage = "measured" /\ poll.generation = llm_generation =>
    /\ \A sample \in Underway :
         sample.generation = llm_generation /\ sample.server = poll.slot.spec.key =>
           sample.stats.at <= poll.at
    /\ poll.slot.spec.key \in DOMAIN registry =>
         registry[poll.slot.spec.key].at <= poll.at

OrderInv ==
  /\ MeasuredBefore
  /\ InOrder(llm_rx)
  /\ InOrder(sample_rx)
  /\ \A s \in Range(llm_rx), t \in Range(sample_rx) : NotAfter(s, t)
  /\ RegistryFirst
  /\ \A poll \in polls : Latest(poll)

\* The types of what is ordered.
LEMMA OrderTypes ==
  ASSUME RefinementInv
  PROVE  /\ llm_rx \in Seq(LlmSample) /\ sample_rx \in Seq(LlmSample)
         /\ Underway \subseteq LlmSample
         /\ \A sample \in Underway :
              sample.generation \in Nat /\ sample.stats.at \in Nat
         /\ \A k \in DOMAIN registry : registry[k].at \in Nat
         /\ clock \in Nat /\ llm_generation \in Nat /\ generation \in Nat
         /\ polls \subseteq Poll
         /\ \A poll \in polls : poll.generation \in Nat /\ poll.at \in Nat
<1>1. /\ llm_rx \in Seq(LlmSample) /\ sample_rx \in Seq(LlmSample)
      /\ clock \in 0 .. MaxClock
      /\ \A k \in DOMAIN registry : registry[k] \in LlmStats
  BY DEF RefinementInv, LlmTypeOK, ContractTyped, ContractTypeOK,
     ChannelsTypeOK, AppTypeOK
<1>2. Range(llm_rx) \subseteq LlmSample /\ Range(sample_rx) \subseteq LlmSample
  BY <1>1, LenProperties, ElementOfSeq DEF Range
<1>3. \A sample \in LlmSample : sample.generation \in Nat /\ sample.stats.at \in Nat
  BY CapacityAssumption DEF LlmSample, LlmStats
<1>4. \A k \in DOMAIN registry : registry[k].at \in Nat
  BY <1>1, CapacityAssumption DEF LlmStats
<1>5. \A poll \in Poll : poll.generation \in Nat /\ poll.at \in Nat
  BY CapacityAssumption DEF Poll
<1> QED BY <1>1, <1>2, <1>3, <1>4, <1>5, ChainTypes, CapacityAssumption DEF Underway

\* An ordered queue stays ordered when its head is taken, and the head came
\* before the rest.
LEMMA TailInOrder ==
  ASSUME NEW S, NEW q \in Seq(S), q # <<>>, InOrder(q)
  PROVE  /\ InOrder(Tail(q))
         /\ \A s \in Range(Tail(q)) : NotAfter(Head(q), s)
<1>1. /\ Tail(q) \in Seq(S) /\ Len(Tail(q)) = Len(q) - 1
      /\ \A i \in 1 .. Len(Tail(q)) : Tail(q)[i] = q[i + 1]
      /\ Len(q) \in Nat \ {0} /\ Head(q) = q[1]
  BY HeadTailProperties, EmptySeq, LenProperties
<1>2. \A i \in 1 .. Len(Tail(q)) : i + 1 \in 1 .. Len(q) /\ 1 < i + 1
  BY <1>1
<1>3. ASSUME NEW i \in 1 .. Len(Tail(q)), NEW j \in 1 .. Len(Tail(q)), i < j
      PROVE  NotAfter(Tail(q)[i], Tail(q)[j])
  <2>1. /\ Tail(q)[i] = q[i + 1] /\ Tail(q)[j] = q[j + 1] /\ i + 1 < j + 1
        /\ i + 1 \in 1 .. Len(q) /\ j + 1 \in 1 .. Len(q)
    BY <1>1, <1>2, <1>3
  <2>2. NotAfter(q[i + 1], q[j + 1])
    BY <2>1 DEF InOrder
  <2> QED BY <2>1, <2>2
<1>4. ASSUME NEW s \in Range(Tail(q)) PROVE NotAfter(Head(q), s)
  <2>1. PICK i \in 1 .. Len(Tail(q)) : s = Tail(q)[i]
    BY <1>1, <1>4, LenProperties DEF Range
  <2>2. 1 \in 1 .. Len(q) /\ i + 1 \in 1 .. Len(q) /\ 1 < i + 1
    BY <1>1, <1>2
  <2>3. NotAfter(q[1], q[i + 1])
    BY <2>2 DEF InOrder
  <2> QED BY <1>1, <2>1, <2>3
<1> QED BY <1>3, <1>4 DEF InOrder

\* It stays ordered when something later than all of it is sent.
LEMMA AppendInOrder ==
  ASSUME NEW S, NEW q \in Seq(S), NEW v \in S, InOrder(q),
         \A s \in Range(q) : NotAfter(s, v)
  PROVE  InOrder(Append(q, v))
<1>1. /\ Len(q) \in Nat /\ DOMAIN q = 1 .. Len(q)
      /\ Len(Append(q, v)) = Len(q) + 1
      /\ \A i \in 1 .. Len(q) : Append(q, v)[i] = q[i]
      /\ Append(q, v)[Len(q) + 1] = v
  BY LenProperties
<1>2. ASSUME NEW i \in 1 .. Len(q) + 1, NEW j \in 1 .. Len(q) + 1, i < j
      PROVE  NotAfter(Append(q, v)[i], Append(q, v)[j])
  <2>0. i \in 1 .. Len(q) /\ Append(q, v)[i] = q[i]
    BY <1>1, <1>2
  <2>1. CASE j \in 1 .. Len(q)
    <3>1. NotAfter(q[i], q[j])
      BY <1>2, <2>0, <2>1 DEF InOrder
    <3> QED BY <1>1, <2>0, <2>1, <3>1
  <2>2. CASE j = Len(q) + 1
    <3>1. NotAfter(q[i], v)
      BY <1>1, <2>0 DEF Range
    <3> QED BY <1>1, <2>0, <2>2, <3>1
  <2> QED BY <1>1, <2>1, <2>2
<1> QED BY <1>1, <1>2 DEF InOrder

\* A step that neither measures, sends, forwards nor accepts.
LEMMA OrderFrame ==
  ASSUME OrderInv,
         UNCHANGED <<llm_rx, sample_rx, clock, registry, llm_generation>>,
         \A poll \in polls' :
           poll \in polls \/ (poll.stage # "measured" /\ poll.at <= clock)
  PROVE  OrderInv'
<1>1. MeasuredBefore'
  BY DEF OrderInv, MeasuredBefore, Underway
<1>2. InOrder(llm_rx)' /\ InOrder(sample_rx)'
  BY DEF OrderInv, InOrder, NotAfter
<1>3. \A s \in Range(llm_rx'), t \in Range(sample_rx') : NotAfter(s, t)'
  BY DEF OrderInv, NotAfter
<1>4. RegistryFirst'
  BY DEF OrderInv, RegistryFirst, Underway
<1>5. \A poll \in polls' : Latest(poll)'
  BY DEF OrderInv, Latest, Underway
<1> QED BY <1>1, <1>2, <1>3, <1>4, <1>5 DEF OrderInv

\* The loop takes a sample from the channel: what it accepts is no older than
\* what it replaces, and no newer than what is still underway.
LEMMA OrderAfterPump ==
  ASSUME RefinementInv, OrderInv, PumpLlmAccept \/ PumpLlmReject,
         UNCHANGED llmVars
  PROVE  /\ OrderInv'
         /\ \A k \in DOMAIN registry \intersect DOMAIN registry' :
              registry[k].at <= registry'[k].at
<1> USE DEF llmVars
<1> DEFINE next == Head(llm_rx)
<1>0. /\ llm_rx # <<>> /\ llm_rx' = Tail(llm_rx) /\ llm_rx \in Seq(LlmSample)
      /\ UNCHANGED <<sample_rx, clock, polls, llm_generation>>
  BY OrderTypes DEF PumpLlmAccept, PumpLlmReject, setVars
<1>1. /\ next \in Underway /\ next \in Range(llm_rx)
      /\ Range(llm_rx') \subseteq Range(llm_rx) /\ Underway' \subseteq Underway
  BY <1>0, QueueContents DEF Underway
<1>2. InOrder(Tail(llm_rx)) /\ \A s \in Range(Tail(llm_rx)) : NotAfter(next, s)
  BY <1>0, TailInOrder DEF OrderInv
<1>3. InOrder(llm_rx)' /\ InOrder(sample_rx)'
  BY <1>0, <1>2 DEF OrderInv, InOrder, NotAfter
<1>4. \A s \in Range(llm_rx'), t \in Range(sample_rx') : NotAfter(s, t)'
  BY <1>0, <1>1 DEF OrderInv, NotAfter
<1>5. CASE PumpLlmReject
  <2>1. UNCHANGED registry
    BY <1>5 DEF PumpLlmReject, setVars
  <2>2. MeasuredBefore' /\ RegistryFirst'
    BY <1>0, <1>1, <2>1 DEF OrderInv, MeasuredBefore, RegistryFirst
  <2>3. \A poll \in polls' : Latest(poll)'
    BY <1>0, <1>1, <2>1 DEF OrderInv, Latest
  <2>4. \A k \in DOMAIN registry \intersect DOMAIN registry' :
          registry[k].at <= registry'[k].at
    BY <2>1, OrderTypes
  <2> QED BY <1>3, <1>4, <2>2, <2>3, <2>4 DEF OrderInv
<1>6. CASE PumpLlmAccept
  <2>1. /\ next.generation = llm_generation
        /\ DOMAIN registry' = DOMAIN registry \union {next.server}
        /\ registry'[next.server] = next.stats
        /\ \A k \in DOMAIN registry : k # next.server => registry'[k] = registry[k]
    BY <1>6 DEF PumpLlmAccept, Accepted
  <2> HIDE DEF next
  <2>2. MeasuredBefore'
    BY <1>0, <1>1, <2>1 DEF OrderInv, MeasuredBefore
  <2>3. RegistryFirst'
    <3> SUFFICES ASSUME NEW k \in DOMAIN registry', NEW sample \in Underway',
                        sample.generation = llm_generation, sample.server = k
                 PROVE  registry'[k].at <= sample.stats.at
      BY <1>0 DEF RegistryFirst
    <3>1. CASE k # next.server
      BY <1>1, <2>1, <3>1 DEF OrderInv, RegistryFirst
    <3>2. CASE k = next.server
      <4>1. NotAfter(next, sample)
        BY <1>0, <1>1, <1>2 DEF Underway, OrderInv
      <4> QED BY <2>1, <3>2, <4>1 DEF NotAfter
    <3> QED BY <3>1, <3>2
  <2>4. ASSUME NEW poll \in polls' PROVE Latest(poll)'
    <3>1. Latest(poll)
      BY <1>0 DEF OrderInv
    <3> QED BY <1>0, <1>1, <2>1, <3>1 DEF Latest
  <2>5. \A k \in DOMAIN registry \intersect DOMAIN registry' :
          registry[k].at <= registry'[k].at
    BY <1>1, <2>1, OrderTypes DEF OrderInv, RegistryFirst
  <2> QED BY <1>3, <1>4, <2>2, <2>3, <2>4, <2>5 DEF OrderInv
<1> QED BY <1>5, <1>6

\* A new generation makes everything underway unacceptable; the registry only
\* loses entries.
LEMMA OrderAfterSync ==
  ASSUME RefinementInv, ContractInv, OrderInv, NEW next, sync_server_set(next),
         UNCHANGED <<llmVars, llm_rx>>
  PROVE  /\ OrderInv'
         /\ \A k \in DOMAIN registry \intersect DOMAIN registry' :
              registry[k].at <= registry'[k].at
<1> USE DEF llmVars
<1>1. CASE SyncOverflow(next)
  <2>1. UNCHANGED <<registry, llm_generation>>
    BY <1>1 DEF SyncOverflow
  <2> QED BY <2>1, OrderFrame, OrderTypes
<1>2. CASE SyncMonitored(next)
  <2>1. /\ llm_generation' = llm_generation + 1
        /\ DOMAIN registry' \subseteq DOMAIN registry
        /\ \A k \in DOMAIN registry' : registry'[k] = registry[k]
    BY <1>2 DEF SyncMonitored, Restrict
  <2>2. \A sample \in Underway : sample.generation # llm_generation'
    <3>1. \A sample \in Underway : sample.generation <= llm_generation
      BY DEF Underway, ContractInv, QueuedSamplesKeepPromise, RefinementInv,
         PromiseInv, LlmPromise
    <3> QED BY <2>1, <3>1, OrderTypes
  <2>3. \A poll \in polls : poll.generation # llm_generation'
    <3>1. \A poll \in polls : poll.generation <= llm_generation
      BY DEF RefinementInv, PromiseInv, PollPromise
    <3> QED BY <2>1, <3>1, OrderTypes
  <2>4. Underway' = Underway
    BY DEF Underway
  <2>5. MeasuredBefore' /\ RegistryFirst'
    BY <2>1, <2>2, <2>4 DEF OrderInv, MeasuredBefore, RegistryFirst
  <2>6. /\ \A i \in 1 .. Len(llm_rx) : llm_rx[i] \in Underway
        /\ \A i \in 1 .. Len(sample_rx) : sample_rx[i] \in Underway
    BY OrderTypes, LenProperties DEF Underway, Range
  <2>7. InOrder(llm_rx)' /\ InOrder(sample_rx)'
    BY <2>2, <2>6 DEF InOrder, NotAfter
  <2>8. \A s \in Range(llm_rx'), t \in Range(sample_rx') : NotAfter(s, t)'
    BY <2>2 DEF NotAfter, Underway
  <2>9. \A poll \in polls' : Latest(poll)'
    BY <2>3 DEF Latest
  <2>10. \A k \in DOMAIN registry \intersect DOMAIN registry' :
           registry[k].at <= registry'[k].at
    BY <2>1, OrderTypes
  <2> QED BY <2>5, <2>7, <2>8, <2>9, <2>10 DEF OrderInv
<1> QED BY <1>1, <1>2 DEF sync_server_set

\* A forwarded sample moves from the head of one queue to the end of the next,
\* or is dropped.
LEMMA OrderAfterForward ==
  ASSUME RefinementInv, OrderInv, LlmForward,
         UNCHANGED <<registry, llm_generation>>
  PROVE  OrderInv'
<1> DEFINE sample == Head(sample_rx)
<1>0. /\ sample_rx # <<>> /\ sample_rx' = Tail(sample_rx)
      /\ llm_rx' = try_send(llm_rx, sample, LlmCapacity)
      /\ UNCHANGED <<polls, clock>>
      /\ llm_rx \in Seq(LlmSample) /\ sample_rx \in Seq(LlmSample)
  BY OrderTypes DEF LlmForward
<1>1. /\ sample \in LlmSample /\ sample \in Range(sample_rx)
      /\ Range(sample_rx') \subseteq Range(sample_rx)
  BY <1>0, QueueContents, QueueTypes
<1>2. InOrder(Tail(sample_rx)) /\ \A t \in Range(Tail(sample_rx)) : NotAfter(sample, t)
  BY <1>0, TailInOrder DEF OrderInv
<1> HIDE DEF sample
<1>3. Range(llm_rx') \subseteq Range(llm_rx) \union {sample}
  BY <1>0, <1>1, QueueContents
<1>4. Underway' \subseteq Underway
  BY <1>1, <1>3 DEF Underway
<1>5. InOrder(try_send(llm_rx, sample, LlmCapacity))
  <2>1. InOrder(Append(llm_rx, sample))
    BY <1>0, <1>1, AppendInOrder DEF OrderInv
  <2> QED BY <2>1 DEF try_send, OrderInv
<1>6. InOrder(llm_rx)' /\ InOrder(sample_rx)'
  BY <1>0, <1>2, <1>5 DEF InOrder, NotAfter
<1>7. \A s \in Range(llm_rx'), t \in Range(sample_rx') : NotAfter(s, t)'
  BY <1>0, <1>1, <1>2, <1>3 DEF OrderInv, NotAfter
<1>8. MeasuredBefore' /\ RegistryFirst'
  BY <1>0, <1>4 DEF OrderInv, MeasuredBefore, RegistryFirst
<1>9. \A poll \in polls' : Latest(poll)'
  BY <1>0, <1>4 DEF OrderInv, Latest
<1> QED BY <1>6, <1>7, <1>8, <1>9 DEF OrderInv

\* A measurement is no older than anything measured before it.
LEMMA OrderAfterMeasure ==
  ASSUME RefinementInv, OrderInv, NEW poll \in polls, PollMeasure(poll),
         UNCHANGED <<registry, llm_generation>>
  PROVE  OrderInv'
<1> DEFINE next == [poll EXCEPT !.stage = "measured", !.at = clock']
<1>0. /\ polls' = (polls \ {poll}) \union {next}
      /\ UNCHANGED <<llm_rx, sample_rx>>
      /\ clock' = Saturate(clock, MaxClock)
  BY DEF PollMeasure, llmChannel
<1>1. clock \in Nat /\ clock' \in Nat /\ clock <= clock'
  BY <1>0, OrderTypes, CapacityAssumption DEF Saturate
<1>2. /\ next.at = clock' /\ next.slot = poll.slot
      /\ next.generation = poll.generation
  BY OrderTypes DEF Poll
<1> HIDE DEF next
<1>3. Underway' = Underway
  BY <1>0 DEF Underway
<1>4. /\ \A sample \in Underway : sample.stats.at <= clock'
      /\ \A k \in DOMAIN registry : registry[k].at <= clock'
      /\ \A p \in polls : p.at <= clock'
  BY <1>1, OrderTypes DEF OrderInv, MeasuredBefore
<1>5. MeasuredBefore'
  BY <1>0, <1>1, <1>2, <1>3, <1>4 DEF MeasuredBefore
<1>6. RegistryFirst'
  BY <1>3 DEF OrderInv, RegistryFirst
<1>7. ASSUME NEW p \in polls' PROVE Latest(p)'
  <2>1. CASE p \in polls
    BY <1>3, <2>1 DEF OrderInv, Latest
  <2>2. CASE p = next
    BY <1>2, <1>3, <1>4, <2>2 DEF Latest
  <2> QED BY <1>0, <2>1, <2>2
<1>8. InOrder(llm_rx)' /\ InOrder(sample_rx)'
  BY <1>0 DEF OrderInv, InOrder, NotAfter
<1>9. \A s \in Range(llm_rx'), t \in Range(sample_rx') : NotAfter(s, t)'
  BY <1>0 DEF OrderInv, NotAfter
<1> QED BY <1>5, <1>6, <1>7, <1>8, <1>9 DEF OrderInv

\* Two polls of the current generation never work for the same server.
LEMMA OneCurrentPoll ==
  ASSUME RefinementInv, SlotInv, UniqueKeys(server_list),
         NEW p \in polls, NEW q \in polls,
         p.generation = llm_generation, q.generation = llm_generation,
         p.slot.spec.key = q.slot.spec.key
  PROVE  p = q
<1>1. generation = llm_generation
  <2>1. generation <= llm_generation
    BY ChainTypes, LenProperties DEF RefinementInv, CommandInv, Chain
  <2>2. llm_generation <= generation
    BY DEF SlotInv
  <2> QED BY <2>1, <2>2, ChainTypes
<1>2. p.slot \in slots /\ q.slot \in slots
  BY <1>1 DEF SlotInv
<1>3. p.slot.spec \in Range(server_list) /\ q.slot.spec \in Range(server_list)
  BY DEF RefinementInv, PromiseInv, PollPromise
<1>4. p.slot.spec = q.slot.spec
  BY <1>3 DEF Range, UniqueKeys
<1>5. p.slot = q.slot
  BY <1>2, <1>4 DEF SlotInv
<1> QED BY <1>5 DEF SlotInv, OnePollPerMonitor

\* What a poll sends comes after everything of its server that is underway, and
\* no other poll of that server has measured in the meantime.
LEMMA OrderAfterSend ==
  ASSUME RefinementInv, SlotInv, UniqueKeys(server_list), OrderInv,
         NEW poll \in polls, PollSend(poll),
         UNCHANGED <<registry, llm_generation>>
  PROVE  OrderInv'
<1> DEFINE next == [poll EXCEPT !.stage = "sent"]
           sent == [server |-> poll.slot.spec.key,
                    generation |-> poll.generation,
                    stats |-> [by |-> poll.slot.spec, at |-> poll.at]]
<1>0. /\ polls' = (polls \ {poll}) \union {next}
      /\ UNCHANGED <<llm_rx, clock>>
      /\ poll.stage = "measured"
      /\ sample_rx' = sample_rx \/ sample_rx' = Append(sample_rx, sent)
  BY DEF PollSend, llmChannel
<1>1. next.stage = "sent" /\ next.at = poll.at
  BY OrderTypes DEF Poll
<1>2. sent \in LlmSample
  BY OrderTypes DEF Poll, Slots, LlmSample, LlmStats, Specs
<1>3. /\ sent.server = poll.slot.spec.key /\ sent.generation = poll.generation
      /\ sent.stats.at = poll.at
  OBVIOUS
<1> HIDE DEF next, sent
<1>4. Latest(poll) /\ poll.at <= clock
  BY DEF OrderInv, MeasuredBefore
<1>5. CASE sample_rx' = sample_rx
  BY <1>0, <1>1, <1>4, <1>5, OrderFrame
<1>6. CASE sample_rx' = Append(sample_rx, sent)
  <2>1. Range(sample_rx') \subseteq Range(sample_rx) \union {sent}
    <3>1. Append(sample_rx, sent) \in Seq(LlmSample)
      BY <1>2, OrderTypes, QueueTypes
    <3> QED BY <1>2, <1>6, <3>1, OrderTypes, LastSent, LenProperties DEF Range
  <2>2. Underway' \subseteq Underway \union {sent}
    BY <1>0, <2>1 DEF Underway
  <2>3. \A s \in Underway : NotAfter(s, sent)
    BY <1>0, <1>3, <1>4 DEF Latest, NotAfter
  <2>4. InOrder(Append(sample_rx, sent))
    BY <1>2, <2>3, OrderTypes, AppendInOrder DEF OrderInv, Underway
  <2>5. InOrder(llm_rx)' /\ InOrder(sample_rx)'
    BY <1>0, <1>6, <2>4 DEF OrderInv, InOrder, NotAfter
  <2>6. \A s \in Range(llm_rx'), t \in Range(sample_rx') : NotAfter(s, t)'
    BY <1>0, <2>1, <2>3 DEF OrderInv, NotAfter, Underway
  <2>7. MeasuredBefore'
    BY <1>0, <1>1, <1>3, <1>4, <2>2 DEF OrderInv, MeasuredBefore
  <2>8. RegistryFirst'
    BY <1>0, <1>3, <1>4, <2>2 DEF OrderInv, RegistryFirst, Latest
  <2>9. ASSUME NEW p \in polls' PROVE Latest(p)'
    <3>1. CASE p = next
      BY <1>1, <3>1 DEF Latest
    <3>2. CASE p \in polls /\ p # poll
      <4> SUFFICES ASSUME p.generation = llm_generation
                   PROVE  Latest(p)'
        BY DEF Latest
      <4>1. ~(sent.generation = llm_generation /\ sent.server = p.slot.spec.key)
        BY <1>3, <3>2, OneCurrentPoll
      <4> QED BY <2>2, <3>2, <4>1 DEF OrderInv, Latest
    <3> QED BY <1>0, <3>1, <3>2
  <2> QED BY <2>5, <2>6, <2>7, <2>8, <2>9 DEF OrderInv
<1> QED BY <1>0, <1>5, <1>6

\* No entry of the registry gives way to an older measurement.
NotOlder ==
  \A k \in DOMAIN registry \intersect DOMAIN registry' :
    registry[k].at <= registry'[k].at

\* Every step keeps the order of what is underway, and the registry current.
LEMMA OrderStep ==
  /\ RefinementInv /\ SlotInv /\ ContractInv /\ PanelInv /\ OrderInv
  /\ [Next]_vars
  => OrderInv' /\ NotOlder
<1> SUFFICES ASSUME RefinementInv, SlotInv, ContractInv, PanelInv, OrderInv,
                    [Next]_vars
             PROVE  OrderInv' /\ NotOlder
  OBVIOUS
<1> USE DEF setVars, channelVars, signalVars, llmChannel, fastChannel
<1>1. ASSUME UNCHANGED registry PROVE NotOlder
  BY <1>1, OrderTypes DEF NotOlder
<1>2. CASE UNCHANGED <<llmVars, llm_rx, registry, llm_generation>>
  BY <1>1, <1>2, OrderFrame DEF llmVars
<1>3. CASE (PumpLlmAccept \/ PumpLlmReject) /\ UNCHANGED llmVars
  BY <1>3, OrderAfterPump DEF NotOlder
<1>4. ASSUME NEW next, sync_server_set(next), UNCHANGED <<llmVars, llm_rx>>
      PROVE  OrderInv' /\ NotOlder
  BY <1>4, OrderAfterSync DEF NotOlder
<1>5. CASE AppStep
  BY <1>2, <1>3, <1>5 DEF AppStep, LoopStep, PumpFast, PumpFastEmpty,
     PumpLlmEmpty, PumpDisconnected, NoResync, NoInput, JoinLlm, JoinFast
<1>6. CASE AppEvent
  <2>1. CASE UserStep /\ UNCHANGED llmVars
    BY <1>2, <2>1 DEF UserStep, OpenSelector, ConfirmSelector, MoveHighlight,
       OpenSettings, CloseDialog, OtherInput, Quit, TerminalError
  <2> QED BY <1>4, <1>6, <2>1 DEF AppEvent, Resync, SaveSettings
<1>7. CASE LlmThread
  <2>0. UNCHANGED <<registry, llm_generation>>
    BY <1>7 DEF LlmThread, appVars
  <2>1. CASE LlmForward
    BY <1>1, <2>0, <2>1, OrderAfterForward
  <2>2. ASSUME NEW chosen, StartPolls(chosen),
               UNCHANGED <<sample_rx, clock, llm_rx>>
        PROVE  OrderInv'
    <3>1. \A poll \in polls' :
            poll \in polls \/ (poll.stage # "measured" /\ poll.at <= clock)
      BY <2>2, OrderTypes DEF StartPolls
    <3> QED BY <2>0, <2>2, <3>1, OrderFrame
  <2>3. CASE LlmSpawn \/ LlmPanic
    BY <1>1, <2>0, <2>2, <2>3 DEF LlmSpawn, LlmPanic
  <2>4. CASE LlmTop \/ LlmCommand \/ LlmLeave \/ LlmSleep \/ LlmExit
    BY <1>1, <2>0, <2>4, OrderFrame
       DEF LlmTop, LlmCommand, LlmLeave, LlmSleep, LlmExit
  <2> QED BY <1>7, <2>1, <2>3, <2>4 DEF LlmThread, LlmStep
<1>8. CASE PollThreads
  <2>0. UNCHANGED <<registry, llm_generation>> /\ UniqueKeys(server_list)
    BY <1>8 DEF PollThreads, appVars, PanelInv
  <2>1. ASSUME NEW poll \in polls, PollMeasure(poll) PROVE OrderInv'
    BY <2>0, <2>1, OrderAfterMeasure
  <2>2. ASSUME NEW poll \in polls, PollSend(poll) PROVE OrderInv'
    BY <2>0, <2>2, OrderAfterSend
  <2>3. ASSUME NEW poll \in polls, PollEnds(poll) PROVE OrderInv'
    BY <2>0, <2>3, OrderFrame DEF PollEnds
  <2> QED BY <1>1, <1>8, <2>0, <2>1, <2>2, <2>3
          DEF PollThreads, PollStep, PollRuns, PollDone, PollPanic
<1>9. CASE FastThread
  BY <1>2, <1>9 DEF FastThread, appVars
<1>10. CASE Environment
  BY <1>2, <1>10 DEF Environment, appVars
<1>11. CASE UNCHANGED vars
  BY <1>2, <1>11 DEF vars, appVars
<1> QED BY <1>5, <1>6, <1>7, <1>8, <1>9, <1>10, <1>11 DEF Next, Finished

\* Nothing is measured and nothing is underway when run starts.
LEMMA OrderInit == Init => OrderInv
<1> SUFFICES ASSUME Init PROVE OrderInv
  OBVIOUS
<1>1. llm_rx = <<>> /\ sample_rx = <<>> /\ polls = {} /\ DOMAIN registry = {}
  BY DEF Init, ChannelsInit, LlmInit, AppInit
<1>2. Range(llm_rx) = {} /\ Range(sample_rx) = {} /\ Underway = {}
  BY <1>1 DEF Range, Underway
<1>3. InOrder(llm_rx) /\ InOrder(sample_rx)
  BY <1>1 DEF InOrder
<1> QED BY <1>1, <1>2, <1>3 DEF OrderInv, MeasuredBefore, RegistryFirst

\* Poll threads that finish in any order, a worker that forwards late or drops,
\* set changes and restarts in between: pump_snapshots never replaces a sample
\* by one measured before it, because of the generation tag, the in-flight flag
\* and the order of the two channels.
THEOREM NeverOlderSafe == Spec => NeverOlderSample
<1>1. Spec => []ContractInv /\ []PanelInv
  BY DashboardImplementsContract, AlwaysInv, AlwaysPanel, PTL
<1>2. Spec => []OrderInv /\ [][NotOlder]_vars
  <2>1. /\ RefinementInv /\ SlotInv /\ ContractInv /\ PanelInv /\ OrderInv
        /\ [Next]_vars
        => OrderInv' /\ [NotOlder]_vars
    BY OrderStep
  <2> QED BY <1>1, <2>1, OrderInit, AlwaysRefinement, AlwaysSlots, PTL DEF Spec
<1> QED BY <1>2 DEF NeverOlderSample, NotOlder
==============================================================================

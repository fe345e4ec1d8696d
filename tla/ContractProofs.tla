---------------------------- MODULE ContractProofs ---------------------------
(***************************************************************************)
(* Proofs about the application loop under the workers' contract, for any  *)
(* servers, processes, selectors, capacities and generation bounds.        *)
(***************************************************************************)
EXTENDS WorkerContract, SequenceTheorems, TLAPS

-----------------------------------------------------------------------------
(***************************************************************************)
(* What the operators on lists, histories and queues return                *)
(***************************************************************************)

\* A list of specifications has keys, a display order and identities.
LEMMA ListTypes ==
  ASSUME NEW list \in Seq(Specs)
  PROVE  /\ Range(list) \subseteq Specs
         /\ KeysOf(list) \subseteq Keys
         /\ OrderOf(list) \in Seq(Keys)
         /\ \A k : selected_identity_of(list, k) \in Sessions
<1>1. DOMAIN list = 1 .. Len(list) /\ Len(list) \in Nat
      /\ \A i \in DOMAIN list : list[i] \in Specs
  BY LenProperties, ElementOfSeq
<1>2. Range(list) \subseteq Specs
  BY <1>1 DEF Range
<1>3. KeysOf(list) \subseteq Keys
  BY <1>1 DEF KeysOf, Specs
<1>4. OrderOf(list) \in Seq(Keys)
  <2>1. OrderOf(list) \in [1 .. Len(list) -> Keys]
    BY <1>1 DEF OrderOf, Specs
  <2> QED BY <2>1, <1>1, SeqDef
<1>5. ASSUME NEW k
      PROVE  selected_identity_of(list, k) \in Sessions
  <2>1. CASE k \in KeysOf(list)
    <3>1. \E spec \in Range(list) : spec.key = k
      BY <2>1 DEF KeysOf, Range
    <3>2. (CHOOSE spec \in Range(list) : spec.key = k) \in Specs
      BY <3>1, <1>2
    <3> QED BY <2>1, <3>2 DEF selected_identity_of, Specs, Sessions
  <2>2. CASE k \notin KeysOf(list)
    BY <2>2 DEF selected_identity_of, Sessions
  <2> QED BY <2>1, <2>2
<1> QED BY <1>2, <1>3, <1>4, <1>5

\* What collect_server_list returns is a non-empty list of specifications.
LEMMA ServerListTypes ==
  ASSUME NEW next \in ServerLists
  PROVE  /\ next.monitored \in Seq(Specs)
         /\ next.monitored # <<>>
         /\ next.overflow \in Seq(Specs)
BY ServerListsAssumption

\* Servers that may be monitored are specifications.
LEMMA KnownTypes == Known \subseteq Specs
BY ServerListTypes, ListTypes DEF Known

\* Each method of UiState returns LLM telemetry.
LEMMA HistoryTypes ==
  ASSUME NEW u \in UiHistories
  PROVE  /\ \A key \in Keys, choice \in Keys, session \in Sessions :
              record_llm_sample(u, key, choice, session) \in UiHistories
         /\ \A key \in Keys : select_llm_history(u, key) \in UiHistories
         /\ \A restarted : reset_llm_history(u, restarted) \in UiHistories
         /\ \A live : retain_llm_histories(u, live) \in UiHistories
<1>1. PICK S \in SUBSET Keys : u.llm_histories \in [S -> SUBSET Sessions]
  BY DEF UiHistories
<1>2. \A key : history_of(u, key) \in SUBSET Sessions
  BY <1>1 DEF history_of
<1>3. \A key \in Keys, h \in SUBSET Sessions :
        insert_history(u.llm_histories, key, h)
          \in [S \union {key} -> SUBSET Sessions]
  BY <1>1 DEF insert_history
<1>4. \A key \in Keys, h \in SUBSET Sessions :
        insert_history(u.llm_histories, key, h)
          \in UNION {[T -> SUBSET Sessions] : T \in SUBSET Keys}
  <2> TAKE key \in Keys, h \in SUBSET Sessions
  <2> DEFINE T == S \union {key}
             inserted == insert_history(u.llm_histories, key, h)
  <2>1. T \in SUBSET Keys /\ inserted \in [T -> SUBSET Sessions]
    BY <1>3
  <2> HIDE DEF T, inserted
  <2>2. inserted \in UNION {[X -> SUBSET Sessions] : X \in SUBSET Keys}
    BY <2>1
  <2> QED BY <2>2 DEF inserted
<1>5. ASSUME NEW T
      PROVE  Restrict(u.llm_histories, DOMAIN u.llm_histories \intersect T)
               \in UNION {[X -> SUBSET Sessions] : X \in SUBSET Keys}
  <2>1. Restrict(u.llm_histories, DOMAIN u.llm_histories \intersect T)
          \in [S \intersect T -> SUBSET Sessions]
    BY <1>1 DEF Restrict
  <2> QED BY <2>1
<1>6. ASSUME NEW T
      PROVE  Restrict(u.llm_histories, DOMAIN u.llm_histories \ T)
               \in UNION {[X -> SUBSET Sessions] : X \in SUBSET Keys}
  <2>1. Restrict(u.llm_histories, DOMAIN u.llm_histories \ T)
          \in [S \ T -> SUBSET Sessions]
    BY <1>1 DEF Restrict
  <2> QED BY <2>1
<1>7. ASSUME NEW key \in Keys, NEW choice \in Keys, NEW session \in Sessions
      PROVE  record_llm_sample(u, key, choice, session) \in UiHistories
  BY <1>2, <1>4 DEF record_llm_sample, UiHistories
<1>8. \A key \in Keys : select_llm_history(u, key) \in UiHistories
  BY <1>2 DEF select_llm_history, UiHistories
<1>9. \A restarted : reset_llm_history(u, restarted) \in UiHistories
  BY <1>6 DEF reset_llm_history, UiHistories
<1>10. \A live : retain_llm_histories(u, live) \in UiHistories
  BY <1>5 DEF retain_llm_histories, UiHistories
<1> QED BY <1>7, <1>8, <1>9, <1>10

\* A queue keeps its type when a value is sent or taken.
LEMMA QueueTypes ==
  ASSUME NEW S, NEW q \in Seq(S)
  PROVE  /\ \A v \in S : Append(q, v) \in Seq(S)
         /\ \A capacity : \A v \in S : try_send(q, v, capacity) \in Seq(S)
         /\ q # <<>> => Head(q) \in S /\ Tail(q) \in Seq(S)
BY HeadTailProperties DEF try_send

\* A drop counter stays within its bound.
LEMMA DropTypes ==
  ASSUME NEW q, NEW drops \in 0 .. MaxDrops, NEW capacity
  PROVE  count_drop(q, drops, capacity) \in 0 .. MaxDrops
BY CapacityAssumption DEF count_drop, Saturate

-----------------------------------------------------------------------------
(***************************************************************************)
(* Type correctness.  The list of monitored servers is never empty, or     *)
(* there would be nothing to select: that is the only strengthening.       *)
(***************************************************************************)
ContractTyped == ContractTypeOK /\ server_list # <<>>

\* What run sets up before its loop is well typed.
LEMMA TypedInit == ContractInit => ContractTyped
<1> SUFFICES ASSUME ContractInit PROVE ContractTyped
  OBVIOUS
<1>1. PICK next \in ServerLists, auto \in BOOLEAN :
        \E choice \in KeysOf(next.monitored) : AppInit(next, choice, auto)
  BY DEF ContractInit
<1>2. PICK choice \in KeysOf(next.monitored) : AppInit(next, choice, auto)
  BY <1>1
<1>3. /\ next.monitored \in Seq(Specs) /\ next.monitored # <<>>
      /\ next.overflow \in Seq(Specs)
      /\ choice \in Keys
      /\ selected_identity_of(next.monitored, choice) \in Sessions
  BY ServerListTypes, ListTypes
<1>4. <<[generation |-> 1, identity |-> selected_identity_of(next.monitored, choice)]>>
        \in Seq([generation : Nat, identity : Sessions])
  BY <1>3
<1>5. ChannelsTypeOK
  <2>1. server_identity_rx \in Seq([generation : Nat, identity : Sessions])
    BY <1>2, <1>4 DEF AppInit
  <2>2. \A S : <<>> \in Seq(S)
    BY EmptySeq
  <2>3. stop \in BOOLEAN /\ receiving \in BOOLEAN
    BY Zenon DEF ContractInit, ChannelsInit
  <2>4. /\ llm_thread \in ThreadStates /\ fast_thread \in ThreadStates
        /\ llm_drops \in 0 .. MaxDrops /\ fast_drops \in 0 .. MaxDrops
        /\ gpu_selector \in Selectors
    BY CapacityAssumption DEF ContractInit, ChannelsInit, ThreadStates
  <2> QED BY <2>1, <2>2, <2>3, <2>4 DEF ContractInit, ChannelsInit, ChannelsTypeOK
<1>6. snapshot \in DashboardSnapshot
  BY <1>2 DEF AppInit, DashboardSnapshot, GpuMappings
<1>7. ui \in UiHistories
  <2>1. [k \in {} |-> {}] \in [{} -> SUBSET Sessions]
    OBVIOUS
  <2> QED BY <1>2, <2>1 DEF AppInit, UiHistories, HistoriesInit
<1>8. DOMAIN registry \subseteq Keys /\ \A k \in DOMAIN registry : registry[k] \in LlmStats
  BY <1>2 DEF AppInit
<1>9. /\ auto_discovery \in BOOLEAN /\ highlight_moved \in BOOLEAN
      /\ dirty \in BOOLEAN /\ unpainted \in BOOLEAN
  BY <1>2, Zenon DEF AppInit
<1>10. AppTypeOK
  BY <1>2, <1>3, <1>6, <1>7, <1>8, <1>9, GenerationAssumption
     DEF AppInit, AppTypeOK, AppPcs
<1> QED BY <1>2, <1>3, <1>5, <1>10 DEF AppInit, ContractTyped, ContractTypeOK

\* The drains and the steps that need no server list.
LEMMA TypedLoopStep ==
  ASSUME ContractTyped, LoopStep
  PROVE  ContractTyped'
<1> USE DEF ContractTyped, ContractTypeOK, setVars, inputVars, paintVars,
            endVars, signalVars, llmChannel, fastChannel, channelVars
<1>1. CASE PumpFast
  <2>1. Head(fast_rx) \in FastSnapshot /\ Tail(fast_rx) \in Seq(FastSnapshot)
    BY <1>1, QueueTypes DEF PumpFast, ChannelsTypeOK
  <2>2. snapshot' \in DashboardSnapshot
    BY <1>1, <2>1 DEF PumpFast, AppTypeOK, DashboardSnapshot, FastSnapshot
  <2>3. ChannelsTypeOK'
    BY <1>1, <2>1 DEF PumpFast, ChannelsTypeOK
  <2>4. AppTypeOK'
    BY <1>1, <2>2 DEF PumpFast, Repaint, AppTypeOK
  <2> QED BY <1>1, <2>3, <2>4 DEF PumpFast
<1>2. CASE PumpFastEmpty
  BY <1>2 DEF PumpFastEmpty, ChannelsTypeOK, AppTypeOK, AppPcs
<1>3. CASE PumpLlmAccept
  <2>1. Head(llm_rx) \in LlmSample /\ Tail(llm_rx) \in Seq(LlmSample)
    BY <1>3, QueueTypes DEF PumpLlmAccept, ChannelsTypeOK
  <2>2. /\ Head(llm_rx).server \in Keys
        /\ Head(llm_rx).stats \in LlmStats
        /\ Head(llm_rx).stats.by.identity \in Sessions
    BY <2>1 DEF LlmSample, LlmStats, Specs, Sessions
  <2>3. ui' \in UiHistories
    BY <1>3, <2>2, HistoryTypes DEF PumpLlmAccept, AppTypeOK
  <2>4. snapshot' \in DashboardSnapshot
    BY <1>3, <2>2 DEF PumpLlmAccept, AppTypeOK, DashboardSnapshot
  <2>5. /\ DOMAIN registry' \subseteq Keys
        /\ \A k \in DOMAIN registry' : registry'[k] \in LlmStats
    BY <1>3, <2>2 DEF PumpLlmAccept, AppTypeOK
  <2>6. ChannelsTypeOK'
    BY <1>3, <2>1 DEF PumpLlmAccept, ChannelsTypeOK
  <2>7. AppTypeOK'
    BY <1>3, <2>3, <2>4, <2>5 DEF PumpLlmAccept, Repaint, AppTypeOK
  <2> QED BY <1>3, <2>6, <2>7 DEF PumpLlmAccept
<1>4. CASE PumpLlmReject
  <2>1. Tail(llm_rx) \in Seq(LlmSample)
    BY <1>4, QueueTypes DEF PumpLlmReject, ChannelsTypeOK
  <2> QED BY <1>4, <2>1 DEF PumpLlmReject, ChannelsTypeOK, AppTypeOK
<1>5. CASE PumpLlmEmpty
  <2>1. OrderOf(server_list) \in Seq(Keys)
    BY ListTypes DEF AppTypeOK
  <2>2. snapshot' \in DashboardSnapshot
    BY <1>5, <2>1 DEF PumpLlmEmpty, AppTypeOK, DashboardSnapshot
  <2>3. AppTypeOK'
    BY <1>5, <2>2 DEF PumpLlmEmpty, AppTypeOK, AppPcs
  <2> QED BY <1>5, <2>3 DEF PumpLlmEmpty, ChannelsTypeOK
<1>6. CASE PumpDisconnected
  BY <1>6 DEF PumpDisconnected, Return, ChannelsTypeOK, AppTypeOK, AppPcs
<1>7. CASE NoResync
  BY <1>7 DEF NoResync, ChannelsTypeOK, AppTypeOK, AppPcs
<1>8. CASE NoInput
  BY <1>8 DEF NoInput, ChannelsTypeOK, AppTypeOK, AppPcs
<1>9. CASE JoinLlm
  BY <1>9 DEF JoinLlm, join_bounded, ChannelsTypeOK, AppTypeOK, AppPcs
<1>10. CASE JoinFast
  BY <1>10 DEF JoinFast, Return, join_bounded, ChannelsTypeOK, AppTypeOK, AppPcs
<1> QED BY <1>1, <1>2, <1>3, <1>4, <1>5, <1>6, <1>7, <1>8, <1>9, <1>10
        DEF LoopStep

\* The state that sync_server_set and a confirmed selection assign.
SyncTyped ==
  /\ server_list \in Seq(Specs) /\ server_list # <<>>
  /\ overflow \in Seq(Specs)
  /\ selected \in Keys
  /\ DOMAIN registry \subseteq Keys
  /\ \A k \in DOMAIN registry : registry[k] \in LlmStats
  /\ llm_generation \in 0 .. MaxGeneration
  /\ mapping_generation \in 1 .. MaxMappingGeneration
  /\ snapshot \in DashboardSnapshot
  /\ ui \in UiHistories
  /\ server_rx \in Seq(Command)
  /\ server_identity_rx \in Seq([generation : Nat, identity : Sessions])

\* publish_selected_mapping keeps the mapping channel and generation typed.
LEMMA TypedPublish ==
  ASSUME ContractTyped, NEW list \in Seq(Specs), NEW key,
         publish_selected_mapping(list, key)
  PROVE  /\ mapping_generation' \in 1 .. MaxMappingGeneration
         /\ server_identity_rx' \in Seq([generation : Nat, identity : Sessions])
<1>1. mapping_generation' \in 1 .. MaxMappingGeneration
  BY GenerationAssumption
     DEF publish_selected_mapping, ContractTyped, ContractTypeOK, AppTypeOK
<1>2. [generation |-> mapping_generation + 1,
       identity |-> selected_identity_of(list, key)]
        \in [generation : Nat, identity : Sessions]
  BY ListTypes, GenerationAssumption DEF ContractTyped, ContractTypeOK, AppTypeOK
<1>3. server_identity_rx' \in Seq([generation : Nat, identity : Sessions])
  BY <1>2, QueueTypes
     DEF publish_selected_mapping, ContractTyped, ContractTypeOK, ChannelsTypeOK
<1> QED BY <1>1, <1>3

\* sync_server_set keeps everything it assigns typed, on both of its paths.
LEMMA TypedSync ==
  ASSUME ContractTyped, NEW next \in ServerLists, sync_server_set(next)
  PROVE  SyncTyped'
<1>0. /\ next.monitored \in Seq(Specs) /\ next.monitored # <<>>
      /\ next.overflow \in Seq(Specs)
  BY ServerListTypes
<1>1. CASE SyncOverflow(next)
  BY <1>0, <1>1 DEF SyncOverflow, SyncTyped, ContractTyped, ContractTypeOK,
                    ChannelsTypeOK, AppTypeOK
<1>2. CASE SyncMonitored(next)
  <2> DEFINE list == next.monitored
             live == KeysOf(list)
             kept == Restrict(registry, DOMAIN registry \intersect live)
             gone == selected \notin live
             choice == IF gone THEN Head(list).key ELSE selected
             retained == retain_llm_histories(
               reset_llm_history(ui, changed_identity_keys(server_list, list)),
               live)
  <2>1. /\ server_list' = list /\ overflow' = next.overflow
        /\ registry' = kept /\ selected' = choice
        /\ llm_generation < MaxGeneration
        /\ llm_generation' = llm_generation + 1
        /\ server_rx' = Append(server_rx, [generation |-> llm_generation + 1,
                                           servers |-> list])
        /\ ui' = IF gone THEN select_llm_history(retained, choice) ELSE retained
        /\ publish_selected_mapping(list, choice)
        /\ snapshot' = [snapshot EXCEPT
                          !.llm = IF gone THEN sample_of(kept, choice) ELSE @,
                          !.gpu_map = NoMapping]
    BY <1>2 DEF SyncMonitored
  <2>2. choice \in Keys
    <3>1. Head(list) \in Specs
      BY <1>0, HeadTailProperties
    <3>2. Head(list).key \in Keys /\ selected \in Keys
      BY <3>1 DEF Specs, ContractTyped, ContractTypeOK, AppTypeOK
    <3> QED BY <3>2
  <2>3. /\ DOMAIN kept \subseteq Keys
        /\ \A k \in DOMAIN kept : kept[k] \in LlmStats
    BY DEF Restrict, ContractTyped, ContractTypeOK, AppTypeOK
  <2>4. sample_of(kept, choice) \in LlmStats \union {None}
    BY <2>3 DEF sample_of
  <2>5. snapshot' \in DashboardSnapshot
    <3> DEFINE shown == IF gone THEN sample_of(kept, choice) ELSE snapshot.llm
    <3>1. snapshot \in DashboardSnapshot
      BY DEF ContractTyped, ContractTypeOK, AppTypeOK
    <3>2. shown \in LlmStats \union {None}
      BY <2>4, <3>1 DEF DashboardSnapshot
    <3>3. snapshot' = [snapshot EXCEPT !.llm = shown, !.gpu_map = NoMapping]
      BY <2>1, <3>1 DEF DashboardSnapshot
    <3>4. NoMapping \in GpuMappings
      BY DEF GpuMappings
    <3> HIDE DEF shown
    <3> QED BY <3>1, <3>2, <3>3, <3>4 DEF DashboardSnapshot
  <2>6. retained \in UiHistories
    BY HistoryTypes DEF ContractTyped, ContractTypeOK, AppTypeOK
  <2>7. ui' \in UiHistories
    <3> HIDE DEF retained, choice, gone
    <3> QED BY <2>1, <2>2, <2>6, HistoryTypes
  <2>8. llm_generation' \in 0 .. MaxGeneration
    BY <2>1, GenerationAssumption DEF ContractTyped, ContractTypeOK, AppTypeOK
  <2>9. server_rx' \in Seq(Command)
    <3>1. [generation |-> llm_generation + 1, servers |-> list] \in Command
      BY <1>0, GenerationAssumption
         DEF Command, ContractTyped, ContractTypeOK, AppTypeOK
    <3> QED BY <2>1, <3>1, QueueTypes
            DEF ContractTyped, ContractTypeOK, ChannelsTypeOK
  <2>10. /\ mapping_generation' \in 1 .. MaxMappingGeneration
         /\ server_identity_rx' \in Seq([generation : Nat, identity : Sessions])
    <3> HIDE DEF choice
    <3> QED BY <1>0, <2>1, TypedPublish
  <2> HIDE DEF list, kept, choice
  <2>11. SyncTyped'
    BY <1>0, <2>1, <2>2, <2>3, <2>5, <2>7, <2>8, <2>9, <2>10 DEF SyncTyped, list
  <2> QED BY <2>11
<1> QED BY <1>1, <1>2 DEF sync_server_set

\* The periodic resync keeps the types.
LEMMA TypedResync ==
  ASSUME ContractTyped, NEW next \in ServerLists, Resync(next)
  PROVE  ContractTyped'
<1>1. SyncTyped'
  BY TypedSync DEF Resync
<1>2. dirty' \in BOOLEAN /\ unpainted' \in BOOLEAN
  BY Zenon DEF Resync, Repaint
<1>3. ChannelsTypeOK'
  BY <1>1 DEF Resync, signalVars, SyncTyped, ContractTyped, ContractTypeOK,
              ChannelsTypeOK
<1>4. AppTypeOK'
  BY <1>1, <1>2 DEF Resync, inputVars, endVars, SyncTyped, ContractTyped,
                    ContractTypeOK, AppTypeOK, AppPcs
<1> QED BY <1>1, <1>3, <1>4 DEF SyncTyped, ContractTyped, ContractTypeOK

\* Adopting saved settings keeps the types.
LEMMA TypedSave ==
  ASSUME ContractTyped, NEW next \in ServerLists, NEW auto \in BOOLEAN,
         NEW selector \in Selectors, SaveSettings(next, auto, selector)
  PROVE  ContractTyped'
<1>1. SyncTyped'
  BY TypedSync DEF SaveSettings
<1>2. /\ dirty' \in BOOLEAN /\ unpainted' \in BOOLEAN
      /\ auto_discovery' \in BOOLEAN
  BY Zenon DEF SaveSettings, Input
<1>3. ChannelsTypeOK'
  BY <1>1 DEF SaveSettings, signalVars, SyncTyped, ContractTyped,
              ContractTypeOK, ChannelsTypeOK
<1>4. AppTypeOK'
  BY <1>1, <1>2 DEF SaveSettings, Input, endVars, SyncTyped, ContractTyped,
                    ContractTypeOK, AppTypeOK, AppPcs
<1> QED BY <1>1, <1>3, <1>4 DEF SyncTyped, ContractTyped, ContractTypeOK

\* The highlighted row exists.
LEMMA HighlightInList ==
  ASSUME ContractTyped
  PROVE  /\ Len(server_list) \in Nat \ {0}
         /\ server_selector_index + 1 \in 1 .. Len(server_list)
         /\ server_selector_index \in Nat
         /\ server_list[server_selector_index + 1].key \in Keys
<1>1. /\ server_list \in Seq(Specs) /\ server_list # <<>>
      /\ selector_index \in Nat
  BY DEF ContractTyped, ContractTypeOK, AppTypeOK
<1>2. Len(server_list) \in Nat \ {0}
  BY <1>1, EmptySeq
<1>3. /\ server_selector_index + 1 \in 1 .. Len(server_list)
      /\ server_selector_index \in Nat
  BY <1>1, <1>2 DEF server_selector_index
<1>4. server_list[server_selector_index + 1] \in Specs
  BY <1>1, <1>3, ElementOfSeq
<1> QED BY <1>2, <1>3, <1>4 DEF Specs

\* A key of the user, or a failing terminal, keeps the types.
LEMMA TypedUserStep ==
  ASSUME ContractTyped, UserStep
  PROVE  ContractTyped'
<1> USE DEF ContractTyped, ContractTypeOK, setVars, inputVars, paintVars,
            endVars, signalVars, llmChannel, fastChannel, channelVars
<1>0. ASSUME NEW changed \in BOOLEAN, Input(changed)
      PROVE  dirty' \in BOOLEAN /\ unpainted' \in BOOLEAN
  BY <1>0, Zenon DEF Input
<1>1. CASE OpenSelector
  <2>1. selector_index' \in Nat
    <3>1. DOMAIN server_list = 1 .. Len(server_list) /\ Len(server_list) \in Nat
      BY LenProperties DEF AppTypeOK
    <3>2. position(server_list, selected) \in Nat
      <4>1. CASE selected \in KeysOf(server_list)
        <5>1. \E i \in DOMAIN server_list : server_list[i].key = selected
          BY <4>1 DEF KeysOf
        <5>2. (CHOOSE i \in DOMAIN server_list : server_list[i].key = selected)
                \in 1 .. Len(server_list)
          BY <5>1, <3>1
        <5> QED BY <4>1, <5>2, <3>1 DEF position
      <4>2. CASE selected \notin KeysOf(server_list)
        BY <4>2 DEF position
      <4> QED BY <4>1, <4>2
    <3> QED BY <1>1, <3>2 DEF OpenSelector
  <2>2. highlight_moved' \in BOOLEAN
    BY <1>1, Zenon DEF OpenSelector
  <2>3. dirty' \in BOOLEAN /\ unpainted' \in BOOLEAN
    BY <1>0, <1>1 DEF OpenSelector
  <2> QED BY <1>1, <2>1, <2>2, <2>3
          DEF OpenSelector, Input, ChannelsTypeOK, AppTypeOK, AppPcs
<1>2. CASE ConfirmSelector
  <2>1. server_list[server_selector_index + 1].key \in Keys
    BY HighlightInList
  <2>2. ui' \in UiHistories
    BY <1>2, <2>1, HistoryTypes DEF ConfirmSelector, AppTypeOK
  <2>3. sample_of(registry, selected') \in LlmStats \union {None}
    BY DEF sample_of, AppTypeOK
  <2>4. NoMapping \in GpuMappings
    BY DEF GpuMappings
  <2>5. snapshot' \in DashboardSnapshot
    BY <1>2, <2>3, <2>4 DEF ConfirmSelector, AppTypeOK, DashboardSnapshot
  <2>6. /\ mapping_generation' \in 1 .. MaxMappingGeneration
        /\ server_identity_rx' \in Seq([generation : Nat, identity : Sessions])
    BY <1>2, TypedPublish DEF ConfirmSelector, AppTypeOK
  <2>7. dirty' \in BOOLEAN /\ unpainted' \in BOOLEAN
    BY <1>0, <1>2 DEF ConfirmSelector
  <2>8. ChannelsTypeOK'
    BY <1>2, <2>6 DEF ConfirmSelector, ChannelsTypeOK
  <2>9. AppTypeOK'
    BY <1>2, <2>1, <2>2, <2>5, <2>6, <2>7
       DEF ConfirmSelector, Input, AppTypeOK, AppPcs
  <2> QED BY <1>2, <2>8, <2>9 DEF ConfirmSelector
<1>3. ASSUME NEW delta \in {-1, 1}, MoveHighlight(delta)
      PROVE  ContractTyped'
  <2>1. selector_index' \in Nat
    BY <1>3, HighlightInList DEF MoveHighlight
  <2>2. highlight_moved' \in BOOLEAN
    BY <1>3, Zenon DEF MoveHighlight
  <2>3. dirty' \in BOOLEAN /\ unpainted' \in BOOLEAN
    BY <1>0, <1>3 DEF MoveHighlight
  <2> QED BY <1>3, <2>1, <2>2, <2>3
          DEF MoveHighlight, Input, ChannelsTypeOK, AppTypeOK, AppPcs
<1>4. CASE OpenSettings
  <2>1. dirty' \in BOOLEAN /\ unpainted' \in BOOLEAN
    BY <1>0, <1>4 DEF OpenSettings
  <2> QED BY <1>4, <2>1
          DEF OpenSettings, Input, ChannelsTypeOK, AppTypeOK, AppPcs
<1>5. CASE CloseDialog
  <2>1. dirty' \in BOOLEAN /\ unpainted' \in BOOLEAN
    BY <1>0, <1>5 DEF CloseDialog
  <2> QED BY <1>5, <2>1
          DEF CloseDialog, Input, ChannelsTypeOK, AppTypeOK, AppPcs
<1>6. CASE OtherInput
  <2>1. dirty' \in BOOLEAN /\ unpainted' \in BOOLEAN
    BY <1>0, <1>6 DEF OtherInput
  <2> QED BY <1>6, <2>1
          DEF OtherInput, Input, ChannelsTypeOK, AppTypeOK, AppPcs
<1>7. CASE Quit
  <2>1. stop' \in BOOLEAN /\ dirty' \in BOOLEAN
    BY <1>7, Zenon DEF Quit
  <2> QED BY <1>7, <2>1 DEF Quit, ChannelsTypeOK, AppTypeOK, AppPcs
<1>8. CASE TerminalError
  <2>1. receiving' \in BOOLEAN
    BY <1>8, Zenon DEF TerminalError, Return
  <2> QED BY <1>8, <2>1 DEF TerminalError, Return, ChannelsTypeOK, AppTypeOK, AppPcs
<1> QED BY <1>1, <1>2, <1>3, <1>4, <1>5, <1>6, <1>7, <1>8 DEF UserStep

\* What a worker sends, takes or ends with keeps the types.
LEMMA TypedWorkers ==
  ASSUME ContractTyped, Workers \/ TakeCommand \/ TakeIdentity,
         UNCHANGED appVars
  PROVE  ContractTyped'
<1> USE DEF ContractTyped, ContractTypeOK, signalVars, llmChannel, fastChannel
<1>1. AppTypeOK' /\ server_list' # <<>>
  BY DEF appVars, setVars, inputVars, paintVars, endVars, AppTypeOK
<1>2. ASSUME NEW g \in 0 .. llm_generation, NEW by \in Known,
             NEW at \in 0 .. MaxClock,
             FeedLlm([server |-> by.key, generation |-> g,
                      stats |-> [by |-> by, at |-> at]])
      PROVE  ChannelsTypeOK'
  <2>1. [server |-> by.key, generation |-> g, stats |-> [by |-> by, at |-> at]]
          \in LlmSample
    BY KnownTypes DEF LlmSample, LlmStats, Specs, AppTypeOK
  <2>2. llm_rx' \in Seq(LlmSample) /\ llm_drops' \in 0 .. MaxDrops
    BY <1>2, <2>1, QueueTypes, DropTypes DEF FeedLlm, ChannelsTypeOK
  <2> QED BY <1>2, <2>2 DEF FeedLlm, ChannelsTypeOK
<1>3. ASSUME NEW g \in 0 .. mapping_generation, NEW map \in GpuMappings,
             NEW gpu \in Selectors,
             FeedFast([gpu |-> gpu, gpu_map |-> map, mapping_generation |-> g])
      PROVE  ChannelsTypeOK'
  <2>1. [gpu |-> gpu, gpu_map |-> map, mapping_generation |-> g] \in FastSnapshot
    BY DEF FastSnapshot, AppTypeOK
  <2>2. fast_rx' \in Seq(FastSnapshot) /\ fast_drops' \in 0 .. MaxDrops
    BY <1>3, <2>1, QueueTypes, DropTypes DEF FeedFast, ChannelsTypeOK
  <2> QED BY <1>3, <2>2 DEF FeedFast, ChannelsTypeOK
<1>4. ASSUME NEW how \in {"finished", "panicked"}, WorkerEnds(how)
      PROVE  ChannelsTypeOK'
  BY <1>4 DEF WorkerEnds, ChannelsTypeOK, ThreadStates
<1>5. CASE TakeCommand
  <2>1. Tail(server_rx) \in Seq(Command)
    BY <1>5, QueueTypes DEF TakeCommand, ChannelsTypeOK
  <2> QED BY <1>1, <1>5, <2>1 DEF TakeCommand, ChannelsTypeOK
<1>6. CASE TakeIdentity
  <2>1. Tail(server_identity_rx) \in Seq([generation : Nat, identity : Sessions])
    BY <1>6, QueueTypes DEF TakeIdentity, ChannelsTypeOK
  <2> QED BY <1>1, <1>6, <2>1 DEF TakeIdentity, ChannelsTypeOK
<1> QED BY <1>1, <1>2, <1>3, <1>4, <1>5, <1>6 DEF Workers

\* Every step of the loop or of its workers keeps the types.
LEMMA TypedStep ==
  ContractTyped /\ [ContractNext]_contractVars => ContractTyped'
<1> SUFFICES ASSUME ContractTyped, [ContractNext]_contractVars
             PROVE  ContractTyped'
  OBVIOUS
<1>1. CASE LoopStep
  BY <1>1, TypedLoopStep
<1>2. CASE UserStep
  BY <1>2, TypedUserStep
<1>3. CASE ContractResync
  BY <1>3, TypedResync DEF ContractResync
<1>4. CASE ContractSave
  BY <1>4, TypedSave DEF ContractSave
<1>5. CASE (Workers \/ TakeCommand \/ TakeIdentity) /\ UNCHANGED appVars
  BY <1>5, TypedWorkers
<1>6. CASE UNCHANGED contractVars
  BY <1>6 DEF contractVars, channelVars, signalVars, llmChannel, fastChannel,
     appVars, setVars, inputVars, paintVars, endVars, ContractTyped,
     ContractTypeOK, ChannelsTypeOK, AppTypeOK
<1> QED BY <1>1, <1>2, <1>3, <1>4, <1>5, <1>6 DEF ContractNext

\* The types, and the non-empty server list, hold for ever.
LEMMA AlwaysTyped == ContractSpec => []ContractTyped
BY TypedInit, TypedStep, PTL DEF ContractSpec

\* Every variable of the application loop and of its channels keeps its type,
\* whatever workers that keep the contract of app::run's channels do.
THEOREM ContractTypes == ContractSpec => []ContractTypeOK
<1>1. ContractTyped => ContractTypeOK
  BY DEF ContractTyped
<1> QED BY <1>1, AlwaysTyped, PTL

-----------------------------------------------------------------------------
(***************************************************************************)
(* Generations.  MappingFollowsSelection and AcceptedFromCurrentSet are    *)
(* not inductive: they depend on what is still queued.  The strengthening  *)
(* is that everything queued keeps the promise it was sent under, although *)
(* the generations, the server set and the selection move on while it      *)
(* waits.                                                                  *)
(***************************************************************************)
QueuedSamplesKeepPromise == \A sample \in Range(llm_rx) : LlmPromise(sample)

QueuedSnapshotsKeepPromise == \A next \in Range(fast_rx) : FastPromise(next)

ContractInv ==
  /\ ContractTyped
  /\ QueuedSamplesKeepPromise
  /\ QueuedSnapshotsKeepPromise
  /\ MappingFollowsSelection

\* What a queue holds after a send or a receive was there before or was sent.
LEMMA QueueContents ==
  ASSUME NEW S, NEW q \in Seq(S)
  PROVE  /\ \A capacity : \A v \in S :
              Range(try_send(q, v, capacity)) \subseteq Range(q) \union {v}
         /\ q # <<>> => Head(q) \in Range(q) /\ Range(Tail(q)) \subseteq Range(q)
<1>1. DOMAIN q = 1 .. Len(q) /\ Len(q) \in Nat
  BY LenProperties
<1>2. ASSUME NEW v \in S, NEW capacity
      PROVE  Range(try_send(q, v, capacity)) \subseteq Range(q) \union {v}
  <2>1. CASE try_send(q, v, capacity) = q
    BY <2>1
  <2>2. CASE try_send(q, v, capacity) = Append(q, v)
    <3>1. /\ DOMAIN Append(q, v) = 1 .. Len(q) + 1
          /\ \A i \in 1 .. Len(q) + 1 :
               Append(q, v)[i] = IF i = Len(q) + 1 THEN v ELSE q[i]
      BY <1>1
    <3>2. \A i \in DOMAIN Append(q, v) : Append(q, v)[i] \in Range(q) \union {v}
      BY <1>1, <3>1 DEF Range
    <3> QED BY <2>2, <3>2 DEF Range
  <2> QED BY <2>1, <2>2 DEF try_send
<1>3. ASSUME q # <<>>
      PROVE  Head(q) \in Range(q) /\ Range(Tail(q)) \subseteq Range(q)
  <2>1. Len(q) \in Nat \ {0}
    BY <1>3, EmptySeq
  <2>2. Head(q) \in Range(q)
    BY <1>1, <2>1 DEF Range
  <2>3. /\ Tail(q) \in Seq(S) /\ Len(Tail(q)) = Len(q) - 1
        /\ \A i \in 1 .. Len(Tail(q)) : Tail(q)[i] = q[i + 1]
    BY <1>3, HeadTailProperties
  <2>4. DOMAIN Tail(q) = 1 .. Len(q) - 1
    BY <2>3, LenProperties
  <2>5. \A i \in DOMAIN Tail(q) : Tail(q)[i] \in Range(q)
    BY <1>1, <2>1, <2>3, <2>4 DEF Range
  <2> QED BY <2>2, <2>5 DEF Range
<1> QED BY <1>2, <1>3

\* Queued values have the type of their queue.
LEMMA QueuedTypes ==
  ASSUME ContractTyped
  PROVE  /\ \A sample \in Range(llm_rx) : sample \in LlmSample
         /\ \A next \in Range(fast_rx) : next \in FastSnapshot
BY LenProperties, ElementOfSeq
   DEF Range, ContractTyped, ContractTypeOK, ChannelsTypeOK

\* A step that leaves the server set, the selection and the mapping alone.
LEMMA PromisesFrame ==
  ASSUME ContractInv, ContractTyped',
         UNCHANGED <<server_list, selected, llm_generation, mapping_generation>>,
         snapshot'.gpu_map = snapshot.gpu_map,
         \A sample \in Range(llm_rx') : sample \in Range(llm_rx) \/ LlmPromise(sample),
         \A next \in Range(fast_rx') : next \in Range(fast_rx) \/ FastPromise(next)
  PROVE  ContractInv'
<1>1. \A sample : LlmPromise(sample) => LlmPromise(sample)'
  BY DEF LlmPromise
<1>2. \A next : FastPromise(next) => FastPromise(next)'
  BY DEF FastPromise
<1>3. QueuedSamplesKeepPromise'
  BY <1>1 DEF ContractInv, QueuedSamplesKeepPromise
<1>4. QueuedSnapshotsKeepPromise'
  BY <1>2 DEF ContractInv, QueuedSnapshotsKeepPromise
<1>5. MappingFollowsSelection'
  BY DEF ContractInv, MappingFollowsSelection
<1> QED BY <1>3, <1>4, <1>5 DEF ContractInv

\* A step that publishes a new mapping, with or without a new server set.
LEMMA PromisesNewMapping ==
  ASSUME ContractInv, ContractTyped',
         UNCHANGED <<llm_rx, fast_rx>>,
         mapping_generation' = mapping_generation + 1,
         snapshot'.gpu_map = NoMapping,
         \/ UNCHANGED <<server_list, llm_generation>>
         \/ llm_generation' = llm_generation + 1
  PROVE  ContractInv'
<1>1. ASSUME NEW sample \in Range(llm_rx)
      PROVE  LlmPromise(sample)'
  <2>1. LlmPromise(sample) /\ sample.generation \in Nat /\ llm_generation \in Nat
    BY QueuedTypes DEF ContractInv, QueuedSamplesKeepPromise, LlmSample,
       ContractTyped, ContractTypeOK, AppTypeOK
  <2>2. CASE UNCHANGED <<server_list, llm_generation>>
    BY <2>1, <2>2 DEF LlmPromise
  <2>3. CASE llm_generation' = llm_generation + 1
    BY <2>1, <2>3 DEF LlmPromise
  <2> QED BY <2>2, <2>3
<1>2. ASSUME NEW next \in Range(fast_rx)
      PROVE  FastPromise(next)'
  BY QueuedTypes DEF ContractInv, QueuedSnapshotsKeepPromise, FastSnapshot,
     FastPromise, ContractTyped, ContractTypeOK, AppTypeOK
<1>3. MappingFollowsSelection'
  BY DEF MappingFollowsSelection, NoMapping
<1> QED BY <1>1, <1>2, <1>3 DEF ContractInv, QueuedSamplesKeepPromise,
           QueuedSnapshotsKeepPromise

\* The queues are empty when app::run enters its loop, and no GPU is shown.
LEMMA InvInit == ContractInit => ContractInv
<1> SUFFICES ASSUME ContractInit PROVE ContractInv
  OBVIOUS
<1>1. llm_rx = <<>> /\ fast_rx = <<>>
  BY DEF ContractInit, ChannelsInit
<1>2. Range(llm_rx) = {} /\ Range(fast_rx) = {}
  BY <1>1 DEF Range
<1>3. snapshot.gpu_map = NoMapping
  BY DEF ContractInit, AppInit
<1>4. MappingFollowsSelection
  BY <1>3 DEF MappingFollowsSelection, NoMapping
<1> QED BY <1>2, <1>4, TypedInit
        DEF ContractInv, QueuedSamplesKeepPromise, QueuedSnapshotsKeepPromise

\* The drains take from the head of a queue; only apply_fast_snapshot changes
\* the mapping on display, to one that keeps the promise of its generation.
LEMMA InvLoopStep ==
  ASSUME ContractInv, ContractTyped', LoopStep
  PROVE  ContractInv'
<1> USE DEF setVars, inputVars, paintVars, endVars, signalVars, llmChannel,
            fastChannel, channelVars
<1>0. /\ llm_rx \in Seq(LlmSample) /\ fast_rx \in Seq(FastSnapshot)
      /\ snapshot \in DashboardSnapshot
  BY DEF ContractInv, ContractTyped, ContractTypeOK, ChannelsTypeOK, AppTypeOK
<1>1. CASE PumpFast
  <2>1. /\ Head(fast_rx) \in Range(fast_rx)
        /\ Range(Tail(fast_rx)) \subseteq Range(fast_rx)
    BY <1>0, <1>1, QueueContents DEF PumpFast
  <2>2. FastPromise(Head(fast_rx))
    BY <2>1 DEF ContractInv, QueuedSnapshotsKeepPromise
  <2>3. \A next : FastPromise(next) => FastPromise(next)'
    BY <1>1 DEF PumpFast, FastPromise
  <2>4. \A sample : LlmPromise(sample) => LlmPromise(sample)'
    BY <1>1 DEF PumpFast, LlmPromise
  <2>5. QueuedSnapshotsKeepPromise'
    BY <1>1, <2>1, <2>3 DEF PumpFast, ContractInv, QueuedSnapshotsKeepPromise
  <2>6. QueuedSamplesKeepPromise'
    BY <1>1, <2>4 DEF PumpFast, ContractInv, QueuedSamplesKeepPromise
  <2>7. snapshot'.gpu_map = IF Head(fast_rx).mapping_generation = mapping_generation
                            THEN Head(fast_rx).gpu_map ELSE snapshot.gpu_map
    BY <1>0, <1>1 DEF PumpFast, DashboardSnapshot
  <2>8. MappingFollowsSelection'
    BY <1>1, <2>2, <2>7
       DEF PumpFast, ContractInv, MappingFollowsSelection, FastPromise
  <2> QED BY <2>5, <2>6, <2>8 DEF ContractInv
<1>2. CASE PumpLlmAccept
  <2>1. Range(Tail(llm_rx)) \subseteq Range(llm_rx)
    BY <1>0, <1>2, QueueContents DEF PumpLlmAccept
  <2>2. snapshot'.gpu_map = snapshot.gpu_map
    BY <1>0, <1>2 DEF PumpLlmAccept, DashboardSnapshot
  <2> QED BY <1>2, <2>1, <2>2, PromisesFrame DEF PumpLlmAccept
<1>3. CASE PumpLlmReject
  <2>1. Range(Tail(llm_rx)) \subseteq Range(llm_rx)
    BY <1>0, <1>3, QueueContents DEF PumpLlmReject
  <2> QED BY <1>3, <2>1, PromisesFrame DEF PumpLlmReject
<1>4. CASE PumpLlmEmpty
  <2>1. snapshot'.gpu_map = snapshot.gpu_map
    BY <1>0, <1>4 DEF PumpLlmEmpty, DashboardSnapshot
  <2> QED BY <1>4, <2>1, PromisesFrame DEF PumpLlmEmpty
<1>5. CASE PumpFastEmpty \/ NoResync \/ NoInput \/ JoinLlm
  BY <1>5, PromisesFrame DEF PumpFastEmpty, NoResync, NoInput, JoinLlm
<1>6. CASE PumpDisconnected \/ JoinFast
  BY <1>6, PromisesFrame DEF PumpDisconnected, JoinFast
<1> QED BY <1>1, <1>2, <1>3, <1>4, <1>5, <1>6 DEF LoopStep

\* sync_server_set either leaves set, selection and mapping alone or advances
\* the mapping generation and clears the mapping.
LEMMA InvSync ==
  ASSUME ContractInv, ContractTyped', NEW next, sync_server_set(next),
         UNCHANGED <<llm_rx, fast_rx>>
  PROVE  ContractInv'
<1>0. snapshot \in DashboardSnapshot
  BY DEF ContractInv, ContractTyped, ContractTypeOK, AppTypeOK
<1>1. CASE SyncOverflow(next)
  BY <1>1, PromisesFrame DEF SyncOverflow
<1>2. CASE SyncMonitored(next)
  <2>1. /\ mapping_generation' = mapping_generation + 1
        /\ llm_generation' = llm_generation + 1
    BY <1>2 DEF SyncMonitored, publish_selected_mapping
  <2>2. snapshot'.gpu_map = NoMapping
    BY <1>0, <1>2 DEF SyncMonitored, DashboardSnapshot
  <2> QED BY <2>1, <2>2, PromisesNewMapping
<1> QED BY <1>1, <1>2 DEF sync_server_set

\* The keys of the user: only a confirmed selection touches the mapping.
LEMMA InvUserStep ==
  ASSUME ContractInv, ContractTyped', UserStep
  PROVE  ContractInv'
<1> USE DEF setVars, inputVars, paintVars, endVars, signalVars, llmChannel,
            fastChannel, channelVars
<1>1. CASE ConfirmSelector
  <2>0. snapshot \in DashboardSnapshot
    BY DEF ContractInv, ContractTyped, ContractTypeOK, AppTypeOK
  <2>1. /\ mapping_generation' = mapping_generation + 1
        /\ UNCHANGED <<server_list, llm_generation, llm_rx, fast_rx>>
    BY <1>1 DEF ConfirmSelector, publish_selected_mapping
  <2>2. snapshot'.gpu_map = NoMapping
    BY <1>1, <2>0 DEF ConfirmSelector, DashboardSnapshot
  <2> QED BY <2>1, <2>2, PromisesNewMapping
<1>2. CASE OpenSelector \/ OpenSettings \/ CloseDialog \/ OtherInput
  BY <1>2, PromisesFrame DEF OpenSelector, OpenSettings, CloseDialog, OtherInput
<1>3. ASSUME NEW delta \in {-1, 1}, MoveHighlight(delta)
      PROVE  ContractInv'
  BY <1>3, PromisesFrame DEF MoveHighlight
<1>4. CASE Quit \/ TerminalError
  BY <1>4, PromisesFrame DEF Quit, TerminalError
<1> QED BY <1>1, <1>2, <1>3, <1>4 DEF UserStep

\* A worker queues only what keeps its promise.
LEMMA InvWorkers ==
  ASSUME ContractInv, ContractTyped', Workers \/ TakeCommand \/ TakeIdentity,
         UNCHANGED appVars
  PROVE  ContractInv'
<1> USE DEF signalVars, llmChannel, fastChannel
<1>0. /\ llm_rx \in Seq(LlmSample) /\ fast_rx \in Seq(FastSnapshot)
      /\ llm_generation \in Nat /\ mapping_generation \in Nat
  BY GenerationAssumption
     DEF ContractInv, ContractTyped, ContractTypeOK, ChannelsTypeOK, AppTypeOK
<1>1. UNCHANGED <<server_list, selected, llm_generation, mapping_generation, snapshot>>
  BY DEF appVars, setVars
<1>2. ASSUME NEW g \in 0 .. llm_generation, NEW by \in Known,
             NEW at \in 0 .. MaxClock,
             FeedLlm([server |-> by.key, generation |-> g,
                      stats |-> [by |-> by, at |-> at]])
      PROVE  ContractInv'
  <2> DEFINE sample == [server |-> by.key, generation |-> g,
                        stats |-> [by |-> by, at |-> at]]
  <2>1. sample \in LlmSample
    BY <1>0, KnownTypes DEF LlmSample, LlmStats, Specs
  <2>2. LlmPromise(sample) /\ llm_rx' = try_send(llm_rx, sample, LlmCapacity)
        /\ UNCHANGED fast_rx
    BY <1>2 DEF FeedLlm
  <2> HIDE DEF sample
  <2>3. Range(llm_rx') \subseteq Range(llm_rx) \union {sample}
    BY <1>0, <2>1, <2>2, QueueContents
  <2> QED BY <1>1, <2>2, <2>3, PromisesFrame
<1>3. ASSUME NEW g \in 0 .. mapping_generation, NEW map \in GpuMappings,
             NEW gpu \in Selectors,
             FeedFast([gpu |-> gpu, gpu_map |-> map, mapping_generation |-> g])
      PROVE  ContractInv'
  <2> DEFINE sent == [gpu |-> gpu, gpu_map |-> map, mapping_generation |-> g]
  <2>1. sent \in FastSnapshot
    BY <1>0 DEF FastSnapshot
  <2>2. FastPromise(sent) /\ fast_rx' = try_send(fast_rx, sent, FastCapacity)
        /\ UNCHANGED llm_rx
    BY <1>3 DEF FeedFast
  <2> HIDE DEF sent
  <2>3. Range(fast_rx') \subseteq Range(fast_rx) \union {sent}
    BY <1>0, <2>1, <2>2, QueueContents
  <2> QED BY <1>1, <2>2, <2>3, PromisesFrame
<1>4. CASE UNCHANGED <<llm_rx, fast_rx>>
  BY <1>1, <1>4, PromisesFrame
<1>5. \A how : WorkerEnds(how) => UNCHANGED <<llm_rx, fast_rx>>
  BY DEF WorkerEnds
<1>6. TakeCommand \/ TakeIdentity => UNCHANGED <<llm_rx, fast_rx>>
  BY DEF TakeCommand, TakeIdentity
<1> QED BY <1>2, <1>3, <1>4, <1>5, <1>6 DEF Workers

\* Every step keeps the promises of what is queued and the mapping shown.
LEMMA InvStep == ContractInv /\ [ContractNext]_contractVars => ContractInv'
<1> SUFFICES ASSUME ContractInv, [ContractNext]_contractVars
             PROVE  ContractInv'
  OBVIOUS
<1>0. ContractTyped'
  BY TypedStep DEF ContractInv
<1>1. CASE LoopStep
  BY <1>0, <1>1, InvLoopStep
<1>2. CASE UserStep
  BY <1>0, <1>2, InvUserStep
<1>3. CASE ContractResync
  BY <1>0, <1>3, InvSync DEF ContractResync, Resync
<1>4. CASE ContractSave
  BY <1>0, <1>4, InvSync DEF ContractSave, SaveSettings
<1>5. CASE (Workers \/ TakeCommand \/ TakeIdentity) /\ UNCHANGED appVars
  BY <1>0, <1>5, InvWorkers
<1>6. CASE UNCHANGED contractVars
  BY <1>0, <1>6, PromisesFrame DEF contractVars, channelVars, llmChannel,
     fastChannel, appVars, setVars
<1> QED BY <1>1, <1>2, <1>3, <1>4, <1>5, <1>6 DEF ContractNext

\* The promises of what is queued hold for ever.
LEMMA AlwaysInv == ContractSpec => []ContractInv
BY InvInit, InvStep, PTL DEF ContractSpec

\* apply_fast_snapshot's generation test and the clearing of the mapping in
\* publish_selected_mapping are enough: GPUs of another server, or of the
\* selected server before its restart, are never on display.
THEOREM MappingSafe == ContractSpec => []MappingFollowsSelection
<1>1. ContractInv => MappingFollowsSelection
  BY DEF ContractInv
<1> QED BY <1>1, AlwaysInv, PTL

\* What a step puts into the registry.
RegistryStep ==
  \A k \in DOMAIN registry' :
    \/ k \in DOMAIN registry /\ registry'[k] = registry[k]
    \/ /\ registry'[k].by \in Range(server_list)
       /\ registry'[k].by.key = k

\* Only an accepted sample is new in the registry; sync_server_set drops entries.
LEMMA RegistryFromCurrentSet ==
  ASSUME ContractInv, [ContractNext]_contractVars
  PROVE  RegistryStep
<1> USE DEF setVars
<1>1. CASE UNCHANGED registry
  BY <1>1 DEF RegistryStep
<1>2. CASE PumpLlmAccept
  <2>1. Head(llm_rx) \in Range(llm_rx)
    BY <1>2, QueueContents
       DEF PumpLlmAccept, ContractInv, ContractTyped, ContractTypeOK, ChannelsTypeOK
  <2>2. LlmPromise(Head(llm_rx))
    BY <2>1 DEF ContractInv, QueuedSamplesKeepPromise
  <2>3. /\ Head(llm_rx).stats.by \in Range(server_list)
        /\ Head(llm_rx).stats.by.key = Head(llm_rx).server
    BY <1>2, <2>2 DEF PumpLlmAccept, Accepted, LlmPromise
  <2> QED BY <1>2, <2>3 DEF PumpLlmAccept, RegistryStep
<1>3. ASSUME NEW next, sync_server_set(next) PROVE RegistryStep
  <2>1. CASE SyncOverflow(next)
    BY <2>1, <1>1 DEF SyncOverflow
  <2>2. CASE SyncMonitored(next)
    BY <2>2 DEF SyncMonitored, Restrict, RegistryStep
  <2> QED BY <1>3, <2>1, <2>2 DEF sync_server_set
<1>4. CASE LoopStep
  BY <1>1, <1>2, <1>4 DEF LoopStep, PumpFast, PumpFastEmpty, PumpLlmReject,
     PumpLlmEmpty, PumpDisconnected, NoResync, NoInput, JoinLlm, JoinFast
<1>5. CASE UserStep
  BY <1>1, <1>5 DEF UserStep, OpenSelector, ConfirmSelector, MoveHighlight,
     OpenSettings, CloseDialog, OtherInput, Quit, TerminalError
<1>6. CASE ContractResync \/ ContractSave
  BY <1>3, <1>6 DEF ContractResync, ContractSave, Resync, SaveSettings
<1>7. CASE UNCHANGED appVars
  BY <1>1, <1>7 DEF appVars
<1>8. CASE UNCHANGED contractVars
  BY <1>7, <1>8 DEF contractVars
<1> QED BY <1>4, <1>5, <1>6, <1>7, <1>8 DEF ContractNext

\* accepts_llm_sample is enough: no late sample of a replaced set, a removed
\* server or a process that was restarted since enters the registry, however
\* many set changes overtake it in the channel.
THEOREM AcceptedSafe == ContractSpec => AcceptedFromCurrentSet
<1>1. ContractInv /\ [ContractNext]_contractVars => [RegistryStep]_contractVars
  BY RegistryFromCurrentSet
<1>2. ContractSpec => [][RegistryStep]_contractVars
  BY <1>1, AlwaysInv, PTL DEF ContractSpec
<1> QED BY <1>2 DEF AcceptedFromCurrentSet, RegistryStep

-----------------------------------------------------------------------------
(***************************************************************************)
(* Shutdown.  The outcome of the first join is kept while the second one   *)
(* waits; a worker that finished stays finished.                           *)
(***************************************************************************)
JoinInv ==
  /\ llm_join = "ok" => llm_thread = "finished"
  /\ OkMeansWorkersFinished

\* A worker that has ended does not run again.
EndedStays ==
  /\ llm_thread = "finished" => llm_thread' = "finished"
  /\ fast_thread = "finished" => fast_thread' = "finished"

\* A worker that has ended, by return or panic, never runs again.
LEMMA ThreadsEndOnce == [ContractNext]_contractVars => EndedStays
<1> SUFFICES ASSUME [ContractNext]_contractVars PROVE EndedStays
  OBVIOUS
<1> USE DEF signalVars, channelVars
<1>1. CASE UNCHANGED <<llm_thread, fast_thread>>
  BY <1>1 DEF EndedStays
<1>2. CASE LoopStep
  BY <1>1, <1>2 DEF LoopStep, PumpFast, PumpFastEmpty, PumpLlmAccept,
     PumpLlmReject, PumpLlmEmpty, PumpDisconnected, NoResync, NoInput, JoinLlm,
     JoinFast
<1>3. CASE UserStep
  BY <1>1, <1>3 DEF UserStep, OpenSelector, ConfirmSelector, MoveHighlight,
     OpenSettings, CloseDialog, OtherInput, Quit, TerminalError
<1>4. CASE ContractResync \/ ContractSave
  BY <1>1, <1>4 DEF ContractResync, ContractSave, Resync, SaveSettings
<1>5. CASE Workers
  BY <1>1, <1>5 DEF Workers, FeedLlm, FeedFast, WorkerEnds, EndedStays
<1>6. CASE TakeCommand \/ TakeIdentity
  BY <1>1, <1>6 DEF TakeCommand, TakeIdentity
<1>7. CASE UNCHANGED contractVars
  BY <1>1, <1>7 DEF contractVars
<1> QED BY <1>2, <1>3, <1>4, <1>5, <1>6, <1>7 DEF ContractNext

\* Every step keeps what the joins have reported true of the workers.
LEMMA JoinStep == JoinInv /\ [ContractNext]_contractVars => JoinInv'
<1> SUFFICES ASSUME JoinInv, [ContractNext]_contractVars PROVE JoinInv'
  OBVIOUS
<1> USE DEF endVars
<1>0. EndedStays
  BY ThreadsEndOnce
<1>1. CASE UNCHANGED endVars
  BY <1>0, <1>1 DEF JoinInv, EndedStays, OkMeansWorkersFinished
<1>2. CASE UNCHANGED llm_join /\ result' = "err"
  BY <1>0, <1>2 DEF JoinInv, EndedStays, OkMeansWorkersFinished
<1>3. CASE JoinLlm
  BY <1>0, <1>3 DEF JoinLlm, join_bounded, channelVars, signalVars, JoinInv,
     EndedStays, OkMeansWorkersFinished
<1>4. CASE JoinFast
  BY <1>0, <1>4 DEF JoinFast, Return, join_bounded, JoinInv, EndedStays,
     OkMeansWorkersFinished
<1>5. CASE LoopStep
  BY <1>1, <1>2, <1>3, <1>4, <1>5 DEF LoopStep, PumpFast, PumpFastEmpty,
     PumpLlmAccept, PumpLlmReject, PumpLlmEmpty, PumpDisconnected, Return,
     NoResync, NoInput
<1>6. CASE UserStep
  BY <1>1, <1>2, <1>6 DEF UserStep, OpenSelector, ConfirmSelector,
     MoveHighlight, OpenSettings, CloseDialog, OtherInput, Input, Quit,
     TerminalError, Return
<1>7. CASE ContractResync \/ ContractSave
  BY <1>1, <1>7 DEF ContractResync, ContractSave, Resync, SaveSettings, Input
<1>8. CASE UNCHANGED appVars
  BY <1>1, <1>8 DEF appVars
<1>9. CASE UNCHANGED contractVars
  BY <1>8, <1>9 DEF contractVars
<1> QED BY <1>5, <1>6, <1>7, <1>8, <1>9 DEF ContractNext

\* app::run returns Ok only when join_bounded saw both workers end by
\* themselves: a panic or a missed deadline of either one is an error, also
\* when the other one is joined after it.
THEOREM ShutdownSafe == ContractSpec => []OkMeansWorkersFinished
<1>1. ContractInit => JoinInv
  BY DEF ContractInit, AppInit, JoinInv, OkMeansWorkersFinished
<1>2. JoinInv => OkMeansWorkersFinished
  BY DEF JoinInv
<1> QED BY <1>1, <1>2, JoinStep, PTL DEF ContractSpec

-----------------------------------------------------------------------------
(***************************************************************************)
(* The LLM panel and the histories.  A history of one process is inductive *)
(* only together with the working copy mirroring the stored one (a sample  *)
(* of the selected server is added to the copy and the result stored), and *)
(* with unique keys: otherwise a key would not determine a process.        *)
(***************************************************************************)
PanelInv ==
  /\ UniqueKeys(server_list)
  /\ PanelShowsSelected
  /\ HistoryOfOneProcess
  /\ ActiveHistoryMirrorsStored

\* In a list without duplicate keys an entry's key determines its process.
LEMMA IdentityOfEntry ==
  ASSUME NEW list \in Seq(Specs), UniqueKeys(list), NEW spec \in Range(list)
  PROVE  /\ spec.key \in KeysOf(list)
         /\ selected_identity_of(list, spec.key) = spec.identity
<1>1. PICK i \in DOMAIN list : list[i] = spec
  BY DEF Range
<1>2. spec.key \in KeysOf(list)
  BY <1>1 DEF KeysOf
<1> DEFINE found == CHOOSE s \in Range(list) : s.key = spec.key
<1>3. found \in Range(list) /\ found.key = spec.key
  OBVIOUS
<1>4. PICK j \in DOMAIN list : list[j] = found
  BY <1>3 DEF Range
<1>5. i = j
  BY <1>1, <1>3, <1>4 DEF UniqueKeys
<1> QED BY <1>1, <1>2, <1>4, <1>5 DEF selected_identity_of

\* Panel, histories and registry are empty when run starts.
LEMMA PanelInit == ContractInit => PanelInv
<1> SUFFICES ASSUME ContractInit PROVE PanelInv
  OBVIOUS
<1>1. PICK next \in ServerLists, auto \in BOOLEAN :
        \E choice \in KeysOf(next.monitored) : AppInit(next, choice, auto)
  BY DEF ContractInit
<1>2. PICK choice \in KeysOf(next.monitored) : AppInit(next, choice, auto)
  BY <1>1
<1>3. UniqueKeys(server_list) /\ selected \in KeysOf(server_list)
  BY <1>2, ServerListsAssumption DEF AppInit
<1>4. PanelShowsSelected
  BY <1>2, <1>3 DEF AppInit, PanelShowsSelected, sample_of
<1>5. /\ DOMAIN ui.llm_histories = {} /\ ui.llm_history = {}
      /\ ui.llm_history_key = None
  BY <1>2 DEF AppInit, HistoriesInit
<1> QED BY <1>3, <1>4, <1>5
        DEF PanelInv, HistoryOfOneProcess, ActiveHistoryMirrorsStored

\* A step that leaves the server set, the selection, the registry, the
\* histories and the panel alone.
LEMMA PanelFrame ==
  ASSUME PanelInv, UNCHANGED <<server_list, selected, registry, ui>>,
         snapshot'.llm = snapshot.llm
  PROVE  PanelInv'
<1>1. UniqueKeys(server_list)' /\ PanelShowsSelected'
  BY DEF PanelInv, UniqueKeys, PanelShowsSelected
<1>2. HistoryOfOneProcess'
  BY DEF PanelInv, HistoryOfOneProcess
<1>3. ActiveHistoryMirrorsStored'
  BY DEF PanelInv, ActiveHistoryMirrorsStored
<1> QED BY <1>1, <1>2, <1>3 DEF PanelInv

\* record_llm_sample adds the process of the sample, which is the one the
\* current server set names for its key.
LEMMA PanelAccept ==
  ASSUME ContractInv, PanelInv, PumpLlmAccept
  PROVE  PanelInv'
<1> DEFINE next == Head(llm_rx)
           key == next.server
           session == next.stats.by.identity
<1>1. /\ server_list \in Seq(Specs) /\ selected \in Keys
      /\ snapshot \in DashboardSnapshot /\ ui \in UiHistories
  BY DEF ContractInv, ContractTyped, ContractTypeOK, AppTypeOK
<1>2. next \in Range(llm_rx)
  BY QueueContents
     DEF PumpLlmAccept, ContractInv, ContractTyped, ContractTypeOK, ChannelsTypeOK
<1>3. LlmPromise(next) /\ Accepted(next)
  BY <1>2 DEF PumpLlmAccept, ContractInv, QueuedSamplesKeepPromise
<1>4. next.stats.by \in Range(server_list) /\ next.stats.by.key = key
  BY <1>3 DEF Accepted, LlmPromise
<1>5. key \in KeysOf(server_list) /\ selected_identity_of(server_list, key) = session
  BY <1>1, <1>4, IdentityOfEntry DEF PanelInv
<1>6. /\ UNCHANGED <<server_list, selected>>
      /\ ui' = record_llm_sample(ui, key, selected, session)
      /\ registry' = [k \in DOMAIN registry \union {key} |->
                        IF k = key THEN next.stats ELSE registry[k]]
      /\ snapshot' = IF key = selected
                     THEN [snapshot EXCEPT !.llm = next.stats] ELSE snapshot
  BY DEF PumpLlmAccept
<1> HIDE DEF next, key, session
<1>7. PanelShowsSelected'
  <2>1. CASE key = selected
    BY <1>1, <1>6, <2>1 DEF PanelInv, PanelShowsSelected, sample_of, DashboardSnapshot
  <2>2. CASE key # selected
    BY <1>6, <2>2 DEF PanelInv, PanelShowsSelected, sample_of
  <2> QED BY <2>1, <2>2
<1>8. HistoryOfOneProcess' /\ ActiveHistoryMirrorsStored'
  <2>1. CASE key = selected
    <3> DEFINE active == IF ui.llm_history_key # key THEN {} ELSE ui.llm_history
               observed == active \union {session}
    <3>1. /\ ui'.llm_histories = insert_history(ui.llm_histories, key, observed)
          /\ ui'.llm_history = observed
          /\ ui'.llm_history_key = key
      BY <1>6, <2>1 DEF record_llm_sample
    <3>2. active \subseteq {session}
      <4>1. history_of(ui, key) \subseteq {session}
        BY <1>5 DEF PanelInv, HistoryOfOneProcess, history_of
      <4> QED BY <2>1, <4>1 DEF PanelInv, ActiveHistoryMirrorsStored
    <3> HIDE DEF active
    <3>3. HistoryOfOneProcess'
      BY <1>5, <1>6, <3>1, <3>2 DEF PanelInv, HistoryOfOneProcess, insert_history
    <3>4. ActiveHistoryMirrorsStored'
      BY <1>6, <2>1, <3>1
         DEF ActiveHistoryMirrorsStored, history_of, insert_history
    <3> QED BY <3>3, <3>4
  <2>2. CASE key # selected
    <3>1. /\ ui'.llm_histories =
               insert_history(ui.llm_histories, key, history_of(ui, key) \union {session})
          /\ ui'.llm_history = ui.llm_history
          /\ ui'.llm_history_key = ui.llm_history_key
      BY <1>1, <1>6, <2>2 DEF record_llm_sample, UiHistories
    <3>2. history_of(ui, key) \subseteq {session}
      BY <1>5 DEF PanelInv, HistoryOfOneProcess, history_of
    <3>3. HistoryOfOneProcess'
      BY <1>5, <1>6, <3>1, <3>2 DEF PanelInv, HistoryOfOneProcess, insert_history
    <3>4. ActiveHistoryMirrorsStored'
      BY <1>6, <2>2, <3>1
         DEF PanelInv, ActiveHistoryMirrorsStored, history_of, insert_history
    <3> QED BY <3>3, <3>4
  <2> QED BY <2>1, <2>2
<1>9. UniqueKeys(server_list)'
  BY <1>6 DEF PanelInv, UniqueKeys
<1> QED BY <1>7, <1>8, <1>9 DEF PanelInv

\* The selected key is never the empty key.
LEMMA KeysAreNotNone == \A k \in Keys : k # None
BY NoneAssumption

\* A confirmed selection: the panel and the working copy of the chosen server.
LEMMA PanelConfirm ==
  ASSUME ContractInv, PanelInv, ConfirmSelector
  PROVE  PanelInv'
<1> DEFINE choice == server_list[server_selector_index + 1].key
<1>1. /\ server_list \in Seq(Specs)
      /\ snapshot \in DashboardSnapshot /\ ui \in UiHistories
  BY DEF ContractInv, ContractTyped, ContractTypeOK, AppTypeOK
<1>2. choice \in KeysOf(server_list) /\ choice \in Keys
  <2>1. server_selector_index + 1 \in DOMAIN server_list /\ choice \in Keys
    BY <1>1, HighlightInList, LenProperties DEF ContractInv
  <2> QED BY <2>1 DEF KeysOf
<1>3. /\ UNCHANGED <<server_list, registry>>
      /\ selected' = choice
      /\ ui' = select_llm_history(ui, choice)
      /\ snapshot'.llm = sample_of(registry, choice)
  BY <1>1 DEF ConfirmSelector, DashboardSnapshot
<1> HIDE DEF choice
<1>4. UniqueKeys(server_list)' /\ PanelShowsSelected'
  BY <1>2, <1>3 DEF PanelInv, UniqueKeys, PanelShowsSelected
<1>5. /\ ui'.llm_histories = ui.llm_histories
      /\ ui'.llm_history_key = choice
      /\ ui'.llm_history = IF ui.llm_history_key = choice THEN ui.llm_history
                           ELSE history_of(ui, choice)
  BY <1>1, <1>3 DEF select_llm_history, UiHistories
<1>6. HistoryOfOneProcess'
  BY <1>3, <1>5 DEF PanelInv, HistoryOfOneProcess
<1>7. choice # None
  BY <1>2, KeysAreNotNone
<1>8. ActiveHistoryMirrorsStored'
  BY <1>3, <1>5, <1>7 DEF PanelInv, ActiveHistoryMirrorsStored, history_of
<1> QED BY <1>4, <1>6, <1>8 DEF PanelInv

\* reset_llm_history followed by retain_llm_histories keeps the histories of
\* servers that are still there and were not restarted, and no other.
LEMMA RetainedHistories ==
  ASSUME NEW u \in UiHistories, NEW restarted \in SUBSET Keys, NEW live
  PROVE  LET r == retain_llm_histories(reset_llm_history(u, restarted), live)
         IN  /\ DOMAIN r.llm_histories =
                  (DOMAIN u.llm_histories \ restarted) \intersect live
             /\ \A k \in DOMAIN r.llm_histories :
                  r.llm_histories[k] = u.llm_histories[k]
             /\ r.llm_history_key =
                  IF u.llm_history_key \in live THEN u.llm_history_key ELSE None
             /\ r.llm_history =
                  IF \/ u.llm_history_key # None /\ u.llm_history_key \notin live
                     \/ u.llm_history_key \in restarted
                  THEN {} ELSE u.llm_history
<1> DEFINE v == reset_llm_history(u, restarted)
           r == retain_llm_histories(v, live)
<1>1. /\ v.llm_histories = Restrict(u.llm_histories, DOMAIN u.llm_histories \ restarted)
      /\ v.llm_history = IF u.llm_history_key \in restarted THEN {} ELSE u.llm_history
      /\ v.llm_history_key = u.llm_history_key
  BY DEF reset_llm_history, UiHistories
<1>2. /\ DOMAIN v.llm_histories = DOMAIN u.llm_histories \ restarted
      /\ \A k \in DOMAIN v.llm_histories : v.llm_histories[k] = u.llm_histories[k]
  BY <1>1 DEF Restrict
<1> HIDE DEF v
<1> DEFINE gone == v.llm_history_key # None /\ v.llm_history_key \notin live
<1>3. /\ r.llm_histories = Restrict(v.llm_histories, DOMAIN v.llm_histories \intersect live)
      /\ r.llm_history = IF gone THEN {} ELSE v.llm_history
      /\ r.llm_history_key = IF gone THEN None ELSE v.llm_history_key
  BY DEF retain_llm_histories
<1>4. /\ DOMAIN r.llm_histories = DOMAIN v.llm_histories \intersect live
      /\ \A k \in DOMAIN r.llm_histories : r.llm_histories[k] = v.llm_histories[k]
  BY <1>3 DEF Restrict
<1> HIDE DEF r
<1>5. /\ DOMAIN r.llm_histories = (DOMAIN u.llm_histories \ restarted) \intersect live
      /\ \A k \in DOMAIN r.llm_histories : r.llm_histories[k] = u.llm_histories[k]
  BY <1>2, <1>4
<1>6. r.llm_history_key = IF u.llm_history_key \in live THEN u.llm_history_key ELSE None
  BY <1>1, <1>3
<1>7. r.llm_history =
        IF \/ u.llm_history_key # None /\ u.llm_history_key \notin live
           \/ u.llm_history_key \in restarted
        THEN {} ELSE u.llm_history
  BY <1>1, <1>3
<1> QED BY <1>5, <1>6, <1>7 DEF r, v

\* A new server set: restarted and removed servers lose their histories, a
\* removed selection falls back to the first server of the new set.
LEMMA PanelSync ==
  ASSUME ContractInv, PanelInv, NEW next \in ServerLists, SyncMonitored(next)
  PROVE  PanelInv'
<1> DEFINE list == next.monitored
           live == KeysOf(list)
           kept == Restrict(registry, DOMAIN registry \intersect live)
           gone == selected \notin live
           choice == IF gone THEN Head(list).key ELSE selected
           restarted == changed_identity_keys(server_list, list)
           retained == retain_llm_histories(reset_llm_history(ui, restarted), live)
<1>1. /\ server_list \in Seq(Specs) /\ selected \in Keys
      /\ snapshot \in DashboardSnapshot /\ ui \in UiHistories
  BY DEF ContractInv, ContractTyped, ContractTypeOK, AppTypeOK
<1>2. /\ list \in Seq(Specs) /\ list # <<>> /\ UniqueKeys(list)
      /\ KeysOf(server_list) \subseteq Keys
      /\ live \subseteq Keys
  BY <1>1, ServerListTypes, ServerListsAssumption, ListTypes
<1>3. /\ server_list' = list
      /\ registry' = kept
      /\ selected' = choice
      /\ ui' = IF gone THEN select_llm_history(retained, choice) ELSE retained
      /\ snapshot'.llm = IF gone THEN sample_of(kept, choice) ELSE snapshot.llm
  BY <1>1 DEF SyncMonitored, DashboardSnapshot
<1>4. choice \in live
  <2>1. 1 \in DOMAIN list /\ Head(list) = list[1]
    BY <1>2, EmptySeq, LenProperties
  <2>2. Head(list).key \in live
    BY <2>1 DEF KeysOf
  <2> QED BY <2>2
<1>5. choice # None /\ selected # None
  BY <1>1, <1>2, <1>4, KeysAreNotNone
<1>6. restarted \in SUBSET Keys
  BY <1>2 DEF changed_identity_keys
<1>7. /\ DOMAIN retained.llm_histories =
           (DOMAIN ui.llm_histories \ restarted) \intersect live
      /\ \A k \in DOMAIN retained.llm_histories :
           retained.llm_histories[k] = ui.llm_histories[k]
      /\ retained.llm_history_key =
           IF ui.llm_history_key \in live THEN ui.llm_history_key ELSE None
      /\ retained.llm_history =
           IF \/ ui.llm_history_key # None /\ ui.llm_history_key \notin live
              \/ ui.llm_history_key \in restarted
           THEN {} ELSE ui.llm_history
  BY <1>1, <1>6, RetainedHistories
<1>8. retained \in UiHistories
  BY <1>1, HistoryTypes
<1>9. UniqueKeys(server_list)'
  BY <1>2, <1>3 DEF UniqueKeys
<1>10. PanelShowsSelected'
  <2>1. CASE gone
    BY <1>3, <1>4, <2>1 DEF PanelShowsSelected
  <2>2. CASE ~gone
    <3>1. sample_of(kept, selected) = sample_of(registry, selected)
      BY <2>2 DEF sample_of, Restrict
    <3>2. selected' = selected /\ snapshot'.llm = snapshot.llm
      BY <1>3, <2>2
    <3> QED BY <1>3, <1>4, <2>2, <3>1, <3>2 DEF PanelInv, PanelShowsSelected
  <2> QED BY <2>1, <2>2
<1>11. \A k \in DOMAIN retained.llm_histories :
         /\ k \in live
         /\ retained.llm_histories[k] \subseteq {selected_identity_of(list, k)}
  BY <1>7 DEF PanelInv, HistoryOfOneProcess, changed_identity_keys
<1> HIDE DEF list, live, kept, choice, restarted, retained
<1>12. /\ ui'.llm_histories = retained.llm_histories
       /\ gone /\ retained.llm_history_key = None =>
            ui'.llm_history_key = choice /\ ui'.llm_history = history_of(retained, choice)
       /\ ~gone => ui' = retained
  BY <1>3, <1>5, <1>8 DEF select_llm_history, UiHistories
<1>13. HistoryOfOneProcess'
  BY <1>3, <1>11, <1>12 DEF HistoryOfOneProcess, live
<1>14. ActiveHistoryMirrorsStored'
  <2>1. CASE gone
    <3>1. retained.llm_history_key = None
      BY <1>7, <2>1 DEF PanelInv, ActiveHistoryMirrorsStored
    <3> QED BY <1>3, <1>12, <2>1, <3>1 DEF ActiveHistoryMirrorsStored, history_of
  <2>2. CASE ~gone /\ ui.llm_history_key = selected
    <3>1. retained.llm_history_key = selected
      BY <1>7, <2>2
    <3>2. retained.llm_history = history_of(retained, selected)
      BY <1>5, <1>7, <2>2 DEF PanelInv, ActiveHistoryMirrorsStored, history_of
    <3>3. selected' = selected /\ ui' = retained
      BY <1>3, <1>12, <2>2 DEF choice
    <3> QED BY <3>1, <3>2, <3>3 DEF ActiveHistoryMirrorsStored, history_of
  <2>3. CASE ~gone /\ ui.llm_history_key # selected
    <3>1. /\ ui.llm_history_key = None /\ ui.llm_history = {}
          /\ selected \notin DOMAIN ui.llm_histories
      BY <2>3 DEF PanelInv, ActiveHistoryMirrorsStored
    <3>2. /\ retained.llm_history_key = None /\ retained.llm_history = {}
          /\ selected \notin DOMAIN retained.llm_histories
      BY <1>7, <3>1
    <3>3. selected' = selected /\ ui' = retained
      BY <1>3, <1>12, <2>3 DEF choice
    <3> QED BY <3>2, <3>3 DEF ActiveHistoryMirrorsStored
  <2> QED BY <2>1, <2>2, <2>3
<1> QED BY <1>9, <1>10, <1>13, <1>14 DEF PanelInv

\* Every step keeps panel, histories and registry consistent.
LEMMA PanelStep ==
  ContractInv /\ PanelInv /\ [ContractNext]_contractVars => PanelInv'
<1> SUFFICES ASSUME ContractInv, PanelInv, [ContractNext]_contractVars
             PROVE  PanelInv'
  OBVIOUS
<1> USE DEF setVars
<1>0. snapshot \in DashboardSnapshot
  BY DEF ContractInv, ContractTyped, ContractTypeOK, AppTypeOK
<1>1. CASE UNCHANGED <<server_list, selected, registry, ui, snapshot>>
  BY <1>1, PanelFrame
<1>2. CASE PumpFast
  <2>1. snapshot'.llm = snapshot.llm
    BY <1>0, <1>2 DEF PumpFast, DashboardSnapshot
  <2> QED BY <1>2, <2>1, PanelFrame DEF PumpFast
<1>3. CASE PumpLlmEmpty
  <2>1. snapshot'.llm = snapshot.llm
    BY <1>0, <1>3 DEF PumpLlmEmpty, DashboardSnapshot
  <2> QED BY <1>3, <2>1, PanelFrame DEF PumpLlmEmpty
<1>4. CASE LoopStep
  BY <1>1, <1>2, <1>3, <1>4, PanelAccept DEF LoopStep, PumpFastEmpty,
     PumpLlmReject, PumpDisconnected, NoResync, NoInput, JoinLlm, JoinFast
<1>5. CASE UserStep
  BY <1>1, <1>5, PanelConfirm DEF UserStep, OpenSelector, MoveHighlight,
     OpenSettings, CloseDialog, OtherInput, Quit, TerminalError
<1>6. ASSUME NEW next \in ServerLists, sync_server_set(next) PROVE PanelInv'
  BY <1>1, <1>6, PanelSync DEF sync_server_set, SyncOverflow
<1>7. CASE ContractResync \/ ContractSave
  BY <1>6, <1>7 DEF ContractResync, ContractSave, Resync, SaveSettings
<1>8. CASE UNCHANGED appVars
  BY <1>1, <1>8 DEF appVars
<1>9. CASE UNCHANGED contractVars
  BY <1>8, <1>9 DEF contractVars
<1> QED BY <1>4, <1>5, <1>7, <1>8, <1>9 DEF ContractNext

\* Panel, histories and registry stay consistent for ever.
LEMMA AlwaysPanel == ContractSpec => []PanelInv
BY AlwaysInv, PanelInit, PanelStep, PTL DEF ContractSpec

\* reset_llm_history and retain_llm_histories together with the generation
\* tag: a graph never joins the samples of two processes, across restarts,
\* removals and returns of a server.
THEOREM HistorySafe == ContractSpec => []HistoryOfOneProcess
<1>1. PanelInv => HistoryOfOneProcess
  BY DEF PanelInv
<1> QED BY <1>1, AlwaysPanel, PTL

\* record_llm_sample, select_llm_history, reset_llm_history and
\* retain_llm_histories keep the working copy equal to the stored history.
THEOREM MirrorSafe == ContractSpec => []ActiveHistoryMirrorsStored
<1>1. PanelInv => ActiveHistoryMirrorsStored
  BY DEF PanelInv
<1> QED BY <1>1, AlwaysPanel, PTL

\* After every sample, switch, removal and restart the LLM panel shows what
\* the registry holds for the selected server, which is always a monitored one.
THEOREM PanelSafe == ContractSpec => []PanelShowsSelected
<1>1. PanelInv => PanelShowsSelected
  BY DEF PanelInv
<1> QED BY <1>1, AlwaysPanel, PTL

-----------------------------------------------------------------------------
\* Painting: what is not on the screen yet is marked dirty in every state, not
\* only when the loop is about to paint.
PaintInv == unpainted => dirty

\* No step clears the mark without painting, and every step that applies
\* something sets it.
LEMMA PaintStep == PaintInv /\ [ContractNext]_contractVars => PaintInv'
<1> SUFFICES ASSUME PaintInv, [ContractNext]_contractVars PROVE PaintInv'
  OBVIOUS
<1> USE DEF PaintInv, paintVars
<1>1. CASE UNCHANGED paintVars
  BY <1>1
<1>2. CASE LoopStep
  BY <1>1, <1>2, Zenon DEF LoopStep, PumpFast, PumpFastEmpty, PumpLlmAccept,
     PumpLlmReject, PumpLlmEmpty, PumpDisconnected, NoResync, NoInput, JoinLlm,
     JoinFast, Repaint
<1>3. CASE UserStep
  BY <1>1, <1>3, Zenon DEF UserStep, OpenSelector, ConfirmSelector,
     MoveHighlight, OpenSettings, CloseDialog, OtherInput, Input, Quit,
     TerminalError
<1>4. CASE ContractResync \/ ContractSave
  BY <1>4, Zenon DEF ContractResync, ContractSave, Resync, SaveSettings, Input, Repaint
<1>5. CASE UNCHANGED appVars
  BY <1>1, <1>5 DEF appVars
<1>6. CASE UNCHANGED contractVars
  BY <1>5, <1>6 DEF contractVars
<1> QED BY <1>2, <1>3, <1>4, <1>5, <1>6 DEF ContractNext

\* What pump_snapshots, a resync or the selector applied is painted before
\* app::run blocks in event::poll.
THEOREM PaintSafe == ContractSpec => []NothingAppliedWaits
<1>1. ContractInit => PaintInv
  BY Zenon DEF ContractInit, AppInit, PaintInv
<1>2. PaintInv => NothingAppliedWaits
  BY DEF PaintInv, NothingAppliedWaits
<1> QED BY <1>1, <1>2, PaintStep, PTL DEF ContractSpec
==============================================================================

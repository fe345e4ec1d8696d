---------------------------- MODULE MonitorProofs ----------------------------
(***************************************************************************)
(* Proofs about the monitor of a server: HeldSampleExpires, ModelIsCurrent,*)
(* ContextOfOneSlot, IdleIsEvident, ServerDecides, RateIsReal,             *)
(* SlotRateIsExact and AcceptanceIsMeasured, for any slots, models,        *)
(* replies, intervals and bounds, and any order of tokens, tasks,          *)
(* restarts, failures and polls.                                           *)
(*                                                                         *)
(* `sample` is a chain of parts: the first section says of each what it    *)
(* leaves of the statistics and of the monitor (Sampled, at the end of the *)
(* chain).  Six invariants follow, each with one lemma per action:         *)
(*   HeldInv   the age of the sample that may be held against the time     *)
(*             since the server last answered (and the types);             *)
(*   PropsInv  what a poll has learnt of a server that does not change,    *)
(*             and that /props is left out only while the cache is fresh;  *)
(*   PhaseInv  what is shown of the slots is what the array of this poll   *)
(*             says (the pass over the array by induction, DataInduction); *)
(*   SpecInv   the cache, and what is shown, say what the server said last *)
(*             about speculation;                                          *)
(*   MetricsInv  the counters in the baseline, in the answer under way and *)
(*             in what is shown are past counts of the server;             *)
(*   SlotsInv  so are those of the slots, task by task.                    *)
(***************************************************************************)
EXTENDS LlamaMonitor, DataInduction, FiniteSetTheorems, TLAPS

StatsFields ==
  {"connected", "metrics_available", "reconnecting", "model", "context_size", "context_used",
   "context_slot_id", "slots_available", "busy_slots", "request_generated_tokens",
   "generated_total", "rate", "active_requests", "deferred_requests", "strata_phase", "backend",
   "spec_draft_tokens", "spec_accepted_tokens", "spec_enabled", "spec_is_mtp", "spec_n_max",
   "spec_acceptance", "error"}

MonitorFields ==
  {"previous_metrics", "previous_slots", "props", "props_age", "props_dirty", "acceptance",
   "acceptance_age", "local_spec", "local_spec_age", "last_metrics_format",
   "last_strata_since", "metrics_gap", "slots_gap"}

ChainFields == {"monitor", "parsed", "rate", "stats"}

-----------------------------------------------------------------------------
(* The parts of `sample`.                                                  *)

\* What props_stats takes from the cache.
LEMMA PropsStats ==
  ASSUME NEW m
  PROVE  LET st == props_stats(m)
         IN  /\ DOMAIN st = StatsFields
             /\ st.model = m.props.model
             /\ st.reconnecting = FALSE /\ st.slots_available = FALSE
             /\ st.strata_phase = None /\ st.busy_slots = 0
BY DEF props_stats, NoStats, StatsFields

\* The fallback to the local process changes the speculative settings only.
LEMMA FallbackStats ==
  ASSUME NEW cache, NEW stats, NEW local, DOMAIN stats = StatsFields
  PROVE  LET st == apply_local_spec_fallback(cache, stats, local)
         IN  /\ DOMAIN st = StatsFields
             /\ \A f \in StatsFields \ {"spec_enabled", "spec_is_mtp", "spec_n_max"} :
                  st[f] = stats[f]
BY DEF apply_local_spec_fallback, StatsFields

\* metrics_stats: the error decides whether the metrics are available, the
\* counters are copied, the rest stays.
LEMMA MetricsStats ==
  ASSUME NEW stats, NEW parsed, NEW error, DOMAIN stats = StatsFields
  PROVE  LET st == metrics_stats(stats, parsed, error)
         IN  /\ DOMAIN st = StatsFields
             /\ st.error = error
             /\ st.metrics_available = (error = None)
             /\ st.active_requests = parsed.samples.active
             /\ st.deferred_requests = parsed.samples.deferred
             /\ \A f \in {"model", "reconnecting", "slots_available", "strata_phase",
                          "busy_slots", "rate", "spec_is_mtp", "spec_n_max"} :
                  st[f] = stats[f]
BY DEF metrics_stats, StatsFields

\* The context row of the statistics is that of the slot that context_slot chose.
ContextFrom(stats, slots) ==
  LET chosen == context_slot(slots)
  IN  /\ stats.context_used = IF chosen = None THEN None ELSE chosen.used
      /\ stats.context_slot_id = IF chosen = None THEN None ELSE chosen.id
      /\ chosen = None \/ chosen.n_ctx = 0 \/ stats.context_size = chosen.n_ctx

\* What the statistics st have of a slot array, and still have of stats.
SlotsIn(st, stats, slots) ==
  /\ DOMAIN st = StatsFields
  /\ st.slots_available = TRUE
  /\ ContextFrom(st, slots)
  /\ st.busy_slots = Cardinality({i \in DOMAIN slots : slots[i].busy})
  /\ \A f \in {"model", "reconnecting", "metrics_available", "strata_phase",
               "rate", "error", "active_requests", "deferred_requests"} :
       st[f] = stats[f]

\* apply_slots_json: the busy slots are counted and the context row is taken.
LEMMA SlotsStats ==
  ASSUME NEW stats, NEW slots, DOMAIN stats = StatsFields
  PROVE  SlotsIn(apply_slots_json(stats, slots), stats, slots)
BY DEF apply_slots_json, ContextFrom, StatsFields, SlotsIn

\* What `sample` returns, field by field, as far as the theorems read it.
Sampled(s, m, answers) ==
  LET parsed == parsed_answer(answers.metrics)
      error == metrics_error(answers.metrics, parsed)
      ok == answers.slots.outcome = "ok"
  IN  /\ DOMAIN s.stats = StatsFields
      /\ s.stats.model = m.props.model
      /\ s.stats.reconnecting = FALSE
      /\ s.stats.error = error
      /\ s.stats.metrics_available = (error = None)
      /\ s.stats.slots_available = ok
      /\ s.stats.connected = (s.stats.metrics_available \/ s.stats.slots_available)
      /\ s.stats.active_requests = parsed.samples.active
      /\ s.stats.deferred_requests = parsed.samples.deferred
      /\ s.stats.strata_phase = IF parsed.format = "strata" THEN parsed.live.phase ELSE None
      /\ ok => s.stats.busy_slots =
                 Cardinality({i \in DOMAIN answers.slots.slots : answers.slots.slots[i].busy})
      /\ ok => ContextFrom(s.stats, answers.slots.slots)
      /\ DOMAIN s.monitor = MonitorFields
      /\ s.monitor.props = m.props
      /\ s.monitor.props_age = m.props_age
      /\ s.monitor.props_dirty = m.props_dirty
      /\ ok => s.monitor.previous_slots =
                 [age |-> 0, slots |-> answers.slots.slots, truth |-> answers.slots.truth]

PropsOf(s, m, parsed) ==
  /\ DOMAIN s = ChainFields
  /\ s.monitor = m /\ s.parsed = parsed
  /\ DOMAIN s.stats = StatsFields
  /\ s.stats.model = m.props.model
  /\ s.stats.reconnecting = FALSE /\ s.stats.slots_available = FALSE
  /\ s.stats.strata_phase = None

\* with_props
LEMMA PropsPart ==
  ASSUME NEW m, NEW parsed
  PROVE  PropsOf(with_props(m, parsed), m, parsed)
<1> DEFINE s == with_props(m, parsed)
<1>1. /\ DOMAIN s = ChainFields
      /\ s.monitor = m /\ s.parsed = parsed /\ s.rate = None
      /\ s.stats = IF m.local_spec = None THEN props_stats(m)
                   ELSE apply_local_spec_fallback(m.props, props_stats(m), m.local_spec)
  BY DEF with_props, ChainFields
<1> HIDE DEF s
<1> DEFINE st == props_stats(m)
<1>2. /\ DOMAIN st = StatsFields
      /\ st.model = m.props.model
      /\ st.reconnecting = FALSE /\ st.slots_available = FALSE
      /\ st.strata_phase = None /\ st.busy_slots = 0
  BY PropsStats
<1> HIDE DEF st
<1> DEFINE fb == apply_local_spec_fallback(m.props, st, m.local_spec)
<1>3. /\ DOMAIN fb = StatsFields
      /\ \A f \in StatsFields \ {"spec_enabled", "spec_is_mtp", "spec_n_max"} : fb[f] = st[f]
  BY <1>2, FallbackStats
<1>4. s.stats = IF m.local_spec = None THEN st ELSE fb
  BY <1>1 DEF st
<1> HIDE DEF fb
<1>5. /\ fb.model = st.model /\ fb.reconnecting = st.reconnecting
      /\ fb.slots_available = st.slots_available
      /\ fb.strata_phase = st.strata_phase /\ fb.busy_slots = st.busy_slots
  BY <1>3 DEF StatsFields
<1>6. /\ DOMAIN s.stats = StatsFields
      /\ s.stats.model = m.props.model
      /\ s.stats.reconnecting = FALSE /\ s.stats.slots_available = FALSE
      /\ s.stats.strata_phase = None /\ s.stats.busy_slots = 0
  BY <1>2, <1>3, <1>4, <1>5
<1> QED
  BY <1>1, <1>6 DEF s, PropsOf

\* What the chain value t has of the answers, and still has of s.
DescribedBy(t, s, answers) ==
  LET error == metrics_error(answers.metrics, s.parsed)
      ok == answers.slots.outcome = "ok"
  IN  /\ DOMAIN t = ChainFields /\ DOMAIN t.stats = StatsFields
      /\ DOMAIN t.monitor = MonitorFields
      /\ t.parsed = s.parsed
      /\ t.monitor = with_format(s.monitor, s.parsed)
      /\ t.stats.model = s.stats.model
      /\ t.stats.reconnecting = FALSE
      /\ t.stats.error = error
      /\ t.stats.metrics_available = (error = None)
      /\ t.stats.slots_available = ok
      /\ t.stats.connected = (t.stats.metrics_available \/ t.stats.slots_available)
      /\ t.stats.active_requests = s.parsed.samples.active
      /\ t.stats.deferred_requests = s.parsed.samples.deferred
      /\ t.stats.strata_phase = s.stats.strata_phase
      /\ ok => t.stats.busy_slots =
                 Cardinality({i \in DOMAIN answers.slots.slots : answers.slots.slots[i].busy})
      /\ ok => ContextFrom(t.stats, answers.slots.slots)

\* with_metrics, with_slots and with_connection
LEMMA DescribedPart ==
  ASSUME NEW s, DOMAIN s = ChainFields, DOMAIN s.stats = StatsFields,
         DOMAIN s.monitor = MonitorFields,
         s.stats.slots_available = FALSE, s.stats.reconnecting = FALSE, NEW answers
  PROVE  DescribedBy(described(s, answers), s, answers)
<1> DEFINE error == metrics_error(answers.metrics, s.parsed)
           a == with_metrics(s, error)
           b == with_slots(a, answers.slots)
           t == with_connection(b)
           ok == answers.slots.outcome = "ok"
           busy == Cardinality({i \in DOMAIN answers.slots.slots : answers.slots.slots[i].busy})
<1> HIDE DEF error, busy
<1>1. /\ DOMAIN a = ChainFields /\ a.parsed = s.parsed /\ a.monitor = s.monitor
      /\ a.stats = metrics_stats(s.stats, s.parsed, error)
  BY DEF with_metrics, ChainFields
<1>2. /\ DOMAIN a.stats = StatsFields
      /\ a.stats.error = error
      /\ a.stats.metrics_available = (error = None)
      /\ a.stats.active_requests = s.parsed.samples.active
      /\ a.stats.deferred_requests = s.parsed.samples.deferred
      /\ a.stats.model = s.stats.model /\ a.stats.reconnecting = FALSE
      /\ a.stats.slots_available = FALSE /\ a.stats.strata_phase = s.stats.strata_phase
  BY <1>1, MetricsStats
<1> HIDE DEF a
<1>3. /\ DOMAIN b = ChainFields /\ b.parsed = s.parsed /\ b.monitor = s.monitor
      /\ b.stats = IF ok THEN apply_slots_json(a.stats, answers.slots.slots) ELSE a.stats
  BY <1>1 DEF with_slots, ChainFields
<1>4. /\ DOMAIN b.stats = StatsFields
      /\ b.stats.error = error
      /\ b.stats.metrics_available = (error = None)
      /\ b.stats.active_requests = s.parsed.samples.active
      /\ b.stats.deferred_requests = s.parsed.samples.deferred
      /\ b.stats.model = s.stats.model /\ b.stats.reconnecting = FALSE
      /\ b.stats.slots_available = ok
      /\ b.stats.strata_phase = s.stats.strata_phase
      /\ ok => b.stats.busy_slots = busy
      /\ ok => ContextFrom(b.stats, answers.slots.slots)
  <2>1. CASE ok
    <3> DEFINE st == apply_slots_json(a.stats, answers.slots.slots)
    <3>1. /\ DOMAIN st = StatsFields
          /\ st.slots_available = TRUE
          /\ st.busy_slots = busy
          /\ ContextFrom(st, answers.slots.slots)
          /\ \A f \in {"model", "reconnecting", "metrics_available", "strata_phase",
                       "rate", "error", "active_requests", "deferred_requests"} :
               st[f] = a.stats[f]
      <4>1. SlotsIn(st, a.stats, answers.slots.slots)
        BY <1>2, SlotsStats
      <4> HIDE DEF st
      <4> QED
        BY <4>1 DEF busy, SlotsIn
    <3> HIDE DEF st
    <3>2. b.stats = st
      BY <1>3, <2>1 DEF st
    <3>3. st.slots_available = ok
      BY <2>1, <3>1
    <3> HIDE DEF ok
    <3>4. /\ st.error = error /\ st.metrics_available = (error = None)
          /\ st.active_requests = s.parsed.samples.active
          /\ st.deferred_requests = s.parsed.samples.deferred
          /\ st.model = s.stats.model /\ st.reconnecting = FALSE
          /\ st.strata_phase = s.stats.strata_phase
      BY <1>2, <3>1
    <3> QED
      BY <3>1, <3>2, <3>3, <3>4
  <2>2. CASE ~ok
    BY <1>2, <1>3, <2>2
  <2> QED
    BY <2>1, <2>2
<1> HIDE DEF b
<1>5. /\ DOMAIN t = ChainFields /\ t.parsed = s.parsed
      /\ t.monitor = with_format(s.monitor, s.parsed)
      /\ t.stats = [b.stats EXCEPT !.connected = b.stats.metrics_available \/ b.stats.slots_available]
  BY <1>3 DEF with_connection, ChainFields
<1>6. DOMAIN t.monitor = MonitorFields
  BY <1>5 DEF with_format
<1> HIDE DEF t
<1>7. /\ DOMAIN t.stats = StatsFields
      /\ \A f \in StatsFields \ {"connected"} : t.stats[f] = b.stats[f]
      /\ t.stats.connected = (b.stats.metrics_available \/ b.stats.slots_available)
  BY <1>4, <1>5 DEF StatsFields
<1>8. /\ t.stats.error = error
      /\ t.stats.metrics_available = (error = None)
      /\ t.stats.active_requests = s.parsed.samples.active
      /\ t.stats.deferred_requests = s.parsed.samples.deferred
      /\ t.stats.model = s.stats.model /\ t.stats.reconnecting = FALSE
      /\ t.stats.slots_available = ok
      /\ t.stats.strata_phase = s.stats.strata_phase
      /\ ok => t.stats.busy_slots = busy
  BY <1>4, <1>7 DEF StatsFields
<1>9. t.stats.connected = (t.stats.metrics_available \/ t.stats.slots_available)
  BY <1>4, <1>7, <1>8
<1>10. ok => ContextFrom(t.stats, answers.slots.slots)
  <2>1. /\ t.stats.context_used = b.stats.context_used
        /\ t.stats.context_slot_id = b.stats.context_slot_id
        /\ t.stats.context_size = b.stats.context_size
    BY <1>7 DEF StatsFields
  <2> QED
    BY <1>4, <2>1 DEF ContextFrom
<1>11. t = described(s, answers)
  BY DEF t, b, a, error, described
<1>12. DescribedBy(t, s, answers)
  BY <1>5, <1>6, <1>7, <1>8, <1>9, <1>10 DEF error, busy, DescribedBy
<1> QED
  BY <1>11, <1>12

\* The statistics that the counters do not touch.
CounterFields == {"rate", "spec_acceptance"}

\* with_counters
LEMMA CountersPart ==
  ASSUME NEW s, DOMAIN s = ChainFields, DOMAIN s.stats = StatsFields,
         DOMAIN s.monitor = MonitorFields, NEW answer
  PROVE  LET t == with_counters(s, answer)
         IN  /\ DOMAIN t = ChainFields /\ DOMAIN t.stats = StatsFields
             /\ DOMAIN t.monitor = MonitorFields
             /\ t.parsed = s.parsed
             /\ \A f \in StatsFields \ CounterFields : t.stats[f] = s.stats[f]
             /\ t.monitor.props = s.monitor.props /\ t.monitor.props_age = s.monitor.props_age
             /\ t.monitor.props_dirty = s.monitor.props_dirty
<1> DEFINE u == update_metric_counters(s.monitor, s.stats, answer.truth)
           t == with_counters(s, answer)
<1>1. /\ DOMAIN u.monitor = MonitorFields
      /\ u.monitor.props = s.monitor.props /\ u.monitor.props_age = s.monitor.props_age
      /\ u.monitor.props_dirty = s.monitor.props_dirty
  BY DEF update_metric_counters, MonitorFields
<1> HIDE DEF u
<1>2. CASE s.stats.metrics_available
  <2>1. t = counted(s, u)
    BY <1>2 DEF with_counters, u
  <2> HIDE DEF t
  <2>2. /\ DOMAIN t = ChainFields /\ t.parsed = s.parsed /\ t.monitor = u.monitor
        /\ t.stats = [s.stats EXCEPT !.spec_acceptance = u.acceptance]
    BY <2>1 DEF counted, ChainFields
  <2>3. DOMAIN t.stats = StatsFields /\ \A f \in StatsFields \ CounterFields : t.stats[f] = s.stats[f]
    BY <2>2 DEF StatsFields, CounterFields
  <2> QED
    BY <1>1, <2>2, <2>3 DEF t
<1>3. CASE ~s.stats.metrics_available
  <2>1. t = [s EXCEPT !.monitor = without_baseline(s.monitor)]
    BY <1>3 DEF with_counters
  <2> HIDE DEF t
  <2>2. /\ DOMAIN t = ChainFields /\ t.parsed = s.parsed /\ t.stats = s.stats
        /\ t.monitor = without_baseline(s.monitor)
    BY <2>1 DEF ChainFields
  <2>3. /\ DOMAIN t.monitor = MonitorFields
        /\ t.monitor.props = s.monitor.props /\ t.monitor.props_age = s.monitor.props_age
        /\ t.monitor.props_dirty = s.monitor.props_dirty
    BY <2>2 DEF without_baseline, MonitorFields
  <2> QED
    BY <2>2, <2>3 DEF t
<1> QED
  BY <1>2, <1>3

SlotsCounted(t, s, answer) ==
  /\ DOMAIN t = ChainFields /\ DOMAIN t.stats = StatsFields
  /\ DOMAIN t.monitor = MonitorFields
  /\ t.parsed = s.parsed
  /\ \A f \in StatsFields \ CounterFields : t.stats[f] = s.stats[f]
  /\ t.monitor.props = s.monitor.props /\ t.monitor.props_age = s.monitor.props_age
  /\ t.monitor.props_dirty = s.monitor.props_dirty
  /\ answer.outcome = "ok" =>
       t.monitor.previous_slots = [age |-> 0, slots |-> answer.slots, truth |-> answer.truth]

\* with_slot_counters
LEMMA SlotCountersPart ==
  ASSUME NEW s, DOMAIN s = ChainFields, DOMAIN s.stats = StatsFields,
         DOMAIN s.monitor = MonitorFields, NEW answer
  PROVE  SlotsCounted(with_slot_counters(s, answer), s, answer)
<1> DEFINE u == update_live_slot_throughput(s.monitor, answer.slots, answer.truth)
           t == with_slot_counters(s, answer)
<1>1. /\ DOMAIN u.monitor = MonitorFields
      /\ u.monitor.props = s.monitor.props /\ u.monitor.props_age = s.monitor.props_age
      /\ u.monitor.props_dirty = s.monitor.props_dirty
      /\ u.monitor.previous_slots = [age |-> 0, slots |-> answer.slots, truth |-> answer.truth]
  BY DEF update_live_slot_throughput, MonitorFields
<1> HIDE DEF u
<1>2. CASE answer.outcome = "ok"
  <2> DEFINE rate == choose_live_throughput(u.rate, s.rate)
  <2>1. t = [s EXCEPT !.monitor = u.monitor, !.stats.rate = rate]
    BY <1>2 DEF with_slot_counters, slot_counted, u
  <2> HIDE DEF t, rate
  <2>2. /\ DOMAIN t = ChainFields /\ t.parsed = s.parsed /\ t.monitor = u.monitor
        /\ t.stats = [s.stats EXCEPT !.rate = rate]
    BY <2>1 DEF ChainFields
  <2>3. DOMAIN t.stats = StatsFields /\ \A f \in StatsFields \ CounterFields : t.stats[f] = s.stats[f]
    BY <2>2 DEF StatsFields, CounterFields
  <2> QED
    BY <1>1, <2>2, <2>3 DEF t, SlotsCounted
<1>3. CASE answer.outcome # "ok"
  <2>1. t = [s EXCEPT !.monitor = without_slots(s.monitor), !.stats.rate = s.rate]
    BY <1>3 DEF with_slot_counters
  <2> HIDE DEF t
  <2>2. /\ DOMAIN t = ChainFields /\ t.parsed = s.parsed
        /\ t.stats = [s.stats EXCEPT !.rate = s.rate]
        /\ t.monitor = without_slots(s.monitor)
    BY <2>1 DEF ChainFields
  <2>3. /\ DOMAIN t.monitor = MonitorFields
        /\ t.monitor.props = s.monitor.props /\ t.monitor.props_age = s.monitor.props_age
        /\ t.monitor.props_dirty = s.monitor.props_dirty
    BY <2>2 DEF without_slots, MonitorFields
  <2>4. DOMAIN t.stats = StatsFields /\ \A f \in StatsFields \ CounterFields : t.stats[f] = s.stats[f]
    BY <2>2 DEF StatsFields, CounterFields
  <2> QED
    BY <1>3, <2>2, <2>3, <2>4 DEF t, SlotsCounted
<1> QED
  BY <1>2, <1>3

\* with_strata
LEMMA StrataPart ==
  ASSUME NEW s, DOMAIN s = ChainFields, DOMAIN s.stats = StatsFields,
         s.stats.strata_phase = None
  PROVE  LET t == with_strata(s)
         IN  /\ t.monitor = s.monitor
             /\ DOMAIN t.stats = StatsFields
             /\ t.stats.strata_phase = IF s.parsed.format = "strata" THEN s.parsed.live.phase ELSE None
             /\ \A f \in StatsFields \ {"rate", "strata_phase", "request_generated_tokens"} :
                  t.stats[f] = s.stats[f]
<1> DEFINE t == with_strata(s)
<1>1. CASE s.parsed.format = "strata"
  <2> DEFINE st == strata_stats(s.stats, s.parsed.live)
  <2>1. /\ DOMAIN st = StatsFields /\ st.strata_phase = s.parsed.live.phase
        /\ \A f \in StatsFields \ {"rate", "strata_phase", "request_generated_tokens"} :
             st[f] = s.stats[f]
    BY DEF strata_stats, StatsFields
  <2> HIDE DEF st
  <2>2. t.monitor = s.monitor /\ t.stats = st
    BY <1>1 DEF with_strata, ChainFields, st
  <2> QED
    BY <1>1, <2>1, <2>2
<1>2. CASE s.parsed.format # "strata"
  BY <1>2 DEF with_strata
<1> QED
  BY <1>1, <1>2

\* /props and the scan of the local processes leave the rest of the monitor alone.
LEMMA AskedMonitor ==
  ASSUME DOMAIN monitor = MonitorFields, NEW answers, NEW processes
  PROVE  LET m == local_spec_config(asked_props(answers), processes)
             ok == "props" \in DOMAIN answers /\ answers.props.outcome = "ok"
         IN  /\ DOMAIN m = MonitorFields
             /\ m.props = IF ok THEN apply_props(monitor.props, answers.props.props)
                          ELSE monitor.props
             /\ m.props_age = IF ok THEN 0 ELSE monitor.props_age
             /\ ~ok /\ ~("props" \in DOMAIN answers) => m.props_dirty = monitor.props_dirty
<1> DEFINE ok == "props" \in DOMAIN answers /\ answers.props.outcome = "ok"
           n == asked_props(answers)
           m == local_spec_config(n, processes)
<1>1. /\ DOMAIN n = MonitorFields
      /\ n.props = IF ok THEN apply_props(monitor.props, answers.props.props) ELSE monitor.props
      /\ n.props_age = IF ok THEN 0 ELSE monitor.props_age
      /\ "props" \notin DOMAIN answers => n.props_dirty = monitor.props_dirty
  BY DEF asked_props, apply_props_result, MonitorFields
<1> HIDE DEF n
<1>2. /\ DOMAIN m = MonitorFields /\ m.props = n.props /\ m.props_age = n.props_age
      /\ m.props_dirty = n.props_dirty
  BY <1>1 DEF local_spec_config, MonitorFields
<1> HIDE DEF m
<1> QED
  BY <1>1, <1>2 DEF m, n

\* All of them.
LEMMA SampleIs ==
  ASSUME DOMAIN monitor = MonitorFields, NEW answers, NEW processes
  PROVE  Sampled(sample(answers, processes),
                 local_spec_config(asked_props(answers), processes), answers)
<1> DEFINE m == local_spec_config(asked_props(answers), processes)
           parsed == parsed_answer(answers.metrics)
           error == metrics_error(answers.metrics, parsed)
           ok == answers.slots.outcome = "ok"
           busy == Cardinality({i \in DOMAIN answers.slots.slots : answers.slots.slots[i].busy})
           baseline == [age |-> 0, slots |-> answers.slots.slots, truth |-> answers.slots.truth]
           a == with_props(m, parsed)
           b == described(a, answers)
           c == with_counters(b, answers.metrics)
           d == with_slot_counters(c, answers.slots)
           e == with_strata(d)
<1>0. DOMAIN m = MonitorFields
  BY AskedMonitor
<1> HIDE DEF m, parsed, error, busy, baseline
<1>1. PropsOf(a, m, parsed)
  BY PropsPart
<1> HIDE DEF a
<1>2. /\ DOMAIN b = ChainFields /\ DOMAIN b.stats = StatsFields
      /\ DOMAIN b.monitor = MonitorFields
      /\ b.parsed = parsed
      /\ b.monitor = with_format(m, parsed)
      /\ b.stats.model = m.props.model
      /\ b.stats.reconnecting = FALSE
      /\ b.stats.error = error
      /\ b.stats.metrics_available = (error = None)
      /\ b.stats.slots_available = ok
      /\ b.stats.connected = (b.stats.metrics_available \/ b.stats.slots_available)
      /\ b.stats.active_requests = parsed.samples.active
      /\ b.stats.deferred_requests = parsed.samples.deferred
      /\ b.stats.strata_phase = None
      /\ ok => b.stats.busy_slots = busy
      /\ ok => ContextFrom(b.stats, answers.slots.slots)
  <2>1. DescribedBy(b, a, answers)
    BY <1>0, <1>1, DescribedPart DEF PropsOf
  <2> HIDE DEF b
  <2> QED
    BY <1>1, <2>1 DEF error, busy, PropsOf, DescribedBy
<1>3. /\ b.monitor.props = m.props /\ b.monitor.props_age = m.props_age
      /\ b.monitor.props_dirty = m.props_dirty
  BY <1>0, <1>2 DEF with_format, MonitorFields
<1> HIDE DEF b
<1>4. /\ DOMAIN c = ChainFields /\ DOMAIN c.stats = StatsFields
      /\ DOMAIN c.monitor = MonitorFields
      /\ c.parsed = parsed
      /\ \A f \in StatsFields \ CounterFields : c.stats[f] = b.stats[f]
      /\ c.monitor.props = m.props /\ c.monitor.props_age = m.props_age
      /\ c.monitor.props_dirty = m.props_dirty
  BY <1>2, <1>3, CountersPart
<1> HIDE DEF c
<1>5. /\ DOMAIN d = ChainFields /\ DOMAIN d.stats = StatsFields
      /\ DOMAIN d.monitor = MonitorFields
      /\ d.parsed = parsed
      /\ \A f \in StatsFields \ CounterFields : d.stats[f] = c.stats[f]
      /\ d.monitor.props = m.props /\ d.monitor.props_age = m.props_age
      /\ d.monitor.props_dirty = m.props_dirty
      /\ ok => d.monitor.previous_slots = baseline
  <2>1. SlotsCounted(d, c, answers.slots)
    BY <1>4, SlotCountersPart
  <2> HIDE DEF d
  <2> QED
    BY <1>4, <2>1 DEF SlotsCounted, baseline
<1> HIDE DEF d
<1>6. d.stats.strata_phase = None
  BY <1>2, <1>4, <1>5 DEF StatsFields, CounterFields
<1>7. /\ e.monitor = d.monitor
      /\ DOMAIN e.stats = StatsFields
      /\ e.stats.strata_phase = IF parsed.format = "strata" THEN parsed.live.phase ELSE None
      /\ \A f \in StatsFields \ {"rate", "strata_phase", "request_generated_tokens"} :
           e.stats[f] = d.stats[f]
  BY <1>5, <1>6, StrataPart
<1> HIDE DEF e
<1>8. \A f \in {"model", "reconnecting", "error", "metrics_available", "slots_available",
                "connected", "active_requests", "deferred_requests", "busy_slots",
                "context_used", "context_slot_id", "context_size"} :
        e.stats[f] = b.stats[f]
  BY <1>4, <1>5, <1>7 DEF StatsFields, CounterFields
<1>9. /\ e.stats.model = m.props.model /\ e.stats.reconnecting = FALSE /\ e.stats.error = error
      /\ e.stats.metrics_available = (error = None) /\ e.stats.slots_available = ok
      /\ e.stats.active_requests = parsed.samples.active
      /\ e.stats.deferred_requests = parsed.samples.deferred
      /\ ok => e.stats.busy_slots = busy
  BY <1>2, <1>8
<1>10. e.stats.connected = (e.stats.metrics_available \/ e.stats.slots_available)
  BY <1>2, <1>8
<1>11. ok => e.monitor.previous_slots = baseline
  BY <1>5, <1>7
<1>12. e = sample(answers, processes)
  BY DEF sample, e, d, c, b, a, m, parsed
<1>13. ok => ContextFrom(e.stats, answers.slots.slots)
  <2>1. /\ e.stats.context_used = b.stats.context_used
        /\ e.stats.context_slot_id = b.stats.context_slot_id
        /\ e.stats.context_size = b.stats.context_size
    BY <1>8
  <2> QED
    BY <1>2, <2>1 DEF ContextFrom
<1>14. Sampled(e, m, answers)
  BY <1>5, <1>7, <1>9, <1>10, <1>11, <1>13 DEF Sampled, parsed, error, busy, baseline
<1> QED
  BY <1>12, <1>14 DEF m

-----------------------------------------------------------------------------
(* The inductive invariant.                                                *)

PollFields == {"stage", "grace", "age", "steady", "asked", "answers"}
PropsFields ==
  {"model", "context_size", "spec_enabled", "spec_enabled_known", "spec_is_mtp",
   "spec_named_type", "spec_n_max", "spec_n_max_known"}
ServerFields ==
  {"up", "run", "format", "model", "generated", "drafts", "accepted", "slots", "reports_tasks"}

MonitorTypes ==
  /\ scenario \in Scenarios
  /\ DOMAIN server = ServerFields
  /\ silent \in Nat /\ steady \in Nat
  /\ DOMAIN monitor = MonitorFields
  /\ DOMAIN monitor.props = PropsFields
  /\ monitor.props_age \in Nat \union {None}

PollIsOf(p) ==
  /\ DOMAIN p = PollFields
  /\ p.stage = "asking"
  /\ p.grace \in Graces
  /\ p.age \in Nat /\ p.age <= REQUEST_TIMEOUT
  /\ p.asked \subseteq Endpoints /\ {"metrics", "slots"} \subseteq p.asked
  /\ DOMAIN p.answers \subseteq p.asked

PollOK == poll = NoPoll \/ PollIsOf(poll)

\* An answer with data is no older than the poll that asked for it.
AnsweredLately ==
  poll.stage = "asking" =>
    \A e \in DOMAIN poll.answers : poll.answers[e].outcome = "ok" => silent <= poll.age

\* The last connected sample is at most one poll younger than the last answer, as
\* long as its age is counted.
GoodIsRecent ==
  last_good # None =>
    /\ DOMAIN last_good = {"stats", "age"}
    /\ DOMAIN last_good.stats = StatsFields
    /\ last_good.stats.connected = TRUE
    /\ last_good.age \in Nat
    /\ last_good.age <= MaxGrace => silent <= last_good.age + REQUEST_TIMEOUT

HeldInv == MonitorTypes /\ PollOK /\ AnsweredLately /\ GoodIsRecent

\* No grace is longer than MaxGrace, which is one of them.
LEMMA MaxGraceIs ==
  MaxGrace \in Graces /\ MaxGrace \in Nat /\ \A grace \in Graces : grace <= MaxGrace
<1> DEFINE IsMax(x) == \A y \in Graces : x >= y
<1>1. \E x \in Graces : IsMax(x)
  BY TimesAssumption
<1>2. MaxGrace = CHOOSE x \in Graces : IsMax(x)
  BY DEF MaxGrace, Max
<1> HIDE DEF IsMax
<1>3. MaxGrace \in Graces /\ IsMax(MaxGrace)
  BY <1>1, <1>2
<1> QED
  BY <1>3, TimesAssumption DEF IsMax

\* At first nothing is held and no poll is under way.
LEMMA HeldInit == Init => HeldInv
<1> SUFFICES ASSUME Init PROVE HeldInv
  OBVIOUS
<1>1. MonitorTypes
  <2>1. PICK format \in Formats, model \in ModelChoices : server = FreshServer(1, format, model)
    BY DEF Init
  <2>2. DOMAIN server = ServerFields
    BY <2>1 DEF FreshServer, ServerFields
  <2>3. DOMAIN monitor = MonitorFields /\ DOMAIN monitor.props = PropsFields
        /\ monitor.props_age = None
    BY DEF Init, NewMonitor, CachedProps, MonitorFields, PropsFields
  <2> QED
    BY <2>2, <2>3, MaxGraceIs, TimesAssumption DEF Init, MonitorTypes
<1>2. PollOK
  BY DEF Init, PollOK
<1>3. AnsweredLately
  BY DEF Init, AnsweredLately, NoPoll
<1>4. GoodIsRecent
  BY DEF Init, GoodIsRecent
<1> QED
  BY <1>1, <1>2, <1>3, <1>4 DEF HeldInv

\* A step of the server, which the monitor does not see at once.
ServerStep ==
  \/ Generate
  \/ \E id \in SlotIds : Decode(id) \/ NewTask(id) \/ EndTask(id)
  \/ Restart
  \/ ChangeReachability

\* The monitor sees nothing of a step of the server, and a step that changes the
\* model or the reachability starts the count of `steady` again.
LEMMA ServerStepIs ==
  ASSUME MonitorTypes, ServerStep
  PROVE  /\ UNCHANGED <<scenario, silent, monitor, last_good, poll, polls, shown, said>>
         /\ DOMAIN server' = ServerFields
         /\ steady' = 0 \/ UNCHANGED <<steady, server.model, server.up>>
         /\ steady' \in Nat
<1> USE DEF MonitorTypes
<1>1. CASE Generate
  BY <1>1 DEF Generate, ServerFields
<1>2. ASSUME NEW id \in SlotIds, Decode(id) \/ NewTask(id) \/ EndTask(id)
      PROVE  /\ UNCHANGED <<scenario, silent, monitor, last_good, poll, polls, shown, said>>
             /\ DOMAIN server' = ServerFields
             /\ UNCHANGED <<steady, server.model, server.up>>
  BY <1>2 DEF Decode, NewTask, EndTask, ServerFields
<1>3. CASE Restart
  <2>1. PICK format \in Formats, model \in ModelChoices :
          server' = FreshServer(server.run + 1, format, model)
    BY <1>3 DEF Restart
  <2>2. DOMAIN server' = ServerFields
    BY <2>1 DEF FreshServer, ServerFields
  <2> QED
    BY <1>3, <2>2 DEF Restart
<1>4. CASE ChangeReachability
  BY <1>4 DEF ChangeReachability, ServerFields
<1> QED
  BY <1>1, <1>2, <1>3, <1>4 DEF ServerStep

\* A step of the server keeps HeldInv: the monitor is unchanged.
LEMMA HeldServer == HeldInv /\ ServerStep => HeldInv'
<1> SUFFICES ASSUME HeldInv, ServerStep PROVE HeldInv'
  OBVIOUS
<1>1. /\ UNCHANGED <<scenario, silent, monitor, last_good, poll>>
      /\ DOMAIN server' = ServerFields /\ steady' \in Nat
  BY ServerStepIs DEF HeldInv
<1> QED
  BY <1>1 DEF HeldInv, MonitorTypes, PollOK, PollIsOf, AnsweredLately, GoodIsRecent

\* A new poll has no answers and no age.
LEMMA HeldBegin == HeldInv /\ Begin => HeldInv'
<1> SUFFICES ASSUME HeldInv, Begin PROVE HeldInv'
  OBVIOUS
<1>1. UNCHANGED <<scenario, server, steady, silent, monitor, last_good>>
  BY DEF Begin, serverVars
<1>2. PICK grace \in Graces :
        poll' = [stage |-> "asking", grace |-> grace, age |-> 0, steady |-> steady,
                 asked |-> {"metrics", "slots"} \union
                           (IF props_needs_refresh THEN {"props"} ELSE {}),
                 answers |-> <<>>]
  BY MaxGraceIs DEF Begin
<1>3. PollIsOf(poll')
  BY <1>2, TimesAssumption DEF PollIsOf, PollFields, Endpoints
<1>4. DOMAIN poll'.answers = {}
  BY <1>2
<1> QED
  BY <1>1, <1>3, <1>4 DEF HeldInv, MonitorTypes, PollOK, AnsweredLately, GoodIsRecent

\* What an answer changes: it is added to those of the poll, and an answer with
\* data ends the silence.
LEMMA AnswerIs ==
  ASSUME HeldInv, NEW endpoint \in Endpoints, Answer(endpoint)
  PROVE  /\ UNCHANGED <<scenario, server, steady, monitor, last_good, shown, said>>
         /\ PollIsOf(poll)
         /\ endpoint \in poll.asked
         /\ \E answer \in Answers(endpoint) :
              /\ PollIsOf(poll')
              /\ \A f \in PollFields \ {"answers"} : poll'[f] = poll[f]
              /\ DOMAIN poll'.answers = DOMAIN poll.answers \union {endpoint}
              /\ poll'.answers[endpoint] = answer
              /\ \A e \in DOMAIN poll.answers \ {endpoint} : poll'.answers[e] = poll.answers[e]
              /\ silent' = IF answer.outcome = "ok" THEN 0 ELSE silent
<1>1. UNCHANGED <<scenario, server, steady, monitor, last_good, shown, said>>
  BY DEF Answer, serverVars
<1>2. PollIsOf(poll)
  BY DEF Answer, HeldInv, PollOK, NoPoll
<1>3. endpoint \in poll.asked
  BY <1>2 DEF Answer, NextJoined, PollIsOf, Endpoints
<1>4. PICK answer \in Answers(endpoint) :
        /\ poll' = [poll EXCEPT !.answers = [e \in DOMAIN poll.answers \union {endpoint} |->
                                               IF e = endpoint THEN answer ELSE poll.answers[e]]]
        /\ silent' = IF answer.outcome = "ok" THEN 0 ELSE silent
  BY DEF Answer
<1> DEFINE now_answers == [e \in DOMAIN poll.answers \union {endpoint} |->
                             IF e = endpoint THEN answer ELSE poll.answers[e]]
<1>5. /\ DOMAIN now_answers = DOMAIN poll.answers \union {endpoint}
      /\ now_answers[endpoint] = answer
      /\ \A e \in DOMAIN poll.answers \ {endpoint} : now_answers[e] = poll.answers[e]
  OBVIOUS
<1> HIDE DEF now_answers
<1>6. poll' = [poll EXCEPT !.answers = now_answers]
  BY <1>4 DEF now_answers
<1>7. /\ DOMAIN poll' = PollFields /\ poll'.answers = now_answers
      /\ \A f \in PollFields \ {"answers"} : poll'[f] = poll[f]
  BY <1>2, <1>6 DEF PollIsOf, PollFields
<1>8. PollIsOf(poll')
  <2>1. /\ poll'.stage = poll.stage /\ poll'.grace = poll.grace /\ poll'.age = poll.age
        /\ poll'.asked = poll.asked
    BY <1>7 DEF PollFields
  <2> QED
    BY <1>2, <1>3, <1>5, <1>7, <2>1 DEF PollIsOf
<1> QED
  BY <1>1, <1>2, <1>3, <1>4, <1>5, <1>7, <1>8

\* An answer with data makes the silence 0, which no age is below.
LEMMA HeldAnswer ==
  ASSUME HeldInv, NEW endpoint \in Endpoints, Answer(endpoint)
  PROVE  HeldInv'
<1>1. /\ UNCHANGED <<scenario, server, steady, monitor, last_good>>
      /\ PollIsOf(poll)
  BY AnswerIs
<1>2. PICK answer \in Answers(endpoint) :
        /\ PollIsOf(poll')
        /\ \A f \in PollFields \ {"answers"} : poll'[f] = poll[f]
        /\ DOMAIN poll'.answers = DOMAIN poll.answers \union {endpoint}
        /\ poll'.answers[endpoint] = answer
        /\ \A e \in DOMAIN poll.answers \ {endpoint} : poll'.answers[e] = poll.answers[e]
        /\ silent' = IF answer.outcome = "ok" THEN 0 ELSE silent
  BY AnswerIs
<1>3. silent \in Nat /\ silent' \in Nat /\ silent' <= silent
  BY <1>2 DEF HeldInv, MonitorTypes
<1>4. poll'.age = poll.age /\ poll'.stage = "asking" /\ poll.stage = "asking"
  BY <1>1, <1>2 DEF PollFields, PollIsOf
<1>5. AnsweredLately'
  <2> SUFFICES ASSUME NEW e \in DOMAIN poll'.answers, poll'.answers[e].outcome = "ok"
               PROVE  silent' <= poll'.age
    BY DEF AnsweredLately
  <2>1. CASE e = endpoint
    BY <1>1, <1>2, <1>4, <2>1 DEF PollIsOf
  <2>2. CASE e # endpoint
    <3>1. silent <= poll.age
      BY <1>2, <1>4, <2>2 DEF HeldInv, AnsweredLately
    <3> QED
      BY <1>1, <1>3, <1>4, <3>1 DEF PollIsOf
  <2> QED
    BY <2>1, <2>2
<1>6. GoodIsRecent'
  BY <1>1, <1>3, TimesAssumption DEF HeldInv, GoodIsRecent
<1> QED
  BY <1>1, <1>2, <1>3, <1>5, <1>6 DEF HeldInv, MonitorTypes, PollOK

\* Time passes for the last answer, the sample that is held and the poll alike.
LEMMA TickIs ==
  ASSUME HeldInv, Tick
  PROVE  /\ UNCHANGED <<scenario, server, shown, said>>
         /\ DOMAIN monitor' = MonitorFields
         /\ monitor'.props = monitor.props
         /\ monitor'.props_age = older(monitor.props_age, PROPS_REFRESH)
         /\ monitor'.previous_slots = IF monitor.previous_slots = None THEN None
                                      ELSE [monitor.previous_slots EXCEPT !.age = 1]
         /\ silent' \in Nat /\ silent' <= silent + 1
         /\ steady' = IF scenario = "props" THEN older(steady, PROPS_REFRESH) ELSE steady
<1> DEFINE limit == MaxGrace + REQUEST_TIMEOUT + 1
<1>1. limit \in Nat
  BY MaxGraceIs, TimesAssumption
<1>2. silent' = older(silent, limit)
  BY DEF Tick
<1> HIDE DEF limit
<1>3. silent' \in Nat /\ silent' <= silent + 1
  BY <1>1, <1>2, NoneAssumption DEF older, HeldInv, MonitorTypes
<1>4. /\ DOMAIN monitor' = MonitorFields
      /\ monitor'.props = monitor.props
      /\ monitor'.props_age = older(monitor.props_age, PROPS_REFRESH)
      /\ monitor'.previous_slots = IF monitor.previous_slots = None THEN monitor.previous_slots
                                   ELSE [monitor.previous_slots EXCEPT !.age = 1]
  BY DEF Tick, HeldInv, MonitorTypes, MonitorFields
<1> QED
  BY <1>3, <1>4 DEF Tick

\* A tick adds at most one to the silence and exactly one to the ages it is
\* compared with, as long as those are counted.
LEMMA HeldTick == HeldInv /\ Tick => HeldInv'
<1> SUFFICES ASSUME HeldInv, Tick PROVE HeldInv'
  OBVIOUS
<1>1. /\ UNCHANGED <<scenario, server>>
      /\ DOMAIN monitor' = MonitorFields
      /\ monitor'.props = monitor.props
      /\ monitor'.props_age = older(monitor.props_age, PROPS_REFRESH)
      /\ silent' \in Nat /\ silent' <= silent + 1
      /\ steady' = IF scenario = "props" THEN older(steady, PROPS_REFRESH) ELSE steady
  BY TickIs
<1>2. monitor'.props_age \in Nat \union {None} /\ steady' \in Nat
  BY <1>1, NoneAssumption, TimesAssumption DEF older, HeldInv, MonitorTypes
<1>3. MonitorTypes'
  BY <1>1, <1>2 DEF HeldInv, MonitorTypes
<1>4. ASSUME poll.stage = "asking" PROVE PollOK' /\ AnsweredLately'
  <2>1. PollIsOf(poll) /\ poll.age < REQUEST_TIMEOUT /\ poll' = [poll EXCEPT !.age = @ + 1]
    BY <1>4 DEF Tick, HeldInv, PollOK, NoPoll
  <2>2. /\ DOMAIN poll' = PollFields /\ poll'.stage = "asking" /\ poll'.age = poll.age + 1
        /\ poll'.grace = poll.grace /\ poll'.asked = poll.asked
        /\ poll'.answers = poll.answers
    BY <2>1 DEF PollIsOf, PollFields
  <2>3. PollIsOf(poll')
    BY <2>1, <2>2, TimesAssumption DEF PollIsOf
  <2>4. AnsweredLately'
    <3> SUFFICES ASSUME NEW e \in DOMAIN poll'.answers, poll'.answers[e].outcome = "ok"
                 PROVE  silent' <= poll'.age
      BY DEF AnsweredLately
    <3>1. silent <= poll.age
      BY <1>4, <2>2 DEF HeldInv, AnsweredLately
    <3> QED
      BY <1>1, <2>1, <2>2, <3>1 DEF PollIsOf, HeldInv, MonitorTypes
  <2> QED
    BY <2>3, <2>4 DEF PollOK
<1>5. ASSUME poll.stage # "asking" PROVE PollOK' /\ AnsweredLately'
  BY <1>5 DEF Tick, HeldInv, PollOK, AnsweredLately, PollIsOf
<1>6. GoodIsRecent'
  <2>1. CASE last_good = None
    BY <2>1 DEF Tick, GoodIsRecent
  <2>2. CASE last_good # None
    <3>1. last_good' = [last_good EXCEPT !.age = older(last_good.age, MaxGrace + 1)]
      BY <2>2 DEF Tick
    <3>2. /\ DOMAIN last_good = {"stats", "age"}
          /\ DOMAIN last_good.stats = StatsFields
          /\ last_good.stats.connected = TRUE
          /\ last_good.age \in Nat
          /\ last_good.age <= MaxGrace => silent <= last_good.age + REQUEST_TIMEOUT
      BY <2>2 DEF HeldInv, GoodIsRecent
    <3>3. /\ DOMAIN last_good' = {"stats", "age"} /\ last_good'.stats = last_good.stats
          /\ last_good'.age = older(last_good.age, MaxGrace + 1)
      BY <3>1, <3>2
    <3>4. /\ last_good'.age \in Nat
          /\ last_good'.age <= MaxGrace => last_good'.age = last_good.age + 1
      BY <3>2, <3>3, MaxGraceIs, NoneAssumption DEF older
    <3>5. last_good'.age <= MaxGrace => silent' <= last_good'.age + REQUEST_TIMEOUT
      BY <1>1, <3>2, <3>4, MaxGraceIs, TimesAssumption DEF HeldInv, MonitorTypes
    <3> QED
      BY <3>2, <3>3, <3>4, <3>5 DEF GoodIsRecent
  <2> QED
    BY <2>1, <2>2
<1> QED
  BY <1>3, <1>4, <1>5, <1>6 DEF HeldInv

\* What Finish does with the sample s: it is shown and kept, or the kept one is
\* shown in its place, or it is shown as it is.
Published(s) ==
  /\ monitor' = s.monitor
  /\ \/ /\ s.stats.connected
        /\ shown' = s.stats /\ last_good' = [stats |-> s.stats, age |-> 0]
     \/ /\ ~s.stats.connected /\ ~hard_failure(s.stats)
        /\ last_good # None /\ last_good.age <= poll.grace
        /\ shown' = [last_good.stats EXCEPT !.error = None, !.reconnecting = TRUE]
        /\ last_good' = last_good
     \/ /\ ~s.stats.connected
        /\ shown' = s.stats /\ last_good' = last_good

\* The end of a poll: `sample` is built from its answers and published.
LEMMA FinishIs ==
  ASSUME HeldInv, Finish
  PROVE  /\ UNCHANGED <<scenario, server, steady, silent>>
         /\ poll' = NoPoll
         /\ PollIsOf(poll) /\ DOMAIN poll.answers = poll.asked
         /\ \E processes \in ProcessTables :
              LET s == sample(poll.answers, processes)
                  m == local_spec_config(asked_props(poll.answers), processes)
              IN  Sampled(s, m, poll.answers) /\ Published(s)
<1>1. UNCHANGED <<scenario, server, steady, silent>> /\ poll' = NoPoll
  BY DEF Finish, serverVars
<1>2. PollIsOf(poll) /\ DOMAIN poll.answers = poll.asked
  BY DEF Finish, HeldInv, PollOK, NoPoll
<1>3. PICK processes \in ProcessTables : publish(sample(poll.answers, processes))
  BY DEF Finish
<1> DEFINE s == sample(poll.answers, processes)
<1>4. Sampled(s, local_spec_config(asked_props(poll.answers), processes), poll.answers)
  BY SampleIs DEF HeldInv, MonitorTypes
<1>5. publish(s)
  BY <1>3
<1> HIDE DEF s
<1>6. Published(s)
  BY <1>5 DEF publish, stabilize_llm_sample, Published
<1> QED
  BY <1>1, <1>2, <1>4, <1>6 DEF s

\* A connected sample rests on an answer with data, and a server that says that
\* metrics are off is a hard failure.
LEMMA ConnectedByAnswer ==
  ASSUME NEW s, NEW m, NEW answers, Sampled(s, m, answers)
  PROVE  /\ s.stats.connected \in BOOLEAN
         /\ s.stats.connected => answers.metrics.outcome = "ok" \/ answers.slots.outcome = "ok"
         /\ answers.slots.outcome = "ok" => s.stats.connected
         /\ answers.metrics.outcome = "http 501" => hard_failure(s.stats)
<1> DEFINE error == metrics_error(answers.metrics, parsed_answer(answers.metrics))
           available == (error = None)
           ok == (answers.slots.outcome = "ok")
<1>1. s.stats.metrics_available = available /\ s.stats.slots_available = ok
      /\ s.stats.error = error
  BY DEF Sampled
<1>2. s.stats.connected = (available \/ ok)
  <2>1. s.stats.connected = (s.stats.metrics_available \/ s.stats.slots_available)
    BY DEF Sampled
  <2> HIDE DEF available, ok
  <2> QED
    BY <1>1, <2>1
<1>3. available => answers.metrics.outcome = "ok"
  <2>1. None # "failed" /\ None # "metrics disabled"
    BY LabelsAssumption
  <2> QED
    BY <2>1 DEF metrics_error
<1>4. answers.metrics.outcome = "http 501" => error = "metrics disabled"
  BY DEF metrics_error
<1> QED
  BY <1>1, <1>2, <1>3, <1>4 DEF hard_failure

\* A sample that is connected when a poll ends comes from a server that has
\* answered since the poll began.
LEMMA ConnectedLately ==
  ASSUME HeldInv, poll.stage = "asking", PollIsOf(poll), DOMAIN poll.answers = poll.asked,
         NEW s, NEW m, Sampled(s, m, poll.answers), s.stats.connected
  PROVE  silent <= poll.age /\ silent <= REQUEST_TIMEOUT
<1>1. poll.answers["metrics"].outcome = "ok" \/ poll.answers["slots"].outcome = "ok"
  BY ConnectedByAnswer
<1>2. "metrics" \in DOMAIN poll.answers /\ "slots" \in DOMAIN poll.answers
  BY DEF PollIsOf
<1>3. silent <= poll.age
  BY <1>1, <1>2 DEF HeldInv, AnsweredLately
<1> QED
  BY <1>3, TimesAssumption DEF HeldInv, MonitorTypes, PollIsOf

\* A sample that is kept as the last good one comes from a poll that was answered.
LEMMA HeldFinish == HeldInv /\ Finish => HeldInv'
<1> SUFFICES ASSUME HeldInv, Finish PROVE HeldInv'
  OBVIOUS
<1>1. /\ UNCHANGED <<scenario, server, steady, silent>>
      /\ poll' = NoPoll
      /\ PollIsOf(poll) /\ DOMAIN poll.answers = poll.asked
  BY FinishIs
<1>2. PICK processes \in ProcessTables :
        Sampled(sample(poll.answers, processes),
                local_spec_config(asked_props(poll.answers), processes), poll.answers)
        /\ Published(sample(poll.answers, processes))
  BY FinishIs
<1> DEFINE s == sample(poll.answers, processes)
           m == local_spec_config(asked_props(poll.answers), processes)
           ok == "props" \in DOMAIN poll.answers /\ poll.answers.props.outcome = "ok"
<1>3. /\ m.props = IF ok THEN apply_props(monitor.props, poll.answers.props.props)
                   ELSE monitor.props
      /\ m.props_age = IF ok THEN 0 ELSE monitor.props_age
  BY AskedMonitor DEF HeldInv, MonitorTypes
<1> HIDE DEF s, m, ok
<1>4. Sampled(s, m, poll.answers) /\ Published(s)
  BY <1>2 DEF s, m
<1>5. MonitorTypes'
  <2>1. DOMAIN m.props = PropsFields
    BY <1>3 DEF apply_props, with_speculation, HeldInv, MonitorTypes
  <2>2. m.props_age \in Nat \union {None}
    BY <1>3 DEF HeldInv, MonitorTypes
  <2>3. monitor' = s.monitor /\ DOMAIN s.monitor = MonitorFields
        /\ s.monitor.props = m.props /\ s.monitor.props_age = m.props_age
    BY <1>4 DEF Sampled, Published
  <2> QED
    BY <1>1, <2>1, <2>2, <2>3 DEF HeldInv, MonitorTypes
<1>6. PollOK' /\ AnsweredLately'
  BY <1>1 DEF PollOK, AnsweredLately, NoPoll
<1>7. GoodIsRecent'
  <2>1. CASE last_good' = last_good
    BY <1>1, <2>1 DEF HeldInv, GoodIsRecent
  <2>2. CASE s.stats.connected /\ last_good' = [stats |-> s.stats, age |-> 0]
    <3>1. s.stats.connected = TRUE
      BY <1>4, <2>2, ConnectedByAnswer
    <3>2. DOMAIN s.stats = StatsFields
      BY <1>4 DEF Sampled
    <3>3. silent <= REQUEST_TIMEOUT
      BY <1>1, <1>4, <2>2, ConnectedLately DEF PollIsOf
    <3>4. silent' <= 0 + REQUEST_TIMEOUT
      BY <1>1, <3>3, TimesAssumption
    <3> QED
      BY <2>2, <3>1, <3>2, <3>4 DEF GoodIsRecent
  <2> QED
    BY <1>4, <2>1, <2>2 DEF Published
<1> QED
  BY <1>5, <1>6, <1>7 DEF HeldInv

\* Every step keeps HeldInv.
LEMMA HeldNext == HeldInv /\ [Next]_vars => HeldInv'
<1> SUFFICES ASSUME HeldInv, [Next]_vars PROVE HeldInv'
  OBVIOUS
<1>1. CASE ServerStep
  BY <1>1, HeldServer
<1>2. CASE Begin
  BY <1>2, HeldBegin
<1>3. ASSUME NEW endpoint \in Endpoints, Answer(endpoint) PROVE HeldInv'
  BY <1>3, HeldAnswer
<1>4. CASE Finish
  BY <1>4, HeldFinish
<1>5. CASE Tick
  BY <1>5, HeldTick
<1>6. CASE UNCHANGED vars
  BY <1>6 DEF vars, HeldInv, MonitorTypes, PollOK, PollIsOf, AnsweredLately, GoodIsRecent
<1> QED
  BY <1>1, <1>2, <1>3, <1>4, <1>5, <1>6 DEF Next, ServerStep

\* HeldInv holds throughout.
LEMMA AlwaysHeld == MonitorSpec => []HeldInv
BY HeldInit, HeldNext, PTL DEF MonitorSpec

\* A server that does not answer is shown as reconnecting, with its last sample,
\* only if it answered within the grace and the time that a poll takes, and only
\* if it does not say that metrics are off (stabilize_llm_sample), for any grace
\* and any order of restarts, failures and late answers.
THEOREM HeldSampleSafe == MonitorSpec => HeldSampleExpires
<1> DEFINE A == Finish /\ (shown'.connected \/ shown'.reconnecting) =>
                  /\ silent <= poll.grace + REQUEST_TIMEOUT
                  /\ shown'.reconnecting => /\ shown'.connected
                                            /\ poll.answers.slots.outcome # "ok"
                                            /\ poll.answers.metrics.outcome # "http 501"
<1>1. HeldInv /\ [Next]_vars => [A]_vars
  <2> SUFFICES ASSUME HeldInv, Finish, shown'.connected \/ shown'.reconnecting
               PROVE  /\ silent <= poll.grace + REQUEST_TIMEOUT
                      /\ shown'.reconnecting => /\ shown'.connected
                                                /\ poll.answers.slots.outcome # "ok"
                                                /\ poll.answers.metrics.outcome # "http 501"
    OBVIOUS
  <2>1. PollIsOf(poll) /\ DOMAIN poll.answers = poll.asked
    BY FinishIs
  <2>2. PICK s, m : Sampled(s, m, poll.answers) /\ Published(s)
    BY FinishIs
  <2>3. poll.grace \in Nat /\ REQUEST_TIMEOUT \in Nat /\ silent \in Nat /\ poll.grace <= MaxGrace
    BY <2>1, TimesAssumption, MaxGraceIs DEF PollIsOf, HeldInv, MonitorTypes
  <2>4. s.stats.reconnecting = FALSE
    BY <2>2 DEF Sampled
  <2>5. CASE s.stats.connected /\ shown' = s.stats
    <3>1. silent <= REQUEST_TIMEOUT
      BY <2>1, <2>2, <2>5, ConnectedLately DEF PollIsOf
    <3>2. silent <= poll.grace + REQUEST_TIMEOUT
      BY <2>3, <3>1
    <3>3. ~shown'.reconnecting
      BY <2>4, <2>5
    <3> QED
      BY <3>2, <3>3
  <2>6. CASE /\ ~s.stats.connected /\ ~hard_failure(s.stats)
             /\ last_good # None /\ last_good.age <= poll.grace
             /\ shown' = [last_good.stats EXCEPT !.error = None, !.reconnecting = TRUE]
    <3>1. /\ DOMAIN last_good.stats = StatsFields
          /\ last_good.stats.connected = TRUE
          /\ last_good.age \in Nat
          /\ last_good.age <= MaxGrace => silent <= last_good.age + REQUEST_TIMEOUT
      BY <2>6 DEF HeldInv, GoodIsRecent
    <3>2. silent <= poll.grace + REQUEST_TIMEOUT
      BY <2>3, <2>6, <3>1, MaxGraceIs
    <3>3. shown'.connected = TRUE
      BY <2>6, <3>1 DEF StatsFields
    <3>4. poll.answers.slots.outcome # "ok" /\ poll.answers.metrics.outcome # "http 501"
      BY <2>2, <2>6, ConnectedByAnswer
    <3> QED
      BY <3>2, <3>3, <3>4
  <2>7. CASE ~s.stats.connected /\ shown' = s.stats
    <3>1. ~shown'.reconnecting
      BY <2>4, <2>7
    <3>2. ~shown'.connected
      BY <2>7
    <3> QED
      BY <3>1, <3>2
  <2> QED
    BY <2>2, <2>5, <2>6, <2>7 DEF Published
<1> QED
  BY <1>1, AlwaysHeld, PTL DEF MonitorSpec, HeldSampleExpires

-----------------------------------------------------------------------------
(* The cached model.                                                       *)

\* What a poll has learnt of a server that has not changed since the last tick:
\* in scenario "props" no time passes during a poll.
AnswersAreCurrent ==
  steady > 0 =>
    /\ "slots" \in DOMAIN poll.answers /\ server.up => poll.answers.slots.outcome = "ok"
    /\ "props" \in DOMAIN poll.answers =>
         /\ server.up => poll.answers.props.outcome = "ok"
         /\ poll.answers.props.outcome = "ok" => poll.answers.props.props.model = server.model

\* /props is left out only while the cache is fresh.
CacheIsFresh ==
  "props" \notin poll.asked => monitor.props_age \in Nat /\ monitor.props_age < PROPS_REFRESH

\* A cache that was fetched after the server last changed has its model.
CacheIsCurrent ==
  monitor.props_age \in Nat /\ steady > monitor.props_age => monitor.props.model = server.model

PropsInv ==
  /\ scenario # "props" => steady = 0
  /\ scenario = "props" =>
       /\ server.model \in Models
       /\ poll.stage = "asking" => AnswersAreCurrent /\ CacheIsFresh
       /\ CacheIsCurrent

\* At first there is no cache and no poll.
LEMMA PropsInit == Init => PropsInv
<1> SUFFICES ASSUME Init PROVE PropsInv
  OBVIOUS
<1>1. PICK format \in Formats, model \in ModelChoices : server = FreshServer(1, format, model)
  BY DEF Init
<1>2. server.model = model
  BY <1>1 DEF FreshServer
<1>3. scenario = "props" => server.model \in Models
  BY <1>2 DEF ModelChoices
<1>4. poll.stage # "asking"
  BY DEF Init, NoPoll
<1>5. CacheIsCurrent
  BY NoneAssumption DEF Init, NewMonitor, CacheIsCurrent
<1> QED
  BY <1>3, <1>4, <1>5 DEF Init, PropsInv

\* A step of the server that changes its model makes steady 0: nothing is claimed.
LEMMA PropsServer == HeldInv /\ PropsInv /\ ServerStep => PropsInv'
<1> SUFFICES ASSUME HeldInv, PropsInv, ServerStep PROVE PropsInv'
  OBVIOUS
<1>1. /\ UNCHANGED <<scenario, monitor, poll>>
      /\ steady' = 0 \/ UNCHANGED <<steady, server.model, server.up>>
  BY ServerStepIs DEF HeldInv
<1>2. scenario = "props" => server'.model \in Models
  <2> SUFFICES ASSUME scenario = "props" PROVE server'.model \in Models
    OBVIOUS
  <2>1. CASE Restart
    <3>1. PICK format \in Formats, model \in ModelChoices :
            server' = FreshServer(server.run + 1, format, model)
      BY <2>1 DEF Restart
    <3>2. server'.model = model
      BY <3>1 DEF FreshServer
    <3> QED
      BY <3>2 DEF ModelChoices
  <2>2. CASE ChangeReachability
    BY <2>2 DEF ChangeReachability, PropsInv, HeldInv, MonitorTypes, ServerFields
  <2> QED
    BY <2>1, <2>2 DEF ServerStep, Generate, Decode, NewTask, EndTask
<1>3. scenario' # "props" => steady' = 0
  BY <1>1 DEF PropsInv
<1>4. ASSUME scenario = "props", poll.stage = "asking" PROVE AnswersAreCurrent' /\ CacheIsFresh'
  BY <1>1, <1>4 DEF PropsInv, AnswersAreCurrent, CacheIsFresh
<1>5. ASSUME scenario = "props" PROVE CacheIsCurrent'
  BY <1>1, <1>5 DEF PropsInv, CacheIsCurrent
<1> QED
  BY <1>1, <1>2, <1>3, <1>4, <1>5 DEF PropsInv

\* /props is left out only if props_needs_refresh says so.
LEMMA PropsBegin == HeldInv /\ PropsInv /\ Begin => PropsInv'
<1> SUFFICES ASSUME HeldInv, PropsInv, Begin PROVE PropsInv'
  OBVIOUS
<1>1. UNCHANGED <<scenario, server, steady, monitor>>
  BY DEF Begin, serverVars
<1>2. PICK grace :
        poll' = [stage |-> "asking", grace |-> grace, age |-> 0, steady |-> steady,
                 asked |-> {"metrics", "slots"} \union
                           (IF props_needs_refresh THEN {"props"} ELSE {}),
                 answers |-> <<>>]
  BY DEF Begin
<1>3. DOMAIN poll'.answers = {}
  BY <1>2
<1>4. "props" \notin poll'.asked => ~props_needs_refresh
  BY <1>2
<1>5. CacheIsFresh'
  BY <1>1, <1>4, TimesAssumption, NoneAssumption
     DEF CacheIsFresh, props_needs_refresh, HeldInv, MonitorTypes
<1>6. AnswersAreCurrent'
  BY <1>3 DEF AnswersAreCurrent
<1> QED
  BY <1>1, <1>5, <1>6 DEF PropsInv, CacheIsCurrent

\* In this scenario an answer is that of the server as it is now.
LEMMA PropsAnswer ==
  ASSUME HeldInv, PropsInv, NEW endpoint \in Endpoints, Answer(endpoint)
  PROVE  PropsInv'
<1>1. /\ UNCHANGED <<scenario, server, steady, monitor>>
      /\ PollIsOf(poll)
  BY AnswerIs
<1>2. PICK answer \in Answers(endpoint) :
        /\ \A f \in PollFields \ {"answers"} : poll'[f] = poll[f]
        /\ DOMAIN poll'.answers = DOMAIN poll.answers \union {endpoint}
        /\ poll'.answers[endpoint] = answer
        /\ \A e \in DOMAIN poll.answers \ {endpoint} : poll'.answers[e] = poll.answers[e]
  BY AnswerIs
<1>3. poll'.asked = poll.asked /\ poll.stage = "asking"
  BY <1>1, <1>2 DEF PollFields, PollIsOf
<1>4. ASSUME scenario = "props" PROVE AnswersAreCurrent'
  <2>1. endpoint = "slots" /\ server.up => answer.outcome = "ok"
    <3> SUFFICES ASSUME endpoint = "slots", server.up PROVE answer.outcome = "ok"
      OBVIOUS
    <3>1. answer \in SlotsAnswers
      BY <1>2 DEF Answers
    <3> QED
      BY <1>4, <3>1 DEF SlotsAnswers
  <2>2. endpoint = "props" =>
          /\ server.up => answer.outcome = "ok"
          /\ answer.outcome = "ok" => answer.props.model = server.model
    <3> SUFFICES ASSUME endpoint = "props"
                 PROVE  /\ server.up => answer.outcome = "ok"
                        /\ answer.outcome = "ok" => answer.props.model = server.model
      OBVIOUS
    <3>1. answer \in PropsAnswers
      BY <1>2 DEF Answers
    <3>2. CASE server.up
      <4>1. PICK props \in PropsReplies :
              answer = [outcome |-> "ok", props |-> [props EXCEPT !.model = server.model]]
        BY <1>4, <3>1, <3>2 DEF PropsAnswers
      <4>2. "model" \in DOMAIN props
        BY ServersAssumption
      <4> QED
        BY <4>1, <4>2
    <3>3. CASE ~server.up
      BY <1>4, <3>1, <3>3 DEF PropsAnswers, Failure
    <3> QED
      BY <3>2, <3>3
  <2>3. ASSUME steady > 0, "slots" \in DOMAIN poll'.answers, server.up
        PROVE  poll'.answers["slots"].outcome = "ok"
    <3>1. CASE endpoint = "slots"
      BY <1>2, <2>1, <2>3, <3>1
    <3>2. CASE endpoint # "slots"
      BY <1>2, <1>3, <1>4, <2>3, <3>2 DEF PropsInv, AnswersAreCurrent
    <3> QED
      BY <3>1, <3>2
  <2>4. ASSUME steady > 0, "props" \in DOMAIN poll'.answers
        PROVE  /\ server.up => poll'.answers["props"].outcome = "ok"
               /\ poll'.answers["props"].outcome = "ok" =>
                    poll'.answers["props"].props.model = server.model
    <3>1. CASE endpoint = "props"
      BY <1>2, <2>2, <3>1
    <3>2. CASE endpoint # "props"
      BY <1>2, <1>3, <1>4, <2>4, <3>2 DEF PropsInv, AnswersAreCurrent
    <3> QED
      BY <3>1, <3>2
  <2> QED
    BY <1>1, <2>3, <2>4 DEF AnswersAreCurrent
<1>5. ASSUME scenario = "props" PROVE CacheIsFresh' /\ CacheIsCurrent'
  BY <1>1, <1>3, <1>5 DEF PropsInv, CacheIsFresh, CacheIsCurrent
<1> QED
  BY <1>1, <1>4, <1>5 DEF PropsInv

\* The cache and the server grow older together, up to PROPS_REFRESH.
LEMMA PropsTick == HeldInv /\ PropsInv /\ Tick => PropsInv'
<1> SUFFICES ASSUME HeldInv, PropsInv, Tick PROVE PropsInv'
  OBVIOUS
<1>1. /\ UNCHANGED <<scenario, server>>
      /\ monitor'.props = monitor.props
      /\ monitor'.props_age = older(monitor.props_age, PROPS_REFRESH)
      /\ steady' = IF scenario = "props" THEN older(steady, PROPS_REFRESH) ELSE steady
  BY TickIs
<1>2. ASSUME scenario = "props" PROVE poll'.stage # "asking"
  BY <1>2 DEF Tick
<1>3. ASSUME scenario = "props" PROVE CacheIsCurrent'
  <2> SUFFICES ASSUME monitor'.props_age \in Nat, steady' > monitor'.props_age
               PROVE  monitor'.props.model = server'.model
    BY DEF CacheIsCurrent
  <2> DEFINE age == monitor.props_age
  <2>1. age \in Nat /\ steady \in Nat
    BY <1>1, NoneAssumption DEF older, HeldInv, MonitorTypes
  <2>2. monitor'.props_age = IF age < PROPS_REFRESH THEN age + 1 ELSE age
    BY <1>1, <2>1, NoneAssumption DEF older
  <2>3. steady' = IF steady < PROPS_REFRESH THEN steady + 1 ELSE steady
    BY <1>1, <1>3, <2>1, NoneAssumption DEF older
  <2> HIDE DEF age
  <2>4. steady > age
    BY <2>1, <2>2, <2>3, TimesAssumption
  <2> QED
    BY <1>1, <1>3, <2>1, <2>4 DEF PropsInv, CacheIsCurrent, age
<1> QED
  BY <1>1, <1>2, <1>3 DEF PropsInv

\* A reply that names a model replaces the cached one.
LEMMA ModelApplied ==
  ASSUME NEW cache, DOMAIN cache = PropsFields, NEW props, props.model # None
  PROVE  apply_props(cache, props).model = props.model
<1> DEFINE rest == [cache EXCEPT !.context_size = or_else(props.n_ctx, @),
                                 !.model = or_else(props.model, @)]
<1>1. DOMAIN rest = PropsFields /\ rest.model = props.model
  BY DEF PropsFields, or_else
<1> HIDE DEF rest
<1>2. ASSUME NEW spec PROVE with_speculation(rest, spec).model = rest.model
  BY <1>1 DEF with_speculation, PropsFields
<1>3. apply_props(cache, props) = IF merged_config(props).present
                                  THEN with_speculation(rest, merged_config(props)) ELSE rest
  BY DEF apply_props, rest
<1> QED
  BY <1>1, <1>2, <1>3

\* A poll that ends when the server has not changed since the last tick shows its
\* model, if it asked for it or had asked since the server last changed.
LEMMA FinishModel ==
  ASSUME HeldInv, PropsInv, Finish, scenario = "props",
         NEW processes, NEW m, m = local_spec_config(asked_props(poll.answers), processes)
  PROVE  /\ m.props_age \in Nat /\ steady > m.props_age => m.props.model = server.model
         /\ steady >= PROPS_REFRESH /\ server.up => m.props.model = server.model
<1> DEFINE ok == "props" \in DOMAIN poll.answers /\ poll.answers.props.outcome = "ok"
<1>1. /\ m.props = IF ok THEN apply_props(monitor.props, poll.answers.props.props)
                   ELSE monitor.props
      /\ m.props_age = IF ok THEN 0 ELSE monitor.props_age
  BY AskedMonitor DEF HeldInv, MonitorTypes
<1>2. PollIsOf(poll) /\ DOMAIN poll.answers = poll.asked /\ poll.stage = "asking"
  BY FinishIs DEF PollIsOf
<1>3. AnswersAreCurrent /\ CacheIsFresh /\ CacheIsCurrent /\ server.model \in Models
  BY <1>2 DEF PropsInv
<1>4. ASSUME ok, steady > 0 PROVE m.props.model = server.model
  <2>1. poll.answers.props.props.model = server.model
    BY <1>3, <1>4 DEF AnswersAreCurrent
  <2>2. server.model # None
    BY <1>3, ServersAssumption
  <2> QED
    BY <1>1, <1>4, <2>1, <2>2, ModelApplied DEF HeldInv, MonitorTypes
<1>5. ASSUME ~ok, monitor.props_age \in Nat, steady > monitor.props_age
      PROVE  m.props.model = server.model
  BY <1>1, <1>3, <1>5 DEF CacheIsCurrent
<1>6. ASSUME steady >= PROPS_REFRESH, server.up, ~ok
      PROVE  monitor.props_age \in Nat /\ steady > monitor.props_age
  <2>1. steady > 0 /\ steady \in Nat
    BY <1>6, TimesAssumption DEF HeldInv, MonitorTypes
  <2>2. "props" \notin poll.asked
    BY <1>2, <1>3, <1>6, <2>1 DEF AnswersAreCurrent
  <2> QED
    BY <1>3, <1>6, <2>1, <2>2, TimesAssumption DEF CacheIsFresh
<1>7. ASSUME m.props_age \in Nat, steady > m.props_age PROVE m.props.model = server.model
  BY <1>1, <1>4, <1>5, <1>7
<1>8. ASSUME steady >= PROPS_REFRESH, server.up PROVE m.props.model = server.model
  <2>1. steady > 0
    BY <1>8, TimesAssumption DEF HeldInv, MonitorTypes
  <2> QED
    BY <1>4, <1>5, <1>6, <1>8, <2>1
<1> QED
  BY <1>7, <1>8

\* The cache after a poll has the model of a server that has not changed since.
LEMMA PropsFinish == HeldInv /\ PropsInv /\ Finish => PropsInv'
<1> SUFFICES ASSUME HeldInv, PropsInv, Finish PROVE PropsInv'
  OBVIOUS
<1>1. UNCHANGED <<scenario, server, steady>> /\ poll' = NoPoll
  BY FinishIs
<1>2. PICK processes \in ProcessTables :
        Sampled(sample(poll.answers, processes),
                local_spec_config(asked_props(poll.answers), processes), poll.answers)
        /\ Published(sample(poll.answers, processes))
  BY FinishIs
<1> DEFINE s == sample(poll.answers, processes)
           m == local_spec_config(asked_props(poll.answers), processes)
<1>3. scenario = "props" =>
        (m.props_age \in Nat /\ steady > m.props_age => m.props.model = server.model)
  BY FinishModel
<1> HIDE DEF s, m
<1>4. monitor' = s.monitor /\ s.monitor.props = m.props /\ s.monitor.props_age = m.props_age
  BY <1>2 DEF s, m, Sampled, Published
<1>5. ASSUME scenario = "props" PROVE CacheIsCurrent'
  BY <1>1, <1>3, <1>4, <1>5 DEF CacheIsCurrent
<1>6. poll'.stage # "asking"
  BY <1>1 DEF NoPoll
<1> QED
  BY <1>1, <1>5, <1>6 DEF PropsInv

\* Every step keeps PropsInv.
LEMMA PropsNext == HeldInv /\ PropsInv /\ [Next]_vars => PropsInv'
<1> SUFFICES ASSUME HeldInv, PropsInv, [Next]_vars PROVE PropsInv'
  OBVIOUS
<1>1. CASE ServerStep
  BY <1>1, PropsServer
<1>2. CASE Begin
  BY <1>2, PropsBegin
<1>3. ASSUME NEW endpoint \in Endpoints, Answer(endpoint) PROVE PropsInv'
  BY <1>3, PropsAnswer
<1>4. CASE Finish
  BY <1>4, PropsFinish
<1>5. CASE Tick
  BY <1>5, PropsTick
<1>6. CASE UNCHANGED vars
  BY <1>6 DEF vars, PropsInv, AnswersAreCurrent, CacheIsFresh, CacheIsCurrent
<1> QED
  BY <1>1, <1>2, <1>3, <1>4, <1>5, <1>6 DEF Next, ServerStep

\* PropsInv holds throughout.
LEMMA AlwaysProps == MonitorSpec => []PropsInv
BY PropsInit, PropsNext, HeldInit, HeldNext, PTL DEF MonitorSpec

\* The model on display is old by one refresh interval at most: once the server has
\* been up, unchanged, for PROPS_REFRESH, a poll publishes its model, however often
\* /props failed before (props_needs_refresh, apply_props_result).
THEOREM ModelSafe == MonitorSpec => ModelIsCurrent
<1> DEFINE A == Finish /\ poll.steady >= PROPS_REFRESH /\ steady >= PROPS_REFRESH /\ server.up =>
                  shown'.model = server.model
<1>1. HeldInv /\ PropsInv /\ [Next]_vars => [A]_vars
  <2> SUFFICES ASSUME HeldInv, PropsInv, Finish, steady >= PROPS_REFRESH, server.up
               PROVE  shown'.model = server.model
    OBVIOUS
  <2>1. PICK processes \in ProcessTables :
          Sampled(sample(poll.answers, processes),
                  local_spec_config(asked_props(poll.answers), processes), poll.answers)
          /\ Published(sample(poll.answers, processes))
    BY FinishIs
  <2> DEFINE s == sample(poll.answers, processes)
             m == local_spec_config(asked_props(poll.answers), processes)
  <2>2. steady > 0
    BY TimesAssumption DEF HeldInv, MonitorTypes
  <2>3. scenario = "props"
    BY <2>2 DEF PropsInv
  <2>4. m.props.model = server.model
    BY <2>3, FinishModel
  <2> HIDE DEF s, m
  <2>5. Sampled(s, m, poll.answers) /\ Published(s)
    BY <2>1 DEF s, m
  <2>6. poll.answers.slots.outcome = "ok"
    <3>1. PollIsOf(poll) /\ DOMAIN poll.answers = poll.asked
      BY FinishIs
    <3>2. AnswersAreCurrent
      BY <2>3, <3>1 DEF PropsInv, PollIsOf
    <3> QED
      BY <2>2, <3>1, <3>2 DEF AnswersAreCurrent, PollIsOf
  <2>7. shown' = s.stats
    BY <2>5, <2>6, ConnectedByAnswer DEF Published
  <2> QED
    BY <2>4, <2>5, <2>7 DEF Sampled
<1> QED
  BY <1>1, AlwaysHeld, AlwaysProps, PTL DEF MonitorSpec, ModelIsCurrent

-----------------------------------------------------------------------------
(* The context row.                                                        *)

\* The recursive function that defines the fold of visit over the positions of an
\* array, as an equation.
VisitSet(slots, n, f) ==
  [s \in SUBSET (1 .. n) |->
     IF s = {} THEN NoContext ELSE visit(f[s \ {Max(s)}], slots[Max(s)])]

\* It has a solution for every array.
LEMMA VisitSetExists ==
  ASSUME NEW slots
  PROVE  \A n \in Nat : \E f : f = VisitSet(slots, n, f)
<1> DEFINE S == {n \in Nat : \E f : f = VisitSet(slots, n, f)}
<1>1. 0 \in S
  <2> DEFINE g == [s \in SUBSET (1 .. 0) |-> NoContext]
  <2>1. \A s \in SUBSET (1 .. 0) : s = {}
    OBVIOUS
  <2>2. g = VisitSet(slots, 0, g)
    BY <2>1 DEF VisitSet
  <2> QED
    BY <2>2
<1>2. ASSUME NEW n \in Nat, n \in S
      PROVE  n + 1 \in S
  <2>1. PICK f : f = VisitSet(slots, n, f)
    BY <1>2
  <2> DEFINE g == [s \in SUBSET (1 .. (n + 1)) |->
                     IF n + 1 \in s THEN visit(f[s \ {n + 1}], slots[n + 1]) ELSE f[s]]
  <2>2. ASSUME NEW s \in SUBSET (1 .. (n + 1))
        PROVE  g[s] = IF s = {} THEN NoContext ELSE visit(g[s \ {Max(s)}], slots[Max(s)])
    <3>1. CASE n + 1 \in s
      <4>1. Max(s) = n + 1
        BY <3>1, MaxIs
      <4>2. s \ {n + 1} \in SUBSET (1 .. (n + 1)) /\ n + 1 \notin s \ {n + 1}
        OBVIOUS
      <4>3. g[s \ {n + 1}] = f[s \ {n + 1}]
        BY <4>2
      <4> QED
        BY <3>1, <4>1, <4>3
    <3>2. CASE n + 1 \notin s
      <4>1. s \in SUBSET (1 .. n)
        BY <3>2
      <4>2. f[s] = IF s = {} THEN NoContext ELSE visit(f[s \ {Max(s)}], slots[Max(s)])
        BY <2>1, <4>1 DEF VisitSet
      <4>3. s \ {Max(s)} \in SUBSET (1 .. (n + 1)) /\ n + 1 \notin s \ {Max(s)}
        BY <3>2
      <4>4. g[s \ {Max(s)}] = f[s \ {Max(s)}]
        BY <4>3
      <4> QED
        BY <3>2, <4>2, <4>4
    <3> QED
      BY <3>1, <3>2
  <2>3. g = VisitSet(slots, n + 1, g)
    BY <2>2 DEF VisitSet
  <2> HIDE DEF g
  <2> QED
    BY <2>3
<1> HIDE DEF S
<1>3. \A n \in Nat : n \in S
  BY <1>1, <1>2, SetInduction
<1> QED
  BY <1>3 DEF S

\* The best slots after each slot has been visited.
Visits(slots, n, g) ==
  /\ g[0] = NoContext
  /\ \A k \in 1 .. n : g[k] = visit(g[k - 1], slots[k])

\* The pass of context_slot as the code's loop.
LEMMA FoldVisits ==
  ASSUME NEW n \in Nat, NEW slots, DOMAIN slots = 1 .. n
  PROVE  \E g : Visits(slots, n, g) /\ FoldLeft(visit, NoContext, slots) = g[n]
<1> DEFINE f == CHOOSE f : f = VisitSet(slots, n, f)
<1>1. f = VisitSet(slots, n, f)
  BY VisitSetExists
<1>2. FoldLeft(visit, NoContext, slots) = f[1 .. n]
  BY DEF FoldLeft, MapThenFoldSet, VisitSet
<1> HIDE DEF f
<1> DEFINE g == [k \in 0 .. n |-> f[1 .. k]]
<1>3. g[0] = NoContext
  BY <1>1 DEF VisitSet
<1>4. ASSUME NEW k \in 1 .. n
      PROVE  g[k] = visit(g[k - 1], slots[k])
  <2>1. Max(1 .. k) = k
    <3>1. (1 .. k) \in SUBSET Nat /\ k \in 1 .. k /\ \A y \in 1 .. k : k >= y
      OBVIOUS
    <3> QED
      BY <3>1, MaxIs
  <2>2. (1 .. k) \in SUBSET (1 .. n) /\ 1 .. k # {} /\ (1 .. k) \ {k} = 1 .. (k - 1)
    OBVIOUS
  <2>3. f[1 .. k] = visit(f[(1 .. k) \ {k}], slots[k])
    BY <1>1, <2>1, <2>2 DEF VisitSet
  <2>4. g[k] = f[1 .. k] /\ g[k - 1] = f[1 .. (k - 1)]
    OBVIOUS
  <2> QED
    BY <2>2, <2>3, <2>4
<1>5. FoldLeft(visit, NoContext, slots) = g[n]
  BY <1>2
<1> HIDE DEF g
<1> QED
  BY <1>3, <1>4, <1>5 DEF Visits

\* The slot with the largest use of a set of positions, None for the empty set.
MostUsed(best, slots, set) ==
  IF set = {} THEN best = None
  ELSE \E i \in set : best = slots[i] /\ \A j \in set : slots[j].used <= slots[i].used

\* A slot of the array, or none.
OneOf(best, slots) == best = None \/ \E i \in DOMAIN slots : best = slots[i]

\* The use of a slot is a number, unless it is not reported.
UseTyped(slots) ==
  \A i \in DOMAIN slots :
    slots[i].used # None => slots[i] # None /\ slots[i].used \in Nat

\* One comparison of the loop: the slot at position k joins the set.
LEMMA BetterOf ==
  ASSUME NEW slots, UseTyped(slots), NEW k \in DOMAIN slots, NEW known \in BOOLEAN,
         known => slots[k].used # None,
         NEW set \in SUBSET DOMAIN slots, \A i \in set : slots[i].used # None,
         NEW best, MostUsed(best, slots, set)
  PROVE  MostUsed(better_of(best, slots[k], known, "used"), slots,
                  IF known THEN set \union {k} ELSE set)
<1>1. CASE ~known
  BY <1>1 DEF better_of
<1>2. CASE known
  <2>1. slots[k].used \in Nat /\ \A i \in set : slots[i].used \in Nat /\ slots[i] # None
    BY <1>2 DEF UseTyped
  <2>2. CASE set = {}
    <3>1. better_of(best, slots[k], known, "used") = slots[k]
      BY <1>2, <2>2 DEF better_of, MostUsed
    <3>2. (IF known THEN set \union {k} ELSE set) = {k}
      BY <1>2, <2>2
    <3>3. MostUsed(slots[k], slots, {k})
      BY <2>1 DEF MostUsed
    <3> QED
      BY <3>1, <3>2, <3>3
  <2>3. CASE set # {}
    <3>1. PICK i \in set : best = slots[i] /\ \A j \in set : slots[j].used <= slots[i].used
      BY <2>3 DEF MostUsed
    <3>2. better_of(best, slots[k], known, "used") =
            IF slots[k].used > slots[i].used THEN slots[k] ELSE slots[i]
      BY <1>2, <2>1, <3>1 DEF better_of
    <3>3. CASE slots[k].used > slots[i].used
      <4>1. \A j \in set \union {k} : slots[j].used <= slots[k].used
        BY <2>1, <3>1, <3>3
      <4> QED
        BY <1>2, <3>2, <3>3, <4>1 DEF MostUsed
    <3>4. CASE ~(slots[k].used > slots[i].used)
      <4>1. \A j \in set \union {k} : slots[j].used <= slots[i].used
        BY <2>1, <3>1, <3>4
      <4> QED
        BY <1>2, <3>1, <3>2, <3>4, <4>1 DEF MostUsed
    <3> QED
      BY <3>3, <3>4
  <2> QED
    BY <2>2, <2>3
<1> QED
  BY <1>1, <1>2

\* The positions among the first k whose slots report their use, and the busy ones.
Reporting(slots, k) == {i \in 1 .. k : slots[i].used # None}
BusyReporting(slots, k) == {i \in Reporting(slots, k) : slots[i].busy}

\* What the loop has found after k slots.
Found(best, slots, k) ==
  /\ MostUsed(best.any, slots, Reporting(slots, k))
  /\ MostUsed(best.busy, slots, BusyReporting(slots, k))
  /\ OneOf(best.fallback_busy, slots) /\ OneOf(best.fallback_any, slots)

\* The loop finds it, by induction over the positions.
LEMMA VisitsFind ==
  ASSUME NEW n \in Nat, NEW slots, DOMAIN slots = 1 .. n, UseTyped(slots), NEW g, Visits(slots, n, g)
  PROVE  Found(g[n], slots, n)
<1> DEFINE S == {k \in Nat : k <= n => Found(g[k], slots, k)}
<1>1. 0 \in S
  <2>1. Reporting(slots, 0) = {} /\ BusyReporting(slots, 0) = {}
    BY DEF Reporting, BusyReporting
  <2>2. Found(NoContext, slots, 0)
    BY <2>1 DEF Found, NoContext, MostUsed, OneOf
  <2> QED
    BY <2>2 DEF Visits
<1>2. ASSUME NEW k \in Nat, k \in S PROVE k + 1 \in S
  <2> SUFFICES ASSUME k + 1 <= n PROVE Found(g[k + 1], slots, k + 1)
    OBVIOUS
  <2> DEFINE best == g[k]
             slot == slots[k + 1]
             next == g[k + 1]
             reports == slot.used # None
             works == slot.used # None /\ slot.busy
             r == Reporting(slots, k)
             b == BusyReporting(slots, k)
  <2>1. Found(best, slots, k)
    BY <1>2
  <2>2. k + 1 \in 1 .. n /\ (k + 1) - 1 = k
    OBVIOUS
  <2>3. next = visit(best, slot)
    BY <2>2 DEF Visits
  <2>4. /\ next.busy = better_of(best.busy, slot, works, "used")
        /\ next.any = better_of(best.any, slot, reports, "used")
        /\ next.fallback_busy = better_of(best.fallback_busy, slot, slot.busy, "n_ctx")
        /\ next.fallback_any = better_of(best.fallback_any, slot, TRUE, "n_ctx")
    BY <2>3 DEF visit
  <2>5. r \in SUBSET DOMAIN slots /\ \A i \in r : slots[i].used # None
    BY DEF Reporting
  <2>6. b \in SUBSET DOMAIN slots /\ \A i \in b : slots[i].used # None
    BY <2>5 DEF BusyReporting
  <2>7. Reporting(slots, k + 1) = IF reports THEN r \union {k + 1} ELSE r
    BY DEF Reporting
  <2>8. BusyReporting(slots, k + 1) = IF works THEN b \union {k + 1} ELSE b
    BY DEF BusyReporting, Reporting
  <2>9. works \in BOOLEAN /\ reports \in BOOLEAN
    OBVIOUS
  <2>10. MostUsed(next.any, slots, Reporting(slots, k + 1))
    <3>1. reports => slots[k + 1].used # None
      OBVIOUS
    <3> HIDE DEF reports, r, best, next
    <3>2. MostUsed(best.any, slots, r)
      BY <2>1 DEF Found, r
    <3>3. MostUsed(better_of(best.any, slot, reports, "used"), slots,
                   IF reports THEN r \union {k + 1} ELSE r)
      BY <2>2, <2>5, <2>9, <3>1, <3>2, BetterOf
    <3> QED
      BY <2>4, <2>7, <3>3
  <2>11. MostUsed(next.busy, slots, BusyReporting(slots, k + 1))
    <3>1. works => slots[k + 1].used # None
      OBVIOUS
    <3> HIDE DEF works, b, best, next
    <3>2. MostUsed(best.busy, slots, b)
      BY <2>1 DEF Found, b
    <3>3. MostUsed(better_of(best.busy, slot, works, "used"), slots,
                   IF works THEN b \union {k + 1} ELSE b)
      BY <2>2, <2>6, <2>9, <3>1, <3>2, BetterOf
    <3> QED
      BY <2>4, <2>8, <3>3
  <2>12. OneOf(next.fallback_busy, slots) /\ OneOf(next.fallback_any, slots)
    BY <2>1, <2>2, <2>4 DEF Found, OneOf, better_of
  <2> QED
    BY <2>10, <2>11, <2>12 DEF Found
<1> HIDE DEF S
<1>3. n \in S
  BY <1>1, <1>2, SetInduction
<1> QED
  BY <1>3 DEF S

\* The context row as ContextOfOneSlot states it, for statistics and an array.
ContextRow(stats, slots) ==
  LET reporting == {i \in DOMAIN slots : slots[i].used # None}
      busy == {i \in reporting : slots[i].busy}
      eligible == IF busy # {} THEN busy ELSE reporting
  IN  IF reporting = {} THEN stats.context_used = None
      ELSE \E i \in eligible :
             /\ stats.context_used = slots[i].used
             /\ stats.context_slot_id = slots[i].id
             /\ slots[i].n_ctx > 0 => stats.context_size = slots[i].n_ctx
             /\ \A j \in eligible : slots[j].used <= slots[i].used

\* The slot that is chosen.
LEMMA ContextChosen ==
  ASSUME NEW n \in Nat, NEW slots, DOMAIN slots = 1 .. n, UseTyped(slots),
         NEW stats, ContextFrom(stats, slots)
  PROVE  ContextRow(stats, slots)
<1>1. PICK g : Visits(slots, n, g) /\ FoldLeft(visit, NoContext, slots) = g[n]
  BY FoldVisits
<1> DEFINE best == g[n]
           chosen == context_slot(slots)
           reporting == {i \in DOMAIN slots : slots[i].used # None}
           busy == {i \in reporting : slots[i].busy}
           eligible == IF busy # {} THEN busy ELSE reporting
<1>2. Found(best, slots, n)
  BY <1>1, VisitsFind
<1>3. reporting = Reporting(slots, n) /\ busy = BusyReporting(slots, n)
  BY DEF Reporting, BusyReporting
<1>4. chosen = or_else(best.busy, or_else(best.any, or_else(best.fallback_busy, best.fallback_any)))
  BY <1>1 DEF context_slot
<1> HIDE DEF best, chosen
<1>5. /\ stats.context_used = IF chosen = None THEN None ELSE chosen.used
      /\ stats.context_slot_id = IF chosen = None THEN None ELSE chosen.id
      /\ chosen = None \/ chosen.n_ctx = 0 \/ stats.context_size = chosen.n_ctx
  BY DEF ContextFrom, chosen
<1>6. MostUsed(best.any, slots, reporting) /\ MostUsed(best.busy, slots, busy)
      /\ OneOf(best.fallback_busy, slots) /\ OneOf(best.fallback_any, slots)
  BY <1>2, <1>3 DEF Found
<1>7. CASE reporting = {}
  <2>1. best.busy = None /\ best.any = None
    BY <1>6, <1>7 DEF MostUsed
  <2>2. OneOf(chosen, slots)
    BY <1>4, <1>6, <2>1 DEF or_else
  <2>3. stats.context_used = None
    BY <1>5, <1>7, <2>2 DEF OneOf
  <2> QED
    BY <1>7, <2>3 DEF ContextRow
<1>8. CASE reporting # {}
  <2>1. \E i \in eligible : chosen = slots[i] /\ \A j \in eligible : slots[j].used <= slots[i].used
    <3>1. \A i \in reporting : slots[i] # None
      BY DEF UseTyped
    <3>2. CASE busy # {}
      <4>1. PICK i \in busy : best.busy = slots[i] /\ \A j \in busy : slots[j].used <= slots[i].used
        BY <1>6, <3>2 DEF MostUsed
      <4>2. chosen = slots[i]
        BY <1>4, <3>1, <4>1 DEF or_else
      <4> QED
        BY <3>2, <4>1, <4>2
    <3>3. CASE busy = {}
      <4>1. best.busy = None
        BY <1>6, <3>3 DEF MostUsed
      <4>2. PICK i \in reporting :
              best.any = slots[i] /\ \A j \in reporting : slots[j].used <= slots[i].used
        BY <1>6, <1>8 DEF MostUsed
      <4>3. chosen = slots[i]
        BY <1>4, <3>1, <4>1, <4>2 DEF or_else
      <4> QED
        BY <3>3, <4>2, <4>3
    <3> QED
      BY <3>2, <3>3
  <2>2. PICK i \in eligible :
          chosen = slots[i] /\ \A j \in eligible : slots[j].used <= slots[i].used
    BY <2>1
  <2>3. i \in reporting
    BY <2>2
  <2>4. chosen # None
    BY <2>2, <2>3 DEF UseTyped
  <2>5. /\ stats.context_used = slots[i].used
        /\ stats.context_slot_id = slots[i].id
        /\ slots[i].n_ctx > 0 => stats.context_size = slots[i].n_ctx
    BY <1>5, <2>2, <2>4
  <2> QED
    BY <1>8, <2>2, <2>5 DEF ContextRow
<1> QED
  BY <1>7, <1>8

-----------------------------------------------------------------------------
(* What is shown of the slots: the context row and the phase.              *)

\* An array of slots, as it can be answered.
ArrayOK(slots) == (\E n \in Nat : DOMAIN slots = 1 .. n) /\ UseTyped(slots)

SlotsAnswered ==
  poll.stage = "asking" /\ "slots" \in DOMAIN poll.answers
    /\ poll.answers.slots.outcome = "ok" => ArrayOK(poll.answers.slots.slots)

\* What is shown of the slots is what the array that was kept says.
ShowsSlots(kept) ==
  /\ DOMAIN kept = {"age", "slots", "truth"}
  /\ IsFiniteSet(DOMAIN kept.slots)
  /\ shown.busy_slots = Cardinality({i \in DOMAIN kept.slots : kept.slots[i].busy})
  /\ ContextRow(shown, kept.slots)

ShownIsOfPoll ==
  ~shown.reconnecting =>
    /\ shown.connected => shown.metrics_available \/ shown.slots_available
    /\ shown.slots_available => ShowsSlots(monitor.previous_slots)

PhaseInv == SlotsAnswered /\ ShownIsOfPoll

\* Every array that a server answers with is one.
LEMMA ArraysOK ==
  ASSUME NEW answer \in SlotsAnswers, answer.outcome = "ok"
  PROVE  ArrayOK(answer.slots)
<1> DEFINE arrays == CASE scenario = "slots" -> ServerSlots
                       [] scenario = "context" -> SlotArrays
                       [] scenario = "props" /\ server.up -> {<<>>}
                       [] OTHER -> {}
<1>1. ASSUME NEW slots \in ServerSlots PROVE ArrayOK(slots)
  <2>1. PICK order \in SetToSeqs(SlotIds) :
          DOMAIN slots = DOMAIN order /\ \A i \in DOMAIN slots : slots[i].used = None
    BY DEF ServerSlots
  <2>2. DOMAIN order = 1 .. Cardinality(SlotIds)
    BY DEF SetToSeqs
  <2>3. Cardinality(SlotIds) \in Nat
    BY ServersAssumption, FS_CardinalityType
  <2> QED
    BY <2>1, <2>2, <2>3 DEF ArrayOK, UseTyped
<1>2. ASSUME NEW slots \in SlotArrays PROVE ArrayOK(slots)
  BY ArraysAssumption DEF ArrayOK, UseTyped
<1>3. ArrayOK(<<>>)
  <2>1. DOMAIN <<>> = 1 .. 0 /\ DOMAIN <<>> = {} /\ 0 \in Nat
    OBVIOUS
  <2> QED
    BY <2>1 DEF ArrayOK, UseTyped
<1>4. ASSUME NEW slots \in arrays PROVE ArrayOK(slots)
  <2>1. CASE scenario = "slots"
    BY <1>1, <1>4, <2>1
  <2>2. CASE scenario = "context"
    BY <1>2, <1>4, <2>2
  <2>3. CASE scenario = "props" /\ server.up
    BY <1>3, <1>4, <2>3
  <2> QED
    BY <1>4, <2>1, <2>2, <2>3
<1> HIDE DEF arrays
<1>5. \/ \E slots \in arrays : answer = [outcome |-> "ok", slots |-> slots, truth |-> Truth]
      \/ answer = Failure("unreachable")
  BY DEF SlotsAnswers, arrays
<1>6. answer # Failure("unreachable")
  BY DEF Failure
<1>7. PICK slots \in arrays : answer = [outcome |-> "ok", slots |-> slots, truth |-> Truth]
  BY <1>5, <1>6
<1> QED
  BY <1>4, <1>7

\* Nothing has been published at first.
LEMMA PhaseInit == Init => PhaseInv
BY DEF Init, PhaseInv, SlotsAnswered, ShownIsOfPoll, NoPoll, NoStats

\* A step of the server changes nothing of the monitor.
LEMMA PhaseServer == HeldInv /\ PhaseInv /\ ServerStep => PhaseInv'
<1> SUFFICES ASSUME HeldInv, PhaseInv, ServerStep PROVE PhaseInv'
  OBVIOUS
<1>1. UNCHANGED <<monitor, poll, shown>>
  BY ServerStepIs DEF HeldInv
<1> QED
  BY <1>1 DEF PhaseInv, SlotsAnswered, ShownIsOfPoll, ShowsSlots

\* A new poll has no answers yet.
LEMMA PhaseBegin == HeldInv /\ PhaseInv /\ Begin => PhaseInv'
<1> SUFFICES ASSUME HeldInv, PhaseInv, Begin PROVE PhaseInv'
  OBVIOUS
<1>1. UNCHANGED <<monitor, shown>> /\ DOMAIN poll'.answers = {}
  BY DEF Begin
<1> QED
  BY <1>1 DEF PhaseInv, SlotsAnswered, ShownIsOfPoll, ShowsSlots

\* An answer of /slots is an array of slots.
LEMMA PhaseAnswer ==
  ASSUME HeldInv, PhaseInv, NEW endpoint \in Endpoints, Answer(endpoint)
  PROVE  PhaseInv'
<1>1. UNCHANGED <<monitor, shown>> /\ PollIsOf(poll)
  BY AnswerIs
<1>2. PICK answer \in Answers(endpoint) :
        /\ DOMAIN poll'.answers = DOMAIN poll.answers \union {endpoint}
        /\ poll'.answers[endpoint] = answer
        /\ \A e \in DOMAIN poll.answers \ {endpoint} : poll'.answers[e] = poll.answers[e]
  BY AnswerIs
<1>3. ASSUME "slots" \in DOMAIN poll'.answers, poll'.answers["slots"].outcome = "ok"
      PROVE  ArrayOK(poll'.answers["slots"].slots)
  <2>1. CASE endpoint = "slots"
    <3>1. answer \in SlotsAnswers
      BY <2>1 DEF Answers
    <3> QED
      BY <1>2, <1>3, <2>1, <3>1, ArraysOK
  <2>2. CASE endpoint # "slots"
    BY <1>1, <1>2, <1>3, <2>2 DEF PhaseInv, SlotsAnswered, PollIsOf
  <2> QED
    BY <2>1, <2>2
<1>4. SlotsAnswered'
  BY <1>3 DEF SlotsAnswered
<1> QED
  BY <1>1, <1>4 DEF PhaseInv, ShownIsOfPoll, ShowsSlots

\* Time changes the age of the array that was kept, and nothing else of it.
LEMMA PhaseTick == HeldInv /\ PhaseInv /\ Tick => PhaseInv'
<1> SUFFICES ASSUME HeldInv, PhaseInv, Tick PROVE PhaseInv'
  OBVIOUS
<1>1. /\ shown' = shown
      /\ monitor'.previous_slots = IF monitor.previous_slots = None THEN None
                                   ELSE [monitor.previous_slots EXCEPT !.age = 1]
  BY TickIs
<1>2. SlotsAnswered'
  <2>1. CASE poll.stage = "asking"
    <3>1. PollIsOf(poll) /\ poll' = [poll EXCEPT !.age = @ + 1]
      BY <2>1 DEF Tick, HeldInv, PollOK, NoPoll
    <3>2. poll'.stage = poll.stage /\ poll'.answers = poll.answers
      BY <3>1 DEF PollIsOf, PollFields
    <3> QED
      BY <3>2 DEF PhaseInv, SlotsAnswered
  <2>2. CASE poll.stage # "asking"
    BY <2>2 DEF Tick, PhaseInv, SlotsAnswered
  <2> QED
    BY <2>1, <2>2
<1>3. ASSUME ShowsSlots(monitor.previous_slots) PROVE ShowsSlots(monitor.previous_slots)'
  <2> DEFINE old == monitor.previous_slots
             new == monitor'.previous_slots
  <2>1. DOMAIN old = {"age", "slots", "truth"}
    BY <1>3 DEF ShowsSlots
  <2>2. DOMAIN new = {"age", "slots", "truth"} /\ new.slots = old.slots
    BY <1>1, <2>1
  <2> QED
    BY <1>1, <1>3, <2>2 DEF ShowsSlots
<1> QED
  BY <1>1, <1>2, <1>3 DEF PhaseInv, ShownIsOfPoll

\* A sample that is shown as it is carries the array of this poll.
LEMMA PhaseFinish == HeldInv /\ PhaseInv /\ Finish => PhaseInv'
<1> SUFFICES ASSUME HeldInv, PhaseInv, Finish PROVE PhaseInv'
  OBVIOUS
<1>1. poll' = NoPoll /\ PollIsOf(poll) /\ DOMAIN poll.answers = poll.asked
  BY FinishIs
<1>2. PICK s, m : Sampled(s, m, poll.answers) /\ Published(s)
  BY FinishIs
<1>3. SlotsAnswered'
  BY <1>1 DEF SlotsAnswered, NoPoll
<1>4. ShownIsOfPoll'
  <2> SUFFICES ASSUME ~shown'.reconnecting
               PROVE  /\ shown'.connected => shown'.metrics_available \/ shown'.slots_available
                      /\ shown'.slots_available => ShowsSlots(monitor.previous_slots)'
    BY DEF ShownIsOfPoll
  <2>1. CASE shown' = [last_good.stats EXCEPT !.error = None, !.reconnecting = TRUE] /\ last_good # None
    <3>1. DOMAIN last_good.stats = StatsFields
      BY <2>1 DEF HeldInv, GoodIsRecent
    <3>2. shown'.reconnecting = TRUE
      BY <2>1, <3>1 DEF StatsFields
    <3> QED
      BY <3>2
  <2>2. CASE shown' = s.stats
    <3>1. s.stats.connected = (s.stats.metrics_available \/ s.stats.slots_available)
      BY <1>2 DEF Sampled
    <3>2. shown'.connected => shown'.metrics_available \/ shown'.slots_available
      BY <2>2, <3>1
    <3>3. ASSUME shown'.slots_available PROVE ShowsSlots(monitor.previous_slots)'
      <4> DEFINE slots == poll.answers.slots.slots
      <4>1. s.stats.slots_available = (poll.answers.slots.outcome = "ok")
        BY <1>2 DEF Sampled
      <4>2. poll.answers.slots.outcome = "ok"
        BY <2>2, <3>3, <4>1
      <4>3. ArrayOK(slots)
        BY <1>1, <4>2 DEF PhaseInv, SlotsAnswered, PollIsOf
      <4>4. /\ s.monitor.previous_slots = [age |-> 0, slots |-> slots,
                                           truth |-> poll.answers.slots.truth]
            /\ s.stats.busy_slots = Cardinality({i \in DOMAIN slots : slots[i].busy})
            /\ ContextFrom(s.stats, slots)
        BY <1>2, <4>2 DEF Sampled
      <4>5. monitor' = s.monitor
        BY <1>2 DEF Published
      <4> HIDE DEF slots
      <4>6. PICK n \in Nat : DOMAIN slots = 1 .. n
        BY <4>3 DEF ArrayOK
      <4>7. IsFiniteSet(DOMAIN slots)
        BY <4>6, FS_Interval
      <4>8. ContextRow(s.stats, slots)
        BY <4>3, <4>4, <4>6, ContextChosen DEF ArrayOK
      <4>9. /\ DOMAIN monitor'.previous_slots = {"age", "slots", "truth"}
            /\ monitor'.previous_slots.slots = slots
        BY <4>4, <4>5
      <4> QED
        BY <2>2, <4>4, <4>7, <4>8, <4>9 DEF ShowsSlots
    <3> QED
      BY <3>2, <3>3
  <2> QED
    BY <1>2, <2>1, <2>2 DEF Published
<1> QED
  BY <1>3, <1>4 DEF PhaseInv

\* Every step keeps it.
LEMMA PhaseNext == HeldInv /\ PhaseInv /\ [Next]_vars => PhaseInv'
<1> SUFFICES ASSUME HeldInv, PhaseInv, [Next]_vars PROVE PhaseInv'
  OBVIOUS
<1>1. CASE ServerStep
  BY <1>1, PhaseServer
<1>2. CASE Begin
  BY <1>2, PhaseBegin
<1>3. ASSUME NEW endpoint \in Endpoints, Answer(endpoint) PROVE PhaseInv'
  BY <1>3, PhaseAnswer
<1>4. CASE Finish
  BY <1>4, PhaseFinish
<1>5. CASE Tick
  BY <1>5, PhaseTick
<1>6. CASE UNCHANGED vars
  BY <1>6 DEF vars, PhaseInv, SlotsAnswered, ShownIsOfPoll, ShowsSlots
<1> QED
  BY <1>1, <1>2, <1>3, <1>4, <1>5, <1>6 DEF Next, ServerStep

\* It holds throughout.
LEMMA AlwaysPhase == MonitorSpec => []PhaseInv
BY PhaseInit, PhaseNext, HeldInit, HeldNext, PTL DEF MonitorSpec

\* The context row on display belongs to one slot of the array, and to the right
\* one (apply_slots_json), for an array of any length.
THEOREM ContextSafe == MonitorSpec => []ContextOfOneSlot
<1>1. PhaseInv => ContextOfOneSlot
  BY DEF PhaseInv, ShownIsOfPoll, ShowsSlots, ContextRow, ContextOfOneSlot
<1> QED
  BY <1>1, AlwaysPhase, PTL

\* A phase that says idle (classify_phase) rests on the poll it was published by:
\* some endpoint answered, no tokens were counted, and no slot of the array that
\* was counted was working, for any number of slots and any order of answers.
THEOREM IdleSafe == MonitorSpec => []IdleIsEvident
<1>1. PhaseInv => IdleIsEvident
  <2> SUFFICES ASSUME PhaseInv, activity_phase(shown) = "idle"
               PROVE  /\ shown.metrics_available \/ shown.slots_available
                      /\ ~(shown.rate # None /\ shown.rate.delta > 0)
                      /\ shown.slots_available =>
                           \A i \in DOMAIN monitor.previous_slots.slots :
                             ~monitor.previous_slots.slots[i].busy
    BY DEF IdleIsEvident
  <2>1. ~shown.reconnecting /\ shown.connected /\ classify_phase(shown) = "idle"
    BY LabelsAssumption DEF activity_phase
  <2>2. ~generating(shown) /\ ~(shown.busy_slots > 0)
    BY <2>1 DEF classify_phase
  <2>3. ~(shown.rate # None /\ shown.rate.delta > 0)
    BY <2>2 DEF generating
  <2>4. ASSUME shown.slots_available
        PROVE  \A i \in DOMAIN monitor.previous_slots.slots :
                 ~monitor.previous_slots.slots[i].busy
    <3> DEFINE slots == monitor.previous_slots.slots
               busy == {i \in DOMAIN slots : slots[i].busy}
    <3>1. IsFiniteSet(DOMAIN slots) /\ shown.busy_slots = Cardinality(busy)
      BY <2>1, <2>4 DEF PhaseInv, ShownIsOfPoll, ShowsSlots
    <3>2. IsFiniteSet(busy)
      BY <3>1, FS_Subset
    <3> HIDE DEF busy
    <3>3. Cardinality(busy) \in Nat
      BY <3>2, FS_CardinalityType
    <3>4. Cardinality(busy) = 0
      BY <2>2, <3>1, <3>3
    <3>5. busy = {}
      BY <3>2, <3>4, FS_EmptySet
    <3> QED
      BY <3>5 DEF busy
  <2> QED
    BY <2>1, <2>3, <2>4 DEF PhaseInv, ShownIsOfPoll
<1> QED
  BY <1>1, AlwaysPhase, PTL

-----------------------------------------------------------------------------
(* Speculative decoding.                                                   *)

SpecFields == {"spec_enabled", "spec_is_mtp", "spec_n_max"}

IsBool(value) == value = TRUE \/ value = FALSE

\* Booleans are what the cache holds.
CacheTyped(cache) == IsBool(cache.spec_enabled) /\ IsBool(cache.spec_is_mtp)

\* The cache has what the reply says.
CacheSays(cache, props) ==
  LET spec == merged_config(props)
  IN  /\ spec.enabled # None =>
           cache.spec_enabled = spec.enabled /\ cache.spec_enabled_known = TRUE
      /\ spec.n_max # None =>
           /\ cache.spec_n_max_known = TRUE
           /\ cache.spec_n_max = IF spec.n_max = 0 THEN None ELSE spec.n_max
      /\ cache.spec_is_mtp = spec.is_mtp
      /\ spec.named_type => cache.spec_named_type = TRUE

\* The statistics have what the reply says (ServerDecides).
StatsSay(stats, props) ==
  LET of(field(_)) == or_else(field(props.nested), field(props.root))
      speculative(value) == IF value.speculative = Null THEN None ELSE value.speculative
      n_max(value) == value.n_max
      types(value) == value.types
      disabled == of(speculative) = FALSE \/ of(n_max) = 0
      mtp == of(types) # None /\ "draft-mtp" \in of(types)
  IN  /\ of(speculative) # None => stats.spec_enabled = of(speculative)
      /\ of(n_max) # None => stats.spec_n_max = IF of(n_max) = 0 THEN None ELSE of(n_max)
      /\ disabled \/ (of(types) # None /\ of(types) # {}) => stats.spec_is_mtp = mtp

\* What the endpoints answer when /props carries the scenario.
SpecAnswers ==
  /\ "metrics" \in DOMAIN poll.answers => poll.answers.metrics.outcome # "ok"
  /\ "slots" \in DOMAIN poll.answers /\ poll.answers.slots.outcome = "ok" =>
       poll.answers.slots.slots = <<>>
  /\ "props" \in DOMAIN poll.answers /\ poll.answers.props.outcome = "ok" =>
       /\ poll.answers.props.props.root.speculative \in BOOLEAN \union {None, Null}
       /\ poll.answers.props.props.nested.speculative \in BOOLEAN \union {None, Null}

SpecInv ==
  scenario = "props" =>
    /\ CacheTyped(monitor.props)
    /\ poll.stage = "asking" => SpecAnswers
    /\ said # None => CacheSays(monitor.props, said)
    /\ said # None /\ shown # NoStats /\ ~shown.reconnecting => StatsSay(shown, said)

\* The settings of a reply, in the terms of ServerDecides.
LEMMA MergedIs ==
  ASSUME NEW props
  PROVE  LET of(field(_)) == or_else(field(props.nested), field(props.root))
             speculative(value) == IF value.speculative = Null THEN None ELSE value.speculative
             n_max(value) == value.n_max
             types(value) == value.types
             spec == merged_config(props)
         IN  /\ spec.enabled = of(speculative)
             /\ spec.n_max = of(n_max)
             /\ spec.is_mtp = (of(types) # None /\ "draft-mtp" \in of(types))
             /\ spec.named_type = (of(types) # None /\ of(types) # {})
<1> DEFINE root == speculative_config(props.root)
           nested == speculative_config(props.nested)
           spec == merged_config(props)
           a == props.nested.types
           b == props.root.types
           t == or_else(a, b)
<1>1. /\ spec.enabled = or_else(nested.enabled, root.enabled)
      /\ spec.n_max = or_else(nested.n_max, root.n_max)
      /\ spec.is_mtp = IF nested.types_known THEN nested.is_mtp ELSE root.is_mtp
      /\ spec.named_type = IF nested.types_known THEN nested.named_type ELSE root.named_type
  BY DEF merged_config
<1>2. /\ nested.enabled = IF props.nested.speculative = Null THEN None ELSE props.nested.speculative
      /\ nested.n_max = props.nested.n_max
      /\ nested.types_known = (a # None)
      /\ nested.is_mtp = (a # None /\ "draft-mtp" \in a)
      /\ nested.named_type = (a # None /\ a # {})
  BY DEF speculative_config
<1>3. /\ root.enabled = IF props.root.speculative = Null THEN None ELSE props.root.speculative
      /\ root.n_max = props.root.n_max
      /\ root.is_mtp = (b # None /\ "draft-mtp" \in b)
      /\ root.named_type = (b # None /\ b # {})
  BY DEF speculative_config
<1> HIDE DEF root, nested, spec
<1>4. a # None => t = a
  BY DEF or_else
<1>5. a = None => t = b
  BY DEF or_else
<1>6. nested.types_known = (a # None)
  BY <1>2
<1>7. spec.is_mtp = (t # None /\ "draft-mtp" \in t)
  <2>1. CASE a # None
    <3>1. spec.is_mtp = nested.is_mtp
      BY <1>1, <1>6, <2>1
    <3> QED
      BY <1>2, <1>4, <2>1, <3>1
  <2>2. CASE a = None
    <3>1. spec.is_mtp = root.is_mtp
      BY <1>1, <1>6, <2>2
    <3> QED
      BY <1>3, <1>5, <2>2, <3>1
  <2> QED
    BY <2>1, <2>2
<1>8. spec.named_type = (t # None /\ t # {})
  <2>1. CASE a # None
    <3>1. spec.named_type = nested.named_type
      BY <1>1, <1>6, <2>1
    <3> QED
      BY <1>2, <1>4, <2>1, <3>1
  <2>2. CASE a = None
    <3>1. spec.named_type = root.named_type
      BY <1>1, <1>6, <2>2
    <3> QED
      BY <1>3, <1>5, <2>2, <3>1
  <2> QED
    BY <2>1, <2>2
<1> QED
  BY <1>1, <1>2, <1>3, <1>7, <1>8 DEF spec

\* A reply that mentions speculation replaces what was known of it; another one
\* leaves it alone.
LEMMA SpecApplied ==
  ASSUME NEW cache, DOMAIN cache = PropsFields, CacheTyped(cache), NEW props,
         props.root.speculative \in BOOLEAN \union {None, Null},
         props.nested.speculative \in BOOLEAN \union {None, Null}
  PROVE  LET applied == apply_props(cache, props)
         IN  /\ CacheTyped(applied)
             /\ Mentions(props) => CacheSays(applied, props)
             /\ ~Mentions(props) =>
                  \A f \in {"spec_enabled", "spec_enabled_known", "spec_is_mtp",
                            "spec_named_type", "spec_n_max", "spec_n_max_known"} :
                    applied[f] = cache[f]
<1> DEFINE spec == merged_config(props)
           rest == [cache EXCEPT !.context_size = or_else(props.n_ctx, @),
                                 !.model = or_else(props.model, @)]
           applied == apply_props(cache, props)
<1>1. /\ DOMAIN rest = PropsFields
      /\ \A f \in PropsFields \ {"context_size", "model"} : rest[f] = cache[f]
  BY DEF PropsFields
<1> HIDE DEF rest
<1>2. applied = IF spec.present THEN with_speculation(rest, spec) ELSE rest
  BY DEF apply_props, rest
<1>3. spec.present = (speculative_config(props.nested).present \/ speculative_config(props.root).present)
  BY DEF merged_config
<1>4. Mentions(props) <=> spec.present
  BY <1>3 DEF Mentions
<1>5. spec.enabled = None \/ IsBool(spec.enabled)
  <2>1. spec.enabled = or_else(IF props.nested.speculative = Null THEN None ELSE props.nested.speculative,
                               IF props.root.speculative = Null THEN None ELSE props.root.speculative)
    BY MergedIs
  <2> HIDE DEF spec
  <2> QED
    BY <2>1 DEF or_else, IsBool
<1>6. IsBool(spec.is_mtp)
  <2>1. spec.is_mtp = (or_else(props.nested.types, props.root.types) # None
                       /\ "draft-mtp" \in or_else(props.nested.types, props.root.types))
    BY MergedIs
  <2> HIDE DEF spec
  <2> QED
    BY <2>1 DEF IsBool
<1> HIDE DEF applied, spec
<1>7. CASE spec.present
  <2> DEFINE n_max == IF spec.n_max = 0 THEN None ELSE spec.n_max
  <2>1. applied = with_speculation(rest, spec)
    BY <1>2, <1>7
  <2>2. /\ applied.spec_enabled = IF spec.enabled # None THEN spec.enabled
                                  ELSE n_max # None \/ spec.is_mtp
        /\ applied.spec_enabled_known = (spec.enabled # None)
        /\ applied.spec_is_mtp = spec.is_mtp
        /\ applied.spec_named_type = spec.named_type
        /\ applied.spec_n_max = n_max
        /\ applied.spec_n_max_known = (spec.n_max # None)
    BY <1>1, <2>1 DEF with_speculation, PropsFields
  <2>3. IsBool(applied.spec_enabled)
    <3>1. CASE spec.enabled # None
      BY <1>5, <2>2, <3>1
    <3>2. CASE spec.enabled = None
      <4>1. applied.spec_enabled = (n_max # None \/ spec.is_mtp)
        BY <2>2, <3>2
      <4> HIDE DEF n_max
      <4> QED
        BY <4>1 DEF IsBool
    <3> QED
      BY <3>1, <3>2
  <2>4. spec.enabled # None => applied.spec_enabled_known = TRUE
    BY <2>2
  <2>5. spec.n_max # None => applied.spec_n_max_known = TRUE
    BY <2>2
  <2>6. spec.named_type => applied.spec_named_type = TRUE
    <3>1. IsBool(spec.named_type)
      <4>1. spec.named_type = (or_else(props.nested.types, props.root.types) # None
                               /\ or_else(props.nested.types, props.root.types) # {})
        BY MergedIs DEF spec
      <4> QED
        BY <4>1 DEF IsBool
    <3> QED
      BY <2>2, <3>1 DEF IsBool
  <2>7. CacheSays(applied, props)
    BY <2>2, <2>4, <2>5, <2>6 DEF CacheSays, spec
  <2>8. CacheTyped(applied)
    BY <1>6, <2>2, <2>3 DEF CacheTyped
  <2> QED
    BY <1>4, <1>7, <2>7, <2>8 DEF applied
<1>8. CASE ~spec.present
  <2>1. applied = rest
    BY <1>2, <1>8
  <2>2. \A f \in {"spec_enabled", "spec_enabled_known", "spec_is_mtp",
                  "spec_named_type", "spec_n_max", "spec_n_max_known"} :
          applied[f] = cache[f]
    BY <1>1, <2>1 DEF PropsFields
  <2>3. CacheTyped(applied)
    BY <2>2 DEF CacheTyped
  <2> QED
    BY <1>4, <1>8, <2>2, <2>3 DEF applied
<1> QED
  BY <1>7, <1>8

\* The command line of the local process fills in only what the reply left open.
LEMMA FallbackSays ==
  ASSUME NEW m, NEW parsed, CacheTyped(m.props), NEW props, CacheSays(m.props, props)
  PROVE  LET st == with_props(m, parsed).stats
         IN  /\ StatsSay(st, props)
             /\ merged_config(props).enabled # None => IsBool(st.spec_enabled)
<1> DEFINE cache == m.props
           local == m.local_spec
           st == with_props(m, parsed).stats
           spec == merged_config(props)
           disabled == \/ cache.spec_enabled_known /\ ~cache.spec_enabled
                       \/ cache.spec_n_max_known /\ cache.spec_n_max = None
           fb == apply_local_spec_fallback(cache, props_stats(m), local)
<1>1. st = IF m.local_spec = None THEN props_stats(m) ELSE fb
  BY DEF with_props
<1>2. /\ props_stats(m).spec_enabled = cache.spec_enabled
      /\ props_stats(m).spec_is_mtp = cache.spec_is_mtp
      /\ props_stats(m).spec_n_max = cache.spec_n_max
      /\ DOMAIN props_stats(m) = StatsFields
  BY DEF props_stats, NoStats, StatsFields
<1>3. /\ fb.spec_enabled = (cache.spec_enabled
                            \/ (~cache.spec_enabled_known /\ ~disabled /\ local.enabled))
      /\ fb.spec_is_mtp = (cache.spec_is_mtp
                           \/ (~cache.spec_named_type /\ ~disabled /\ local.is_mtp))
      /\ fb.spec_n_max = IF ~cache.spec_n_max_known /\ ~disabled /\ cache.spec_n_max = None
                         THEN local.n_max ELSE cache.spec_n_max
  BY <1>2 DEF apply_local_spec_fallback, StatsFields
<1> HIDE DEF fb, st
<1>4. /\ spec.enabled # None =>
           cache.spec_enabled = spec.enabled /\ cache.spec_enabled_known = TRUE
      /\ spec.n_max # None =>
           /\ cache.spec_n_max_known = TRUE
           /\ cache.spec_n_max = IF spec.n_max = 0 THEN None ELSE spec.n_max
      /\ cache.spec_is_mtp = spec.is_mtp
      /\ spec.named_type => cache.spec_named_type = TRUE
  BY DEF CacheSays
<1>5. IsBool(cache.spec_enabled) /\ IsBool(cache.spec_is_mtp)
  BY DEF CacheTyped
<1> HIDE DEF cache, spec
<1>6. ASSUME spec.enabled # None PROVE st.spec_enabled = spec.enabled
  <2>1. ~(~cache.spec_enabled_known /\ ~disabled /\ local.enabled)
    BY <1>4, <1>6
  <2>2. fb.spec_enabled = cache.spec_enabled
    BY <1>3, <1>5, <2>1 DEF IsBool
  <2> QED
    BY <1>1, <1>2, <1>4, <1>6, <2>2 DEF cache
<1>7. ASSUME spec.n_max # None
      PROVE  st.spec_n_max = IF spec.n_max = 0 THEN None ELSE spec.n_max
  <2>1. fb.spec_n_max = cache.spec_n_max
    BY <1>3, <1>4, <1>7
  <2> QED
    BY <1>1, <1>2, <1>4, <1>7, <2>1 DEF cache
<1>8. ASSUME spec.enabled = FALSE \/ spec.n_max = 0 \/ spec.named_type
      PROVE  st.spec_is_mtp = spec.is_mtp
  <2>1. spec.enabled = FALSE => disabled
    <3> SUFFICES ASSUME spec.enabled = FALSE PROVE disabled
      OBVIOUS
    <3>1. spec.enabled # None
      BY AbsentAssumption
    <3> QED
      BY <1>4, <3>1
  <2>2. spec.n_max = 0 => disabled
    <3> SUFFICES ASSUME spec.n_max = 0 PROVE disabled
      OBVIOUS
    <3>1. spec.n_max # None
      BY NoneAssumption
    <3> QED
      BY <1>4, <3>1
  <2>3. ~(~cache.spec_named_type /\ ~disabled /\ local.is_mtp)
    BY <1>4, <1>8, <2>1, <2>2
  <2>4. fb.spec_is_mtp = cache.spec_is_mtp
    BY <1>3, <1>5, <2>3 DEF IsBool
  <2> QED
    BY <1>1, <1>2, <1>4, <2>4 DEF cache
<1>9. spec.enabled # None => IsBool(st.spec_enabled)
  BY <1>4, <1>5, <1>6
<1>10. StatsSay(st, props)
  <2> DEFINE enabled == or_else(IF props.nested.speculative = Null THEN None ELSE props.nested.speculative,
                                IF props.root.speculative = Null THEN None ELSE props.root.speculative)
             limit == or_else(props.nested.n_max, props.root.n_max)
             kinds == or_else(props.nested.types, props.root.types)
  <2>1. /\ spec.enabled = enabled /\ spec.n_max = limit
        /\ spec.is_mtp = (kinds # None /\ "draft-mtp" \in kinds)
        /\ spec.named_type = (kinds # None /\ kinds # {})
    BY MergedIs DEF spec
  <2> HIDE DEF enabled, limit, kinds
  <2>2. enabled # None => st.spec_enabled = enabled
    BY <1>6, <2>1
  <2>3. limit # None => st.spec_n_max = IF limit = 0 THEN None ELSE limit
    BY <1>7, <2>1
  <2>4. enabled = FALSE \/ limit = 0 \/ (kinds # None /\ kinds # {}) =>
          st.spec_is_mtp = (kinds # None /\ "draft-mtp" \in kinds)
    BY <1>8, <2>1
  <2> QED
    BY <2>2, <2>3, <2>4 DEF StatsSay, enabled, limit, kinds
<1> QED
  BY <1>9, <1>10 DEF st, spec

\* Booleans stay booleans with the fallback.
LEMMA FallbackTyped ==
  ASSUME NEW m, NEW parsed, CacheTyped(m.props)
  PROVE  LET st == with_props(m, parsed).stats IN IsBool(st.spec_enabled) /\ IsBool(st.spec_is_mtp)
<1> DEFINE cache == m.props
           local == m.local_spec
           st == with_props(m, parsed).stats
           disabled == \/ cache.spec_enabled_known /\ ~cache.spec_enabled
                       \/ cache.spec_n_max_known /\ cache.spec_n_max = None
           fb == apply_local_spec_fallback(cache, props_stats(m), local)
<1>1. st = IF m.local_spec = None THEN props_stats(m) ELSE fb
  BY DEF with_props
<1>2. /\ props_stats(m).spec_enabled = cache.spec_enabled
      /\ props_stats(m).spec_is_mtp = cache.spec_is_mtp
      /\ DOMAIN props_stats(m) = StatsFields
  BY DEF props_stats, NoStats, StatsFields
<1>3. /\ fb.spec_enabled = (cache.spec_enabled
                            \/ (~cache.spec_enabled_known /\ ~disabled /\ local.enabled))
      /\ fb.spec_is_mtp = (cache.spec_is_mtp
                           \/ (~cache.spec_named_type /\ ~disabled /\ local.is_mtp))
  BY <1>2 DEF apply_local_spec_fallback, StatsFields
<1> HIDE DEF fb, st, disabled
<1>4. IsBool(fb.spec_enabled)
  BY <1>3 DEF IsBool
<1>5. IsBool(fb.spec_is_mtp)
  BY <1>3 DEF IsBool
<1> QED
  BY <1>1, <1>2, <1>4, <1>5 DEF st, CacheTyped

\* In this scenario the metrics and the slots say nothing about speculation.
LEMMA SampleSpec ==
  ASSUME DOMAIN monitor = MonitorFields, NEW answers, NEW processes,
         answers.metrics.outcome # "ok",
         answers.slots.outcome = "ok" => answers.slots.slots = <<>>,
         CacheTyped(local_spec_config(asked_props(answers), processes).props)
  PROVE  LET m == local_spec_config(asked_props(answers), processes)
         IN  \A f \in SpecFields :
               sample(answers, processes).stats[f] =
               with_props(m, parsed_answer(answers.metrics)).stats[f]
<1> DEFINE m == local_spec_config(asked_props(answers), processes)
           parsed == parsed_answer(answers.metrics)
           error == metrics_error(answers.metrics, parsed)
           ok == answers.slots.outcome = "ok"
           a == with_props(m, parsed)
           a1 == with_metrics(a, error)
           a2 == with_slots(a1, answers.slots)
           b == described(a, answers)
           c == with_counters(b, answers.metrics)
           d == with_slot_counters(c, answers.slots)
           e == with_strata(d)
<1>0. DOMAIN m = MonitorFields
  BY AskedMonitor
<1>1. parsed.samples = NoMetrics
  BY DEF parsed_answer, Unparsed
<1>2. IsBool(a.stats.spec_enabled) /\ IsBool(a.stats.spec_is_mtp)
  BY FallbackTyped
<1> HIDE DEF m, parsed, error
<1>3. PropsOf(a, m, parsed)
  BY PropsPart
<1> HIDE DEF a
<1>4. DOMAIN a = ChainFields /\ a.parsed = parsed /\ a.monitor = m /\ DOMAIN a.stats = StatsFields
      /\ a.stats.strata_phase = None /\ a.stats.slots_available = FALSE
      /\ a.stats.reconnecting = FALSE
  BY <1>3 DEF PropsOf
<1>5. DOMAIN a1 = ChainFields /\ a1.stats = metrics_stats(a.stats, parsed, error)
  BY <1>4 DEF with_metrics, ChainFields
<1>6. /\ DOMAIN a1.stats = StatsFields
      /\ a1.stats.spec_is_mtp = a.stats.spec_is_mtp /\ a1.stats.spec_n_max = a.stats.spec_n_max
  BY <1>4, <1>5, MetricsStats
<1>7. a1.stats.spec_enabled = a.stats.spec_enabled
  <2>1. NoMetrics.drafts = None /\ NoMetrics.accepted = None
    BY DEF NoMetrics
  <2>2. ~positive(parsed.samples.drafts) /\ ~positive(parsed.samples.accepted)
    BY <1>1, <2>1 DEF positive
  <2>3. a1.stats.spec_enabled = (a.stats.spec_enabled \/ positive(parsed.samples.drafts)
                                 \/ positive(parsed.samples.accepted))
    BY <1>4, <1>5 DEF metrics_stats, StatsFields
  <2> QED
    BY <1>2, <2>2, <2>3 DEF IsBool
<1> HIDE DEF a1
<1>8. /\ DOMAIN a2 = ChainFields
      /\ \A f \in SpecFields : a2.stats[f] = a1.stats[f]
  <2>1. CASE ok
    <3>1. DOMAIN a2 = ChainFields /\ a2.stats = apply_slots_json(a1.stats, <<>>)
      BY <1>5, <2>1 DEF with_slots, ChainFields
    <3> DEFINE specs == {speculative_config((<<>>)[i].spec) : i \in DOMAIN <<>>}
               drafting == {spec.n_max : spec \in specs} \ {None, 0}
    <3>2. specs = {} /\ drafting = {}
      OBVIOUS
    <3>3. /\ a2.stats.spec_enabled = (a1.stats.spec_enabled \/ drafting # {}
                                      \/ (\E spec \in specs : spec.enabled = TRUE))
          /\ a2.stats.spec_is_mtp = (a1.stats.spec_is_mtp \/ (\E spec \in specs : spec.is_mtp))
          /\ a2.stats.spec_n_max = IF drafting = {} THEN a1.stats.spec_n_max
                                   ELSE Max(drafting \union ({a1.stats.spec_n_max} \ {None}))
      BY <1>6, <3>1 DEF apply_slots_json, StatsFields
    <3> HIDE DEF specs, drafting
    <3>4. IsBool(a1.stats.spec_enabled) /\ IsBool(a1.stats.spec_is_mtp)
      BY <1>2, <1>6, <1>7
    <3>5. a2.stats.spec_enabled = a1.stats.spec_enabled
      BY <3>2, <3>3, <3>4 DEF IsBool
    <3>6. a2.stats.spec_is_mtp = a1.stats.spec_is_mtp
      BY <3>2, <3>3, <3>4 DEF IsBool
    <3>7. a2.stats.spec_n_max = a1.stats.spec_n_max
      BY <3>2, <3>3
    <3> QED
      BY <3>1, <3>5, <3>6, <3>7 DEF SpecFields
  <2>2. CASE ~ok
    BY <1>5, <2>2 DEF with_slots
  <2> QED
    BY <2>1, <2>2
<1>9. DOMAIN a2.stats = StatsFields
  <2>1. a2.stats = IF ok THEN apply_slots_json(a1.stats, answers.slots.slots) ELSE a1.stats
    BY <1>5 DEF with_slots, ChainFields
  <2> DEFINE st == apply_slots_json(a1.stats, answers.slots.slots)
  <2>2. DOMAIN st = StatsFields
    BY <1>6, SlotsStats DEF SlotsIn
  <2> HIDE DEF st
  <2>3. a2.stats = IF ok THEN st ELSE a1.stats
    BY <2>1 DEF st
  <2> QED
    BY <1>6, <2>2, <2>3
<1> HIDE DEF a2
<1>10. b = with_connection(a2)
  BY <1>4 DEF b, a2, a1, described, error
<1>11. b.stats = [a2.stats EXCEPT !.connected = a2.stats.metrics_available \/ a2.stats.slots_available]
  BY <1>8, <1>10 DEF with_connection, ChainFields
<1>12. \A f \in SpecFields : b.stats[f] = a2.stats[f]
  BY <1>9, <1>11 DEF SpecFields, StatsFields
<1>13. /\ DOMAIN b = ChainFields /\ DOMAIN b.stats = StatsFields /\ DOMAIN b.monitor = MonitorFields
       /\ b.stats.strata_phase = None
  BY <1>0, <1>4, DescribedPart DEF DescribedBy
<1> HIDE DEF b
<1>14. /\ DOMAIN c = ChainFields /\ DOMAIN c.stats = StatsFields
       /\ DOMAIN c.monitor = MonitorFields
       /\ \A f \in StatsFields \ CounterFields : c.stats[f] = b.stats[f]
  BY <1>13, CountersPart
<1> HIDE DEF c
<1>15. /\ DOMAIN d = ChainFields /\ DOMAIN d.stats = StatsFields
       /\ \A f \in StatsFields \ CounterFields : d.stats[f] = c.stats[f]
  <2>1. SlotsCounted(d, c, answers.slots)
    BY <1>14, SlotCountersPart
  <2> HIDE DEF d
  <2> QED
    BY <2>1 DEF SlotsCounted
<1> HIDE DEF d
<1>16. d.stats.strata_phase = None
  BY <1>13, <1>14, <1>15 DEF StatsFields, CounterFields
<1>17. \A f \in StatsFields \ {"rate", "strata_phase", "request_generated_tokens"} :
         e.stats[f] = d.stats[f]
  BY <1>15, <1>16, StrataPart
<1> HIDE DEF e
<1>18. \A f \in SpecFields : e.stats[f] = b.stats[f]
  BY <1>14, <1>15, <1>17 DEF StatsFields, CounterFields, SpecFields
<1>19. \A f \in SpecFields : a1.stats[f] = a.stats[f]
  BY <1>6, <1>7 DEF SpecFields
<1>20. \A f \in SpecFields : e.stats[f] = a.stats[f]
  BY <1>8, <1>12, <1>18, <1>19
<1>21. e = sample(answers, processes)
  BY DEF sample, e, d, c, b, a, m, parsed
<1> QED
  BY <1>20, <1>21 DEF a, m, parsed

\* Two statistics with the same settings say the same.
LEMMA SameSettings ==
  ASSUME NEW one, NEW other, \A f \in SpecFields : one[f] = other[f], NEW props,
         StatsSay(other, props)
  PROVE  StatsSay(one, props)
<1>1. /\ one.spec_enabled = other.spec_enabled /\ one.spec_is_mtp = other.spec_is_mtp
      /\ one.spec_n_max = other.spec_n_max
  BY DEF SpecFields
<1> QED
  BY <1>1 DEF StatsSay

\* Two caches with the same settings say the same.
LEMMA SameCache ==
  ASSUME NEW one, NEW other, NEW props, CacheSays(other, props),
         \A f \in {"spec_enabled", "spec_enabled_known", "spec_is_mtp",
                   "spec_named_type", "spec_n_max", "spec_n_max_known"} : one[f] = other[f]
  PROVE  CacheSays(one, props)
<1>1. /\ one.spec_enabled = other.spec_enabled /\ one.spec_enabled_known = other.spec_enabled_known
      /\ one.spec_is_mtp = other.spec_is_mtp /\ one.spec_named_type = other.spec_named_type
      /\ one.spec_n_max = other.spec_n_max /\ one.spec_n_max_known = other.spec_n_max_known
  OBVIOUS
<1> QED
  BY <1>1 DEF CacheSays

\* Nothing has been said at first.
LEMMA SpecInit == Init => SpecInv
<1> SUFFICES ASSUME Init PROVE SpecInv
  OBVIOUS
<1>1. CacheTyped(monitor.props)
  BY DEF Init, NewMonitor, CachedProps, CacheTyped, IsBool
<1>2. poll.stage # "asking" /\ said = None
  BY DEF Init, NoPoll
<1> QED
  BY <1>1, <1>2 DEF SpecInv

\* The answers of this scenario.
LEMMA SpecAnswer ==
  ASSUME HeldInv, SpecInv, NEW endpoint \in Endpoints, Answer(endpoint)
  PROVE  SpecInv'
<1>1. UNCHANGED <<scenario, server, monitor, shown, said>> /\ PollIsOf(poll)
  BY AnswerIs
<1>2. PICK answer \in Answers(endpoint) :
        /\ DOMAIN poll'.answers = DOMAIN poll.answers \union {endpoint}
        /\ poll'.answers[endpoint] = answer
        /\ \A e \in DOMAIN poll.answers \ {endpoint} : poll'.answers[e] = poll.answers[e]
  BY AnswerIs
<1> SUFFICES ASSUME scenario = "props" PROVE SpecInv'
  BY <1>1 DEF SpecInv
<1>3. SpecAnswers
  BY <1>1 DEF SpecInv, PollIsOf
<1>4. ASSUME "metrics" \in DOMAIN poll'.answers PROVE poll'.answers["metrics"].outcome # "ok"
  <2>1. CASE endpoint = "metrics"
    <3>1. answer \in MetricsAnswers
      BY <2>1 DEF Answers
    <3>2. \E why \in {"unreachable"} : answer = Failure(why)
      BY <3>1 DEF MetricsAnswers
    <3> QED
      BY <1>2, <2>1, <3>2 DEF Failure
  <2>2. CASE endpoint # "metrics"
    BY <1>2, <1>3, <1>4, <2>2 DEF SpecAnswers
  <2> QED
    BY <2>1, <2>2
<1>5. ASSUME "slots" \in DOMAIN poll'.answers, poll'.answers["slots"].outcome = "ok"
      PROVE  poll'.answers["slots"].slots = <<>>
  <2>1. CASE endpoint = "slots"
    <3>1. answer \in SlotsAnswers
      BY <2>1 DEF Answers
    <3>2. \/ answer = Failure("unreachable")
          \/ answer = [outcome |-> "ok", slots |-> <<>>, truth |-> Truth]
      BY <3>1 DEF SlotsAnswers
    <3> QED
      BY <1>2, <1>5, <2>1, <3>2 DEF Failure
  <2>2. CASE endpoint # "slots"
    BY <1>2, <1>3, <1>5, <2>2 DEF SpecAnswers
  <2> QED
    BY <2>1, <2>2
<1>6. ASSUME "props" \in DOMAIN poll'.answers, poll'.answers["props"].outcome = "ok"
      PROVE  /\ poll'.answers["props"].props.root.speculative \in BOOLEAN \union {None, Null}
             /\ poll'.answers["props"].props.nested.speculative \in BOOLEAN \union {None, Null}
  <2>1. CASE endpoint = "props"
    <3>1. answer \in PropsAnswers /\ answer.outcome = "ok"
      BY <1>2, <1>6, <2>1 DEF Answers
    <3>2. answer # Failure("unreachable")
      BY <3>1 DEF Failure
    <3>3. PICK props \in PropsReplies :
            answer = [outcome |-> "ok", props |-> [props EXCEPT !.model = server.model]]
      BY <3>1, <3>2 DEF PropsAnswers
    <3>4. /\ "root" \in DOMAIN props /\ "nested" \in DOMAIN props
          /\ props.root.speculative \in BOOLEAN \union {None, Null}
          /\ props.nested.speculative \in BOOLEAN \union {None, Null}
      BY ServersAssumption
    <3>5. answer.props.root = props.root /\ answer.props.nested = props.nested
      BY <3>3, <3>4
    <3> QED
      BY <1>2, <2>1, <3>4, <3>5
  <2>2. CASE endpoint # "props"
    BY <1>2, <1>3, <1>6, <2>2 DEF SpecAnswers
  <2> QED
    BY <2>1, <2>2
<1>7. SpecAnswers'
  BY <1>4, <1>5, <1>6 DEF SpecAnswers
<1> QED
  BY <1>1, <1>7 DEF SpecInv

\* The end of a poll: what was said is what the cache has and what is shown.
LEMMA SpecFinish == HeldInv /\ SpecInv /\ Finish => SpecInv'
<1> SUFFICES ASSUME HeldInv, SpecInv, Finish, scenario = "props" PROVE SpecInv'
  BY FinishIs DEF SpecInv
<1>1. scenario' = scenario /\ poll' = NoPoll /\ PollIsOf(poll) /\ DOMAIN poll.answers = poll.asked
  BY FinishIs
<1>2. PICK processes \in ProcessTables :
        Sampled(sample(poll.answers, processes),
                local_spec_config(asked_props(poll.answers), processes), poll.answers)
        /\ Published(sample(poll.answers, processes))
  BY FinishIs
<1> DEFINE s == sample(poll.answers, processes)
           m == local_spec_config(asked_props(poll.answers), processes)
           parsed == parsed_answer(poll.answers.metrics)
           a == with_props(m, parsed)
           ok == "props" \in DOMAIN poll.answers /\ poll.answers.props.outcome = "ok"
           props == poll.answers.props.props
<1>3. m.props = IF ok THEN apply_props(monitor.props, props) ELSE monitor.props
  BY AskedMonitor DEF HeldInv, MonitorTypes
<1>4. SpecAnswers /\ CacheTyped(monitor.props) /\ DOMAIN monitor.props = PropsFields
  BY <1>1 DEF SpecInv, PollIsOf, HeldInv, MonitorTypes
<1>5. said' = IF ok /\ Mentions(props) THEN props ELSE said
  BY <1>1 DEF Finish
<1>6. /\ CacheTyped(m.props)
      /\ said' # None => CacheSays(m.props, said')
  <2>1. CASE ok
    <3>1. /\ props.root.speculative \in BOOLEAN \union {None, Null}
          /\ props.nested.speculative \in BOOLEAN \union {None, Null}
      BY <1>4, <2>1 DEF SpecAnswers
    <3> DEFINE applied == apply_props(monitor.props, props)
    <3> HIDE DEF props
    <3>2. /\ CacheTyped(applied)
          /\ Mentions(props) => CacheSays(applied, props)
          /\ ~Mentions(props) =>
               \A f \in {"spec_enabled", "spec_enabled_known", "spec_is_mtp",
                         "spec_named_type", "spec_n_max", "spec_n_max_known"} :
                 applied[f] = monitor.props[f]
      BY <1>4, <3>1, SpecApplied
    <3> HIDE DEF applied
    <3>3. m.props = applied
      BY <1>3, <2>1 DEF applied
    <3> HIDE DEF m
    <3>4. CASE Mentions(props)
      BY <1>5, <2>1, <3>2, <3>3, <3>4
    <3>5. CASE ~Mentions(props)
      <4>1. said' = said
        BY <1>5, <3>5
      <4>2. said # None => CacheSays(applied, said)
        BY <3>2, <3>5, SameCache DEF SpecInv
      <4> QED
        BY <3>2, <3>3, <4>1, <4>2
    <3> QED
      BY <3>4, <3>5
  <2>2. CASE ~ok
    <3>1. said' = said /\ m.props = monitor.props
      BY <1>3, <1>5, <2>2
    <3> HIDE DEF m
    <3> QED
      BY <1>4, <3>1 DEF SpecInv
  <2> QED
    BY <2>1, <2>2
<1>7. \A f \in SpecFields : s.stats[f] = a.stats[f]
  <2>1. poll.answers.metrics.outcome # "ok"
    BY <1>1, <1>4 DEF SpecAnswers, PollIsOf
  <2>2. poll.answers.slots.outcome = "ok" => poll.answers.slots.slots = <<>>
    BY <1>1, <1>4 DEF SpecAnswers, PollIsOf
  <2> QED
    BY <1>6, <2>1, <2>2, SampleSpec DEF HeldInv, MonitorTypes
<1>8. said' # None => StatsSay(a.stats, said')
  BY <1>6, FallbackSays
<1> HIDE DEF s, m, a
<1>9. monitor' = s.monitor /\ s.monitor.props = m.props
  BY <1>2 DEF s, m, Sampled, Published
<1>10. CASE shown' = s.stats
  BY <1>1, <1>6, <1>7, <1>8, <1>9, <1>10, SameSettings DEF SpecInv, NoPoll
<1>11. CASE shown' = [last_good.stats EXCEPT !.error = None, !.reconnecting = TRUE] /\ last_good # None
  <2>1. DOMAIN last_good.stats = StatsFields
    BY <1>11 DEF HeldInv, GoodIsRecent
  <2>2. shown'.reconnecting = TRUE
    BY <1>11, <2>1 DEF StatsFields
  <2> QED
    BY <1>1, <1>6, <1>9, <2>2 DEF SpecInv, NoPoll
<1> QED
  BY <1>2, <1>10, <1>11 DEF Published, s

\* Every step keeps it.
LEMMA SpecNext == HeldInv /\ SpecInv /\ [Next]_vars => SpecInv'
<1> SUFFICES ASSUME HeldInv, SpecInv, [Next]_vars PROVE SpecInv'
  OBVIOUS
<1>1. CASE ServerStep
  <2>1. UNCHANGED <<scenario, monitor, poll, shown, said>>
    BY <1>1, ServerStepIs DEF HeldInv
  <2> QED
    BY <2>1 DEF SpecInv, SpecAnswers
<1>2. CASE Begin
  <2>1. UNCHANGED <<scenario, monitor, shown, said>> /\ DOMAIN poll'.answers = {}
    BY <1>2 DEF Begin
  <2> QED
    BY <2>1 DEF SpecInv, SpecAnswers
<1>3. ASSUME NEW endpoint \in Endpoints, Answer(endpoint) PROVE SpecInv'
  BY <1>3, SpecAnswer
<1>4. CASE Finish
  BY <1>4, SpecFinish
<1>5. CASE Tick
  <2>1. /\ UNCHANGED <<scenario, shown, said>>
        /\ monitor'.props = monitor.props
    BY <1>5, TickIs
  <2>2. scenario = "props" => poll'.stage # "asking"
    BY <1>5 DEF Tick
  <2> QED
    BY <2>1, <2>2 DEF SpecInv
<1>6. CASE UNCHANGED vars
  BY <1>6 DEF vars, SpecInv, SpecAnswers
<1> QED
  BY <1>1, <1>2, <1>3, <1>4, <1>5, <1>6 DEF Next, ServerStep

\* What the server said last about speculation stands, field by field, for any
\* replies, any local processes and any order of failures (apply_props_result,
\* apply_local_spec_fallback).
THEOREM ServerSafe == MonitorSpec => []ServerDecides
<1>1. SpecInv => ServerDecides
  BY DEF SpecInv, StatsSay, ServerDecides
<1>2. MonitorSpec => []SpecInv
  BY SpecInit, SpecNext, HeldInit, HeldNext, PTL DEF MonitorSpec
<1> QED
  BY <1>1, <1>2, PTL

-----------------------------------------------------------------------------
(* What `sample` makes of the counters.                                    *)

\* The fields of the statistics that update_metric_counters reads.
CountsIn(samples) ==
  [generated_total |-> samples.generated, spec_draft_tokens |-> samples.drafts,
   spec_accepted_tokens |-> samples.accepted]

\* The counters of /metrics after the answer has been parsed: what
\* update_metric_counters returns, or the baseline is dropped.
MetricUpdate(m, answers) ==
  LET parsed == parsed_answer(answers.metrics)
      dated == with_format(m, parsed)
  IN  IF metrics_error(answers.metrics, parsed) = None
      THEN update_metric_counters(dated, CountsIn(parsed.samples), answers.metrics.truth)
      ELSE [monitor |-> without_baseline(dated), rate |-> None, acceptance |-> None]

SlotUpdate(m, answers) ==
  LET known == MetricUpdate(m, answers).monitor
  IN  IF answers.slots.outcome = "ok"
      THEN update_live_slot_throughput(known, answers.slots.slots, answers.slots.truth)
      ELSE [monitor |-> without_slots(known), rate |-> None]

\* The rate of the slots, if there is one, else that of /metrics; Strata's own.
ChosenRate(m, answers) ==
  LET parsed == parsed_answer(answers.metrics)
  IN  IF parsed.format = "strata"
      THEN IF parsed.live.decode_tps = None THEN None
           ELSE [from |-> "strata", delta |-> parsed.live.decode_tps]
      ELSE or_else(SlotUpdate(m, answers).rate, MetricUpdate(m, answers).rate)

Measured(s, m, answers) ==
  /\ s.monitor = SlotUpdate(m, answers).monitor
  /\ s.stats.rate = ChosenRate(m, answers)
  /\ s.stats.spec_acceptance = MetricUpdate(m, answers).acceptance

\* The slots leave the counters of /metrics alone.
LEMMA SlotsKeepCounts ==
  ASSUME NEW stats, DOMAIN stats = StatsFields, NEW slots
  PROVE  \A f \in {"generated_total", "spec_draft_tokens", "spec_accepted_tokens",
                   "spec_acceptance"} : apply_slots_json(stats, slots)[f] = stats[f]
BY DEF apply_slots_json, StatsFields

\* The described sample has the counters that were parsed.
LEMMA DescribedCounts ==
  ASSUME NEW s, DOMAIN s = ChainFields, DOMAIN s.stats = StatsFields,
         DOMAIN s.monitor = MonitorFields, NEW answers
  PROVE  LET t == described(s, answers)
         IN  /\ t.stats.generated_total = s.parsed.samples.generated
             /\ t.stats.spec_draft_tokens = s.parsed.samples.drafts
             /\ t.stats.spec_accepted_tokens = s.parsed.samples.accepted
             /\ t.stats.spec_acceptance = s.stats.spec_acceptance
             /\ t.rate = s.rate
<1> DEFINE error == metrics_error(answers.metrics, s.parsed)
           a == with_metrics(s, error)
           b == with_slots(a, answers.slots)
           t == with_connection(b)
           Kept == {"generated_total", "spec_draft_tokens", "spec_accepted_tokens",
                    "spec_acceptance"}
<1> HIDE DEF error
<1>1. /\ DOMAIN a = ChainFields /\ a.rate = s.rate
      /\ a.stats = metrics_stats(s.stats, s.parsed, error)
  BY DEF with_metrics, ChainFields
<1> HIDE DEF a
<1>2. /\ DOMAIN a.stats = StatsFields
      /\ a.stats.generated_total = s.parsed.samples.generated
      /\ a.stats.spec_draft_tokens = s.parsed.samples.drafts
      /\ a.stats.spec_accepted_tokens = s.parsed.samples.accepted
      /\ a.stats.spec_acceptance = s.stats.spec_acceptance
  BY <1>1 DEF metrics_stats, StatsFields
<1>3. /\ DOMAIN b = ChainFields /\ b.rate = a.rate
      /\ DOMAIN b.stats = StatsFields
      /\ \A f \in Kept : b.stats[f] = a.stats[f]
  <2>1. CASE answers.slots.outcome = "ok"
    <3> DEFINE st == apply_slots_json(a.stats, answers.slots.slots)
    <3>1. b = [a EXCEPT !.stats = st]
      BY <2>1 DEF with_slots
    <3>2. DOMAIN st = StatsFields /\ \A f \in Kept : st[f] = a.stats[f]
      <4>1. DOMAIN st = StatsFields
        BY <1>2, SlotsStats DEF SlotsIn
      <4>2. \A f \in Kept : st[f] = a.stats[f]
        BY <1>2, SlotsKeepCounts
      <4> QED
        BY <4>1, <4>2
    <3> HIDE DEF st, b
    <3> QED
      BY <1>1, <3>1, <3>2 DEF ChainFields
  <2>2. CASE answers.slots.outcome # "ok"
    BY <1>1, <1>2, <2>2 DEF with_slots
  <2> QED
    BY <2>1, <2>2
<1> HIDE DEF b
<1>4. t.rate = b.rate /\ \A f \in Kept : t.stats[f] = b.stats[f]
  BY <1>3 DEF with_connection, ChainFields, StatsFields
<1>5. t = described(s, answers)
  BY DEF described, t, b, a, error
<1> HIDE DEF t
<1> QED
  BY <1>1, <1>2, <1>3, <1>4, <1>5

\* update_metric_counters reads three fields of the statistics.
LEMMA UpdateReads ==
  ASSUME NEW m, NEW stats, NEW samples, NEW truth,
         stats.generated_total = samples.generated,
         stats.spec_draft_tokens = samples.drafts,
         stats.spec_accepted_tokens = samples.accepted
  PROVE  update_metric_counters(m, stats, truth)
           = update_metric_counters(m, CountsIn(samples), truth)
<1> DEFINE counts == CountsIn(samples)
<1>1. /\ counts.generated_total = stats.generated_total
      /\ counts.spec_draft_tokens = stats.spec_draft_tokens
      /\ counts.spec_accepted_tokens = stats.spec_accepted_tokens
  BY DEF CountsIn
<1> HIDE DEF counts
<1>2. update_metric_counters(m, stats, truth) = update_metric_counters(m, counts, truth)
  BY <1>1, ZenonT(60) DEF update_metric_counters
<1> QED
  BY <1>2 DEF counts

\* The counters, the baselines and the rate of a sample.
LEMMA SampleMeasures ==
  ASSUME DOMAIN monitor = MonitorFields, NEW answers, NEW processes
  PROVE  Measured(sample(answers, processes),
                  local_spec_config(asked_props(answers), processes), answers)
<1> DEFINE m == local_spec_config(asked_props(answers), processes)
           parsed == parsed_answer(answers.metrics)
           dated == with_format(m, parsed)
           error == metrics_error(answers.metrics, parsed)
           ok == answers.slots.outcome = "ok"
           metric == MetricUpdate(m, answers)
           slotted == SlotUpdate(m, answers)
           a == with_props(m, parsed)
           b == described(a, answers)
           c == with_counters(b, answers.metrics)
           d == with_slot_counters(c, answers.slots)
           e == with_strata(d)
<1>0. DOMAIN m = MonitorFields
  BY AskedMonitor
<1> HIDE DEF m
<1>1. PropsOf(a, m, parsed) /\ a.rate = None /\ a.stats.spec_acceptance = None
  <2>1. PropsOf(a, m, parsed)
    BY PropsPart
  <2>2. a.rate = None
    BY DEF with_props
  <2>3. a.stats.spec_acceptance = None
    BY DEF with_props, props_stats, apply_local_spec_fallback, NoStats
  <2> QED
    BY <2>1, <2>2, <2>3
<1>2. metric = IF error = None
               THEN update_metric_counters(dated, CountsIn(parsed.samples), answers.metrics.truth)
               ELSE [monitor |-> without_baseline(dated), rate |-> None, acceptance |-> None]
  BY DEF MetricUpdate
<1>3. slotted = IF ok
                THEN update_live_slot_throughput(metric.monitor, answers.slots.slots,
                                                 answers.slots.truth)
                ELSE [monitor |-> without_slots(metric.monitor), rate |-> None]
  BY DEF SlotUpdate
<1> HIDE DEF a, parsed, metric, slotted, error, ok, dated
<1>4. /\ DOMAIN b = ChainFields /\ DOMAIN b.stats = StatsFields
      /\ b.parsed = parsed /\ b.monitor = dated
      /\ b.stats.metrics_available = (error = None)
  <2>1. DescribedBy(b, a, answers)
    BY <1>0, <1>1, DescribedPart DEF PropsOf
  <2> HIDE DEF b
  <2> QED
    BY <1>1, <2>1 DEF PropsOf, DescribedBy, error, dated
<1>5. /\ b.stats.generated_total = parsed.samples.generated
      /\ b.stats.spec_draft_tokens = parsed.samples.drafts
      /\ b.stats.spec_accepted_tokens = parsed.samples.accepted
      /\ b.stats.spec_acceptance = None
      /\ b.rate = None
  BY <1>0, <1>1, DescribedCounts DEF PropsOf
<1> HIDE DEF b
<1>6. /\ DOMAIN c = ChainFields /\ DOMAIN c.stats = StatsFields
      /\ c.parsed = parsed
      /\ c.monitor = metric.monitor /\ c.rate = metric.rate
      /\ c.stats.spec_acceptance = metric.acceptance
  <2>1. CASE error = None
    <3>1. c = counted(b, update_metric_counters(b.monitor, b.stats, answers.metrics.truth))
      BY <1>4, <2>1 DEF with_counters
    <3>2. update_metric_counters(b.monitor, b.stats, answers.metrics.truth) = metric
      BY <1>2, <1>4, <1>5, <2>1, UpdateReads
    <3>3. c = counted(b, metric)
      BY <3>1, <3>2
    <3> HIDE DEF c
    <3>4. /\ DOMAIN c = ChainFields /\ c.parsed = b.parsed /\ c.monitor = metric.monitor
          /\ c.rate = metric.rate
          /\ c.stats = [b.stats EXCEPT !.spec_acceptance = metric.acceptance]
      BY <1>4, <3>3 DEF counted, ChainFields
    <3> QED
      BY <1>4, <3>4 DEF StatsFields
  <2>2. CASE error # None
    <3>1. c = [b EXCEPT !.monitor = without_baseline(b.monitor)]
      BY <1>4, <2>2 DEF with_counters
    <3> HIDE DEF c
    <3>2. /\ DOMAIN c = ChainFields /\ c.parsed = b.parsed /\ c.stats = b.stats
          /\ c.monitor = without_baseline(dated) /\ c.rate = b.rate
      BY <1>4, <3>1 DEF ChainFields
    <3>3. /\ metric.monitor = without_baseline(dated) /\ metric.rate = None
          /\ metric.acceptance = None
      BY <1>2, <2>2
    <3> QED
      BY <1>4, <1>5, <3>2, <3>3
  <2> QED
    BY <2>1, <2>2
<1> HIDE DEF c
<1>7. /\ DOMAIN d = ChainFields /\ DOMAIN d.stats = StatsFields
      /\ d.parsed = parsed
      /\ d.monitor = slotted.monitor
      /\ d.stats.rate = or_else(slotted.rate, metric.rate)
      /\ d.stats.spec_acceptance = metric.acceptance
  <2>1. CASE ok
    <3>1. d = [c EXCEPT !.monitor = slotted.monitor,
                        !.stats.rate = or_else(slotted.rate, metric.rate)]
      BY <1>3, <1>6, <2>1
         DEF with_slot_counters, slot_counted, choose_live_throughput, ok
    <3> HIDE DEF d
    <3>2. /\ DOMAIN d = ChainFields /\ d.parsed = c.parsed /\ d.monitor = slotted.monitor
          /\ d.stats = [c.stats EXCEPT !.rate = or_else(slotted.rate, metric.rate)]
      BY <1>6, <3>1 DEF ChainFields
    <3> QED
      BY <1>6, <3>2 DEF StatsFields
  <2>2. CASE ~ok
    <3>1. d = [c EXCEPT !.monitor = without_slots(c.monitor), !.stats.rate = c.rate]
      BY <2>2 DEF with_slot_counters, ok
    <3> HIDE DEF d
    <3>2. /\ DOMAIN d = ChainFields /\ d.parsed = c.parsed
          /\ d.monitor = without_slots(c.monitor)
          /\ d.stats = [c.stats EXCEPT !.rate = c.rate]
      BY <1>6, <3>1 DEF ChainFields
    <3>3. slotted.monitor = without_slots(metric.monitor) /\ slotted.rate = None
      BY <1>3, <2>2
    <3>4. or_else(slotted.rate, metric.rate) = metric.rate
      BY <3>3 DEF or_else
    <3> QED
      BY <1>6, <3>2, <3>3, <3>4 DEF StatsFields
  <2> QED
    BY <2>1, <2>2
<1> HIDE DEF d
<1>8. /\ e.monitor = slotted.monitor
      /\ e.stats.rate = ChosenRate(m, answers)
      /\ e.stats.spec_acceptance = metric.acceptance
  <2>1. CASE parsed.format = "strata"
    <3>1. e.monitor = d.monitor /\ e.stats = strata_stats(d.stats, parsed.live)
      BY <1>7, <2>1 DEF with_strata, ChainFields
    <3> HIDE DEF e
    <3>2. /\ e.stats.spec_acceptance = d.stats.spec_acceptance
          /\ e.stats.rate = IF parsed.live.decode_tps = None THEN None
                            ELSE [from |-> "strata", delta |-> parsed.live.decode_tps]
      BY <1>7, <3>1 DEF strata_stats, StatsFields
    <3> QED
      BY <1>7, <2>1, <3>1, <3>2 DEF ChosenRate, parsed
  <2>2. CASE parsed.format # "strata"
    BY <1>7, <2>2 DEF with_strata, ChosenRate, parsed, slotted, metric
  <2> QED
    BY <2>1, <2>2
<1> HIDE DEF e
<1>9. e = sample(answers, processes)
  BY DEF sample, e, d, c, b, a, m, parsed
<1>10. Measured(e, m, answers)
  BY <1>8 DEF Measured, slotted, metric
<1> QED
  BY <1>9, <1>10 DEF m

\* The monitor of a running poll has the counters it had before.
LEMMA AskedKeeps ==
  ASSUME DOMAIN monitor = MonitorFields, NEW answers, NEW processes
  PROVE  LET m == local_spec_config(asked_props(answers), processes)
         IN  /\ DOMAIN m = MonitorFields
             /\ \A f \in MonitorFields \ {"props", "props_age", "props_dirty", "local_spec",
                                          "local_spec_age"} : m[f] = monitor[f]
<1> DEFINE n == asked_props(answers)
           Kept == MonitorFields \ {"props", "props_age", "props_dirty", "local_spec",
                                    "local_spec_age"}
<1>1. DOMAIN n = MonitorFields /\ \A f \in Kept : n[f] = monitor[f]
  BY DEF asked_props, apply_props_result, MonitorFields
<1> HIDE DEF n
<1>2. /\ DOMAIN local_spec_config(n, processes) = MonitorFields
      /\ \A f \in Kept : local_spec_config(n, processes)[f] = n[f]
  BY <1>1 DEF local_spec_config, MonitorFields
<1> QED
  BY <1>1, <1>2 DEF n

-----------------------------------------------------------------------------
(* What /metrics is parsed to.                                             *)

\* A count that is reported, or missing.
Reported(value, count) == value = None \/ value = count

\* What a body says is of the server that answered.
ParsedFrom(parsed, truth, generated) ==
  /\ Reported(parsed.samples.generated, generated)
  /\ Reported(parsed.samples.drafts, truth.drafts)
  /\ Reported(parsed.samples.accepted, truth.accepted)
  /\ parsed.format = "strata" => Reported(parsed.since, truth.run)

Groups == {"totals", "live", "engine", "conversationcache"}

\* A key directly in a group matches the alias it spells.
LEMMA DirectMatches ==
  ASSUME NEW group \in Groups, NEW key, NEW value, NEW wanted
  PROVE  leaf_matches([path |-> <<group, key>>, value |-> value], wanted) <=> key = wanted
<1> DEFINE leaf == [path |-> <<group, key>>, value |-> value]
<1>1. Len(leaf.path) = 2 /\ leaf.path[1] = group /\ leaf.path[2] = key
  OBVIOUS
<1>2. <<leaf.path[1], leaf.path[2]>> \notin DOMAIN joined
  BY JoinedAssumption DEF Groups
<1> HIDE DEF leaf
<1>3. leaf_matches(leaf, wanted) <=> key = wanted
  BY <1>1, <1>2 DEF leaf_matches
<1> QED
  BY <1>3 DEF leaf

\* The counter of accepted drafts one level further down.
LEMMA NestedMatches ==
  ASSUME NEW value, NEW wanted,
         leaf_matches([path |-> <<"totals", "drafts", "accepted">>, value |-> value], wanted)
  PROVE  wanted \in {"accepted", "draftsaccepted"}
<1> DEFINE leaf == [path |-> <<"totals", "drafts", "accepted">>, value |-> value]
<1>1. Len(leaf.path) = 3 /\ leaf.path[3] = "accepted" /\ leaf.path[2] = "drafts"
  OBVIOUS
<1>2. leaf_matches(leaf, wanted)
  OBVIOUS
<1> HIDE DEF leaf
<1>3. \/ wanted = "accepted"
      \/ /\ <<"drafts", "accepted">> \in DOMAIN joined
         /\ joined[<<"drafts", "accepted">>] = wanted
  BY <1>1, <1>2 DEF leaf_matches
<1> QED
  BY <1>3, JoinedAssumption

\* The first alias decides, and inside the group one leaf can match it.
LEMMA ResolvesTo ==
  ASSUME NEW leaves, NEW aliases, NEW group, NEW n \in Nat, DOMAIN aliases = 1 .. n, n > 0,
         \E leaf \in leaves : leaf_matches(leaf, aliases[1]),
         NEW path, Len(path) \in Nat, NEW value,
         \A leaf \in leaves : leaf_matches(leaf, aliases[1]) /\ Contains(leaf.path, group)
                                => leaf = [path |-> path, value |-> value]
  PROVE  Reported(resolve(leaves, aliases, group, TRUE), value)
<1> DEFINE matching(alias) == {leaf \in leaves : leaf_matches(leaf, alias)}
           spelled == {i \in DOMAIN aliases : matching(aliases[i]) # {}}
           found == matching(aliases[Min(spelled)])
           in_group == {leaf \in found : Contains(leaf.path, group)}
           sole == [path |-> path, value |-> value]
<1>1. spelled \in SUBSET Nat /\ 1 \in spelled /\ \A i \in spelled : 1 <= i
  OBVIOUS
<1>2. Min(spelled) = 1
  <2> DEFINE first == Min(spelled)
  <2> HIDE DEF spelled
  <2>1. first \in spelled /\ first <= 1
    BY <1>1, MinMember
  <2>2. first \in Nat /\ 1 <= first
    BY <1>1, <2>1
  <2> HIDE DEF first
  <2>3. first = 1
    BY <2>1, <2>2
  <2> QED
    BY <2>3 DEF first
<1>3. found = matching(aliases[1])
  BY <1>2
<1>4. in_group \subseteq {sole}
  BY <1>3
<1>5. resolve(leaves, aliases, group, TRUE)
        = IF in_group # {} THEN shallowest(in_group).value ELSE None
  BY <1>1 DEF resolve
<1> HIDE DEF in_group, found, spelled
<1>6. in_group # {} => shallowest(in_group) = sole
  <2>1. in_group # {} => in_group = {sole} /\ Len(sole.path) <= Len(sole.path)
    BY <1>4
  <2> QED
    BY <2>1 DEF shallowest
<1>7. sole.value = value
  OBVIOUS
<1> HIDE DEF sole
<1>8. CASE in_group = {}
  BY <1>5, <1>8 DEF Reported
<1>9. CASE in_group # {}
  BY <1>5, <1>6, <1>7, <1>9 DEF Reported
<1> QED
  BY <1>8, <1>9

\* The leaves of a Strata body of the server.
StrataLeaves(leaves) ==
  LET at(path, value) == [path |-> path, value |-> value]
      always == {at(<<"totals", "outputtokens">>, server.generated), at(<<"live", "toks">>, 1),
                 at(<<"engine", "maxcontext">>, 2),
                 at(<<"conversationcache", "draftsaccepted">>, 0),
                 at(<<"totals", "draftsoffered">>, server.drafts)}
  IN  /\ always \subseteq leaves
      /\ leaves \subseteq always \union {at(<<"totals", "since">>, server.run),
                                         at(<<"totals", "drafts", "accepted">>, server.accepted)}

LEMMA BodyLeaves ==
  ASSUME NEW body \in StrataBodies
  PROVE  StrataLeaves(body.leaves) /\ "totals" \in body.groups
BY DEF StrataBodies, StrataLeaves

\* The three counters of a Strata body: no look-alike of another group.
LEMMA StrataResolves ==
  ASSUME NEW leaves, StrataLeaves(leaves)
  PROVE  /\ Reported(resolve(leaves, CANONICAL["generated"].aliases, "totals", TRUE),
                     server.generated)
         /\ Reported(resolve(leaves, CANONICAL["draft_tokens"].aliases, "totals", TRUE),
                     server.drafts)
         /\ Reported(resolve(leaves, CANONICAL["accepted_tokens"].aliases, "totals", TRUE),
                     server.accepted)
<1> DEFINE at(path, value) == [path |-> path, value |-> value]
           generated == at(<<"totals", "outputtokens">>, server.generated)
           live == at(<<"live", "toks">>, 1)
           capacity == at(<<"engine", "maxcontext">>, 2)
           cached == at(<<"conversationcache", "draftsaccepted">>, 0)
           offered == at(<<"totals", "draftsoffered">>, server.drafts)
           since == at(<<"totals", "since">>, server.run)
           accepted == at(<<"totals", "drafts", "accepted">>, server.accepted)
<1>1. /\ {generated, live, capacity, cached, offered} \subseteq leaves
      /\ leaves \subseteq {generated, live, capacity, cached, offered, since, accepted}
  BY DEF StrataLeaves
<1>2. \A wanted :
        /\ leaf_matches(generated, wanted) <=> wanted = "outputtokens"
        /\ leaf_matches(live, wanted) <=> wanted = "toks"
        /\ leaf_matches(capacity, wanted) <=> wanted = "maxcontext"
        /\ leaf_matches(cached, wanted) <=> wanted = "draftsaccepted"
        /\ leaf_matches(offered, wanted) <=> wanted = "draftsoffered"
        /\ leaf_matches(since, wanted) <=> wanted = "since"
        /\ leaf_matches(accepted, wanted) => wanted \in {"accepted", "draftsaccepted"}
  BY DirectMatches, NestedMatches DEF Groups
<1>3. ~Contains(cached.path, "totals")
  BY DEF Contains
<1> HIDE DEF generated, live, capacity, cached, offered, since, accepted
<1>4. Reported(resolve(leaves, CANONICAL["generated"].aliases, "totals", TRUE), server.generated)
  <2> DEFINE aliases == CANONICAL["generated"].aliases
  <2>1. DOMAIN aliases = 1 .. 2 /\ aliases[1] = "outputtokens"
    BY DEF CANONICAL
  <2> HIDE DEF aliases
  <2>2. leaf_matches(generated, aliases[1]) /\ generated \in leaves
    BY <1>1, <1>2, <2>1
  <2>3. \A leaf \in leaves : leaf_matches(leaf, aliases[1]) => leaf = generated
    BY <1>1, <1>2, <2>1
  <2>4. generated = [path |-> <<"totals", "outputtokens">>, value |-> server.generated]
    BY DEF generated
  <2> DEFINE path == <<"totals", "outputtokens">>
  <2>5. Len(path) \in Nat
    OBVIOUS
  <2>6. \A leaf \in leaves :
          leaf_matches(leaf, aliases[1]) /\ Contains(leaf.path, "totals")
            => leaf = [path |-> path, value |-> server.generated]
    BY <2>3, <2>4
  <2>7. \E leaf \in leaves : leaf_matches(leaf, aliases[1])
    BY <2>2
  <2> HIDE DEF path
  <2>8. Reported(resolve(leaves, aliases, "totals", TRUE), server.generated)
    BY <2>1, <2>5, <2>6, <2>7, ResolvesTo, 2 \in Nat, 2 > 0, Zenon
  <2> QED
    BY <2>8 DEF aliases
<1>5. Reported(resolve(leaves, CANONICAL["draft_tokens"].aliases, "totals", TRUE), server.drafts)
  <2> DEFINE aliases == CANONICAL["draft_tokens"].aliases
  <2>1. DOMAIN aliases = 1 .. 2 /\ aliases[1] = "draftsoffered"
    BY DEF CANONICAL
  <2> HIDE DEF aliases
  <2>2. leaf_matches(offered, aliases[1]) /\ offered \in leaves
    BY <1>1, <1>2, <2>1
  <2>3. \A leaf \in leaves : leaf_matches(leaf, aliases[1]) => leaf = offered
    BY <1>1, <1>2, <2>1
  <2>4. offered = [path |-> <<"totals", "draftsoffered">>, value |-> server.drafts]
    BY DEF offered
  <2> DEFINE path == <<"totals", "draftsoffered">>
  <2>5. Len(path) \in Nat
    OBVIOUS
  <2>6. \A leaf \in leaves :
          leaf_matches(leaf, aliases[1]) /\ Contains(leaf.path, "totals")
            => leaf = [path |-> path, value |-> server.drafts]
    BY <2>3, <2>4
  <2>7. \E leaf \in leaves : leaf_matches(leaf, aliases[1])
    BY <2>2
  <2> HIDE DEF path
  <2>8. Reported(resolve(leaves, aliases, "totals", TRUE), server.drafts)
    BY <2>1, <2>5, <2>6, <2>7, ResolvesTo, 2 \in Nat, 2 > 0, Zenon
  <2> QED
    BY <2>8 DEF aliases
<1>6. Reported(resolve(leaves, CANONICAL["accepted_tokens"].aliases, "totals", TRUE),
               server.accepted)
  <2> DEFINE aliases == CANONICAL["accepted_tokens"].aliases
  <2>1. DOMAIN aliases = 1 .. 2 /\ aliases[1] = "draftsaccepted"
    BY DEF CANONICAL
  <2> HIDE DEF aliases
  <2>2. leaf_matches(cached, aliases[1]) /\ cached \in leaves
    BY <1>1, <1>2, <2>1
  <2>3. \A leaf \in leaves : leaf_matches(leaf, aliases[1]) => leaf = cached \/ leaf = accepted
    BY <1>1, <1>2, <2>1
  <2>4. accepted = [path |-> <<"totals", "drafts", "accepted">>, value |-> server.accepted]
    BY DEF accepted
  <2> DEFINE path == <<"totals", "drafts", "accepted">>
  <2>5. Len(path) \in Nat
    OBVIOUS
  <2>6. \A leaf \in leaves :
          leaf_matches(leaf, aliases[1]) /\ Contains(leaf.path, "totals")
            => leaf = [path |-> path, value |-> server.accepted]
    BY <1>3, <2>3, <2>4
  <2>7. \E leaf \in leaves : leaf_matches(leaf, aliases[1])
    BY <2>2
  <2> HIDE DEF path
  <2>8. Reported(resolve(leaves, aliases, "totals", TRUE), server.accepted)
    BY <2>1, <2>5, <2>6, <2>7, ResolvesTo, 2 \in Nat, 2 > 0, Zenon
  <2> QED
    BY <2>8 DEF aliases
<1> QED
  BY <1>4, <1>5, <1>6

\* Whatever the format of the body: its counters are the server's, or missing.
LEMMA ParsedIs ==
  ASSUME NEW answer \in MetricsAnswers, answer.outcome = "ok",
         server.format \in {"prometheus", "strata"}
  PROVE  /\ answer.truth = Truth
         /\ ParsedFrom(parse_metrics_body(answer), Truth, server.generated)
<1> DEFINE Bodies == IF scenario \in {"context", "props"} THEN {}
                     ELSE IF server.format = "prometheus" THEN PrometheusBodies
                     ELSE StrataBodies \union {[groups |-> {"totals"}, state |-> None, leaves |-> {}]}
           json == server.format = "strata"
           Answered(body) == [outcome |-> "ok", json |-> json, body |-> body, truth |-> Truth]
           parsed == parse_metrics_body(answer)
<1>1. PICK body \in Bodies : answer = Answered(body)
  <2>1. \/ \E body \in Bodies : answer = Answered(body)
        \/ \E why \in {"unreachable", "http 501"} : answer = Failure(why)
    BY DEF MetricsAnswers
  <2>2. \A why \in {"unreachable", "http 501"} : Failure(why).outcome # "ok"
    BY DEF Failure
  <2> QED
    BY <2>1, <2>2
<1>2. answer.truth = Truth /\ answer.json = json /\ answer.body = body
  BY <1>1
<1>3. Truth.drafts = server.drafts /\ Truth.accepted = server.accepted /\ Truth.run = server.run
  BY DEF Truth
<1>4. CASE ~json
  <2>1. parsed.samples = body /\ parsed.format = "prometheus"
    BY <1>2, <1>4 DEF parse_metrics_body
  <2>2. /\ Reported(body.generated, server.generated)
        /\ Reported(body.drafts, server.drafts)
        /\ Reported(body.accepted, server.accepted)
    <3> DEFINE samples ==
                 [NoMetrics EXCEPT !.generated = server.generated,
                                   !.drafts = IF scenario = "counters" THEN server.drafts ELSE None,
                                   !.accepted = IF scenario = "counters" THEN server.accepted
                                                ELSE None]
    <3>1. body \in PrometheusBodies
      <4>1. server.format # "strata"
        BY <1>4
      <4> QED
        BY <1>1, <4>1 
    <3>2. \/ body = samples \/ body = [samples EXCEPT !.accepted = None] \/ body = NoMetrics
      BY <3>1 DEF PrometheusBodies
    <3>3. /\ DOMAIN samples = DOMAIN NoMetrics
          /\ samples.generated = server.generated
          /\ Reported(samples.drafts, server.drafts)
          /\ Reported(samples.accepted, server.accepted)
      BY DEF NoMetrics, Reported
    <3> HIDE DEF samples
    <3>4. CASE body = samples
      BY <3>3, <3>4 DEF Reported
    <3>5. CASE body = [samples EXCEPT !.accepted = None]
      BY <3>3, <3>5 DEF NoMetrics, Reported
    <3>6. CASE body = NoMetrics
      BY <3>6 DEF NoMetrics, Reported
    <3> QED
      BY <3>2, <3>4, <3>5, <3>6
  <2> QED
    BY <1>2, <1>3, <2>1, <2>2 DEF ParsedFrom
<1>5. CASE json /\ is_strata_metrics(body)
  <2>1. body \in StrataBodies
    <3>1. body # [groups |-> {"totals"}, state |-> None, leaves |-> {}]
      BY <1>5 DEF is_strata_metrics, MARKER_GROUPS
    <3> QED
      BY <1>1, <1>5, <3>1
  <2>2. StrataLeaves(body.leaves) /\ "totals" \in body.groups
    BY <2>1, BodyLeaves
  <2> DEFINE found == extract_samples(body)
  <2>3. /\ found.generated = resolve(body.leaves, CANONICAL["generated"].aliases, "totals", TRUE)
        /\ found.draft_tokens
             = resolve(body.leaves, CANONICAL["draft_tokens"].aliases, "totals", TRUE)
        /\ found.accepted_tokens
             = resolve(body.leaves, CANONICAL["accepted_tokens"].aliases, "totals", TRUE)
    BY <2>2 DEF extract_samples, CANONICAL
  <2>4. /\ Reported(found.generated, server.generated)
        /\ Reported(found.draft_tokens, server.drafts)
        /\ Reported(found.accepted_tokens, server.accepted)
    BY <2>2, <2>3, StrataResolves
  <2> HIDE DEF found
  <2>5. /\ parsed.samples.generated = found.generated
        /\ parsed.samples.drafts = found.draft_tokens
        /\ parsed.samples.accepted = found.accepted_tokens
        /\ parsed.since = totals_since(body)
    BY <1>2, <1>5 DEF parse_metrics_body, NoMetrics, found
  <2>6. Reported(totals_since(body), server.run)
    <3> DEFINE path == <<"totals", "since">>
    <3>1. \A leaf \in body.leaves : leaf.path = path => leaf.value = server.run
      BY <2>2 DEF StrataLeaves
    <3> QED
      BY <3>1 DEF totals_since, number_at, Reported
  <2> QED
    BY <1>2, <1>3, <2>4, <2>5, <2>6 DEF ParsedFrom
<1>6. CASE json /\ ~is_strata_metrics(body)
  <2>1. parsed.samples = NoMetrics /\ parsed.format = None
    BY <1>2, <1>6 DEF parse_metrics_body
  <2>2. None # "strata"
    BY LabelsAssumption
  <2> QED
    BY <1>2, <2>1, <2>2 DEF ParsedFrom, NoMetrics, Reported
<1> QED
  BY <1>4, <1>5, <1>6

-----------------------------------------------------------------------------
(* The counters of /metrics against the server.                            *)

CountTypes ==
  /\ server.run \in Nat /\ done \in Nat
  /\ server.generated \in Nat /\ server.drafts \in Nat /\ server.accepted \in Nat
  /\ server.format \in {"prometheus", "strata"}

TruthTyped(truth) ==
  {truth.run, truth.done, truth.drafts, truth.accepted} \subseteq Nat

\* From one moment of the server to a later one: over one run its counter grows
\* with the tokens it generates; after a restart it has counted some of them.
Followed(truth, generated, later, generated_later) ==
  /\ truth.run <= later.run /\ truth.done <= later.done
  /\ truth.run = later.run => generated_later - generated = later.done - truth.done
  /\ truth.run < later.run => generated_later <= later.done - truth.done

\* The counters kept in b are of a moment before this one.
FollowedBy(b, truth, generated) ==
  b # None => \E g \in Nat : Reported(b.generated, g) /\ Followed(b.truth, g, truth, generated)

\* The baseline of a monitor m: its counters are those of the server at its
\* moment, no failure came since, and what Strata said of the run is still known.
BaselineIs(m) ==
  LET b == m.previous_metrics
  IN  b # None =>
        /\ DOMAIN b = {"age", "generated", "drafts", "accepted", "truth", "since_known"}
        /\ b.age \in {0, 1}
        /\ TruthTyped(b.truth)
        /\ Reported(b.drafts, b.truth.drafts) /\ Reported(b.accepted, b.truth.accepted)
        /\ ~m.metrics_gap
        /\ m.last_metrics_format # None
        /\ b.since_known <=> m.last_strata_since # None
        /\ m.last_metrics_format = "strata" => Reported(m.last_strata_since, b.truth.run)

\* What RateIsReal and AcceptanceIsMeasured ask of one rate and of one share.
RealRate(rate) ==
  rate # None /\ rate.from # "strata" =>
    /\ rate.seconds > 0
    /\ ~rate.gap
    /\ rate.delta <= rate.work
    /\ rate.same_run /\ rate.from = "metrics" => rate.delta = rate.work

RealShare(share) ==
  share # None =>
    /\ share.drafts > 0
    /\ share.same_run => share.real
    /\ share.dated => share.same_run

\* One moment follows another that follows a third.
LEMMA FollowedFurther ==
  ASSUME NEW a, NEW b, NEW c, NEW f \in Nat, NEW g \in Nat, NEW h \in Nat,
         TruthTyped(a), TruthTyped(b), TruthTyped(c),
         Followed(a, f, b, g), Followed(b, g, c, h)
  PROVE  Followed(a, f, c, h)
<1> DEFINE ar == a.run
           br == b.run
           cr == c.run
           ad == a.done
           bd == b.done
           cd == c.done
<1>1. {ar, br, cr, ad, bd, cd} \subseteq Nat
  BY DEF TruthTyped
<1>2. /\ ar <= br /\ ad <= bd
      /\ ar = br => g - f = bd - ad
      /\ ar < br => g <= bd - ad
  BY DEF Followed
<1>3. /\ br <= cr /\ bd <= cd
      /\ br = cr => h - g = cd - bd
      /\ br < cr => h <= cd - bd
  BY DEF Followed
<1> HIDE DEF ar, br, cr, ad, bd, cd
<1>4. /\ ar <= cr /\ ad <= cd
      /\ ar = cr => h - f = cd - ad
      /\ ar < cr => h <= cd - ad
  BY <1>1, <1>2, <1>3
<1> QED
  BY <1>4 DEF Followed, ar, cr, ad, cd

\* The truth of an answer is what the server had done.
LEMMA TruthIs ==
  ASSUME CountTypes
  PROVE  /\ TruthTyped(Truth) /\ Truth.run = server.run /\ Truth.done = done
         /\ Followed(Truth, server.generated, Truth, server.generated)
BY DEF CountTypes, Truth, TruthTyped, Followed

\* Whatever the server does, the moment after follows the one before.
LEMMA ServerCounts ==
  ASSUME MonitorTypes, CountTypes, ServerStep
  PROVE  CountTypes' /\ Followed(Truth, server.generated, Truth', server.generated')
<1> DEFINE Moves(s, d) ==
             /\ s.run \in Nat /\ d \in Nat
             /\ s.generated \in Nat /\ s.drafts \in Nat /\ s.accepted \in Nat
             /\ s.format \in {"prometheus", "strata"}
             /\ \/ s.run = server.run /\ s.generated - server.generated = d - done
                   /\ done <= d
                \/ s.run = server.run + 1 /\ s.generated = 0 /\ d = done
<1>1. Moves(server', done')
  <2>1. DOMAIN server = ServerFields
    BY DEF MonitorTypes
  <2>2. CASE Generate
    <3>1. PICK accepted \in {0, 1} :
            server' = [server EXCEPT !.generated = @ + 1, !.drafts = @ + 1,
                                     !.accepted = @ + accepted]
      BY <2>2 DEF Generate
    <3>2. /\ server'.run = server.run /\ server'.format = server.format
          /\ server'.generated = server.generated + 1 /\ server'.drafts = server.drafts + 1
          /\ server'.accepted = server.accepted + accepted
      BY <2>1, <3>1 DEF ServerFields
    <3>3. done' = done + 1
      BY <2>2 DEF Generate
    <3> QED
      BY <3>2, <3>3 DEF CountTypes
  <2>3. ASSUME NEW id \in SlotIds, Decode(id) PROVE Moves(server', done')
    <3>1. /\ server'.run = server.run /\ server'.format = server.format
          /\ server'.generated = server.generated + 1 /\ server'.drafts = server.drafts
          /\ server'.accepted = server.accepted /\ done' = done + 1
      BY <2>1, <2>3 DEF Decode, ServerFields
    <3> QED
      BY <3>1 DEF CountTypes
  <2>4. ASSUME NEW id \in SlotIds, NewTask(id) \/ EndTask(id) PROVE Moves(server', done')
    <3>1. /\ server'.run = server.run /\ server'.format = server.format
          /\ server'.generated = server.generated /\ server'.drafts = server.drafts
          /\ server'.accepted = server.accepted /\ done' = done
      BY <2>1, <2>4 DEF NewTask, EndTask, ServerFields
    <3> QED
      BY <3>1 DEF CountTypes
  <2>5. CASE Restart
    <3>1. PICK format \in Formats, model \in ModelChoices :
            server' = FreshServer(server.run + 1, format, model)
      BY <2>5 DEF Restart
    <3>2. /\ server'.run = server.run + 1 /\ server'.format = format
          /\ server'.generated = 0 /\ server'.drafts = 0 /\ server'.accepted = 0
      BY <3>1 DEF FreshServer
    <3>3. done' = done /\ format \in {"prometheus", "strata"}
      BY <2>5 DEF Restart, Formats
    <3> QED
      BY <3>2, <3>3 DEF CountTypes
  <2>6. CASE ChangeReachability
    <3>1. /\ server'.run = server.run /\ server'.format = server.format
          /\ server'.generated = server.generated /\ server'.drafts = server.drafts
          /\ server'.accepted = server.accepted /\ done' = done
      BY <2>1, <2>6 DEF ChangeReachability, ServerFields
    <3> QED
      BY <3>1 DEF CountTypes
  <2> QED
    BY <2>2, <2>3, <2>4, <2>5, <2>6 DEF ServerStep
<1>2. /\ Truth.run = server.run /\ Truth.done = done
      /\ Truth'.run = server'.run /\ Truth'.done = done'
  BY DEF Truth
<1> QED
  BY <1>1, <1>2 DEF CountTypes, Followed

\* with_format: the baseline survives only if it is comparable.
LEMMA FormatIs ==
  ASSUME NEW m, DOMAIN m = MonitorFields, NEW parsed
  PROVE  LET k == with_format(m, parsed)
         IN  /\ DOMAIN k = MonitorFields
             /\ k.previous_metrics = comparable_baseline(m, parsed)
             /\ k.last_metrics_format = parsed.format
             /\ k.last_strata_since = IF parsed.format = "strata" THEN parsed.since
                                      ELSE m.last_strata_since
             /\ \A f \in MonitorFields \ {"previous_metrics", "last_metrics_format",
                                          "last_strata_since"} : k[f] = m[f]
BY DEF with_format, MonitorFields

\* A baseline that survives is of the same format, and of the same run where
\* Strata dates both.
LEMMA Comparable ==
  ASSUME NEW m, NEW parsed, BaselineIs(m),
         comparable_baseline(m, parsed) # None
  PROVE  /\ comparable_baseline(m, parsed) = m.previous_metrics /\ m.previous_metrics # None
         /\ m.last_metrics_format = parsed.format
         /\ parsed.format = "strata" /\ parsed.since # None /\ m.last_strata_since # None
              => parsed.since = m.last_strata_since
BY DEF comparable_baseline, BaselineIs

\* A monitor whose counters were renewed.
RenewedTo(u, truth, g) ==
  u.previous_metrics.truth = truth /\ Reported(u.previous_metrics.generated, g)

\* update_metric_counters measures between the baseline and this answer.
LEMMA UpdateMeasures ==
  ASSUME NEW k, DOMAIN k = MonitorFields, NEW samples, NEW truth, NEW g \in Nat,
         TruthTyped(truth),
         Reported(samples.generated, g), Reported(samples.drafts, truth.drafts),
         Reported(samples.accepted, truth.accepted),
         FollowedBy(k.previous_metrics, truth, g),
         k.last_metrics_format # None,
         k.last_metrics_format = "strata" => Reported(k.last_strata_since, truth.run),
         LET b == k.previous_metrics
         IN  b # None =>
               /\ b.age \in {0, 1}
               /\ TruthTyped(b.truth)
               /\ Reported(b.drafts, b.truth.drafts) /\ Reported(b.accepted, b.truth.accepted)
               /\ ~k.metrics_gap
               /\ /\ k.last_metrics_format = "strata"
                  /\ b.since_known
                  /\ k.last_strata_since # None
                  => truth.run = b.truth.run,
         RealShare(k.acceptance)
  PROVE  LET u == update_metric_counters(k, CountsIn(samples), truth)
         IN  /\ DOMAIN u.monitor = MonitorFields
             /\ BaselineIs(u.monitor)
             /\ RenewedTo(u.monitor, truth, g)
             /\ RealShare(u.monitor.acceptance) /\ RealShare(u.acceptance) /\ RealRate(u.rate)
             /\ \A f \in MonitorFields \ {"previous_metrics", "metrics_gap", "acceptance",
                                          "acceptance_age"} : u.monitor[f] = k[f]
<1> DEFINE stats == CountsIn(samples)
           previous == k.previous_metrics
           drafts == counter_delta_opt(stats.spec_draft_tokens, previous.drafts)
           accepted == counter_delta_opt(stats.spec_accepted_tokens, previous.accepted)
           same_run == truth.run = previous.truth.run
           real == /\ drafts = truth.drafts - previous.truth.drafts
                   /\ accepted = truth.accepted - previous.truth.accepted
           dated == /\ k.last_metrics_format = "strata"
                    /\ previous.since_known /\ k.last_strata_since # None
           measured == [accepted |-> accepted, drafts |-> drafts, same_run |-> same_run,
                        real |-> real, dated |-> dated]
           since_known == k.last_strata_since # None
           baseline == [age |-> 0, generated |-> stats.generated_total,
                        drafts |-> stats.spec_draft_tokens,
                        accepted |-> stats.spec_accepted_tokens,
                        truth |-> truth, since_known |-> since_known]
           renewed == [k EXCEPT !.previous_metrics = baseline, !.metrics_gap = FALSE]
           delta == counter_delta_opt(stats.generated_total, previous.generated)
           rate == rate_of("metrics", delta, previous.age, previous, truth, k.metrics_gap)
           Drafted == positive(drafts) /\ accepted # None
           held == IF k.acceptance_age # None /\ k.acceptance_age <= SPEC_ACCEPTANCE_HOLD
                   THEN k.acceptance ELSE None
           u == update_metric_counters(k, stats, truth)
           Kept == MonitorFields \ {"previous_metrics", "metrics_gap", "acceptance",
                                    "acceptance_age"}
<1>0. /\ stats.generated_total = samples.generated /\ stats.spec_draft_tokens = samples.drafts
      /\ stats.spec_accepted_tokens = samples.accepted
  BY DEF CountsIn
<1>1. u = IF previous = None THEN [monitor |-> renewed, rate |-> None, acceptance |-> None]
          ELSE IF Drafted
          THEN [monitor |-> [renewed EXCEPT !.acceptance = measured, !.acceptance_age = 0],
                rate |-> rate, acceptance |-> measured]
          ELSE [monitor |-> renewed, rate |-> rate, acceptance |-> held]
  BY DEF update_metric_counters
<1>2. /\ DOMAIN renewed = MonitorFields
      /\ renewed.previous_metrics = baseline /\ renewed.metrics_gap = FALSE
      /\ \A f \in MonitorFields \ {"previous_metrics", "metrics_gap"} : renewed[f] = k[f]
  BY DEF MonitorFields
<1>3. /\ DOMAIN baseline = {"age", "generated", "drafts", "accepted", "truth", "since_known"}
      /\ baseline.age = 0 /\ baseline.truth = truth /\ baseline.since_known = since_known
      /\ baseline.generated = samples.generated /\ baseline.drafts = samples.drafts
      /\ baseline.accepted = samples.accepted
  BY <1>0
<1>4. BaselineIs(renewed) /\ RenewedTo(renewed, truth, g)
  <2>1. /\ renewed.metrics_gap = FALSE
        /\ renewed.last_metrics_format = k.last_metrics_format
        /\ renewed.last_strata_since = k.last_strata_since
    BY <1>2 DEF MonitorFields
  <2> HIDE DEF renewed, baseline
  <2> QED
    BY <1>2, <1>3, <2>1 DEF BaselineIs, RenewedTo
<1>5. RealShare(held)
  BY DEF RealShare
<1>6. ASSUME previous # None PROVE RealRate(rate)
  <2>1. PICK f \in Nat : Reported(previous.generated, f) /\ Followed(previous.truth, f, truth, g)
    BY <1>6 DEF FollowedBy
  <2> DEFINE work == truth.done - previous.truth.done
  <2>2. delta # None => delta = g - f
    BY <1>0, <2>1 DEF counter_delta_opt, Reported
  <2>3. /\ truth.run \in Nat /\ truth.done \in Nat
        /\ previous.truth.run \in Nat /\ previous.truth.done \in Nat
    BY <1>6 DEF TruthTyped
  <2>4. g - f <= work /\ (same_run => g - f = work)
    BY <2>1, <2>3 DEF Followed
  <2>5. previous.age \in {0, 1} /\ ~k.metrics_gap
    BY <1>6
  <2> HIDE DEF delta, same_run, work
  <2>6. CASE delta = None \/ previous.age = 0
    BY <2>6 DEF RealRate, rate_of
  <2>7. CASE delta # None /\ previous.age # 0
    <3>1. rate = [from |-> "metrics", delta |-> delta, seconds |-> previous.age,
                  work |-> work, same_run |-> same_run, gap |-> k.metrics_gap]
      BY <2>7 DEF rate_of, work, same_run
    <3> HIDE DEF rate
    <3>2. /\ rate.seconds = 1 /\ rate.gap = k.metrics_gap
          /\ rate.delta = g - f /\ rate.work = work /\ rate.same_run = same_run
      BY <2>2, <2>5, <2>7, <3>1
    <3> QED
      BY <2>4, <2>5, <3>2 DEF RealRate
  <2> QED
    BY <2>6, <2>7
<1>7. ASSUME previous # None, Drafted PROVE RealShare(measured)
  <2>1. drafts # None /\ accepted # None /\ drafts > 0
    BY <1>7 DEF positive
  <2>2. real
    BY <1>0, <1>7, <2>1 DEF counter_delta_opt, Reported
  <2>3. dated => same_run
    BY <1>7
  <2> HIDE DEF drafts, accepted, real, dated, same_run
  <2>4. /\ measured.drafts = drafts /\ measured.real = real /\ measured.dated = dated
        /\ measured.same_run = same_run
    OBVIOUS
  <2> HIDE DEF measured
  <2> QED
    BY <2>1, <2>2, <2>3, <2>4 DEF RealShare
<1> HIDE DEF drafts, accepted, rate, measured, held, renewed, Drafted, u, previous
<1>8. CASE previous = None
  <2>1. u.monitor = renewed /\ u.rate = None /\ u.acceptance = None
    BY <1>1, <1>8
  <2>2. renewed.acceptance = k.acceptance
    BY <1>2 DEF MonitorFields
  <2> QED
    BY <1>2, <1>4, <2>1, <2>2 DEF RealShare, RealRate, u, stats
<1>9. CASE previous # None /\ ~Drafted
  <2>1. u.monitor = renewed /\ u.rate = rate /\ u.acceptance = held
    BY <1>1, <1>9
  <2>2. renewed.acceptance = k.acceptance
    BY <1>2 DEF MonitorFields
  <2> QED
    BY <1>2, <1>4, <1>5, <1>6, <1>9, <2>1, <2>2 DEF u, stats
<1>10. CASE previous # None /\ Drafted
  <2> DEFINE shared == [renewed EXCEPT !.acceptance = measured, !.acceptance_age = 0]
  <2>1. u.monitor = shared /\ u.rate = rate /\ u.acceptance = measured
    BY <1>1, <1>10
  <2>2. /\ DOMAIN shared = MonitorFields /\ shared.acceptance = measured
        /\ \A f \in MonitorFields \ {"acceptance", "acceptance_age"} : shared[f] = renewed[f]
    BY <1>2 DEF MonitorFields
  <2> HIDE DEF shared
  <2>3. /\ shared.previous_metrics = renewed.previous_metrics
        /\ shared.metrics_gap = renewed.metrics_gap
        /\ shared.last_metrics_format = renewed.last_metrics_format
        /\ shared.last_strata_since = renewed.last_strata_since
    BY <2>2 DEF MonitorFields
  <2>4. BaselineIs(shared) /\ RenewedTo(shared, truth, g)
    BY <1>4, <2>3 DEF BaselineIs, RenewedTo
  <2> QED
    BY <1>2, <1>6, <1>7, <1>10, <2>1, <2>2, <2>4 DEF u, stats
<1> QED
  BY <1>8, <1>9, <1>10

\* An answer of /metrics is of a moment of the server, which had then generated g
\* tokens in its run, after that of the baseline.
AnsweredAt(answer, b, g) ==
  /\ TruthTyped(answer.truth)
  /\ ParsedFrom(parse_metrics_body(answer), answer.truth, g)
  /\ FollowedBy(b, answer.truth, g)

\* The counters of a poll: measured between the baseline and the answer, which is
\* the new baseline, or there is none any more.
LEMMA MetricCounted ==
  ASSUME NEW m, DOMAIN m = MonitorFields, BaselineIs(m), RealShare(m.acceptance),
         NEW answers, NEW g \in Nat,
         answers.metrics.outcome = "ok" => AnsweredAt(answers.metrics, m.previous_metrics, g)
  PROVE  LET u == MetricUpdate(m, answers)
         IN  /\ DOMAIN u.monitor = MonitorFields
             /\ BaselineIs(u.monitor)
             /\ RealShare(u.monitor.acceptance) /\ RealShare(u.acceptance) /\ RealRate(u.rate)
             /\ u.monitor.previous_slots = m.previous_slots
             /\ u.monitor.slots_gap = m.slots_gap
             /\ u.monitor.previous_metrics # None =>
                  /\ answers.metrics.outcome = "ok"
                  /\ RenewedTo(u.monitor, answers.metrics.truth, g)
<1> DEFINE answer == answers.metrics
           parsed == parsed_answer(answer)
           k == with_format(m, parsed)
           error == metrics_error(answer, parsed)
           u == MetricUpdate(m, answers)
           old == m.previous_metrics
<1>1. /\ DOMAIN k = MonitorFields
      /\ k.previous_metrics = comparable_baseline(m, parsed)
      /\ k.last_metrics_format = parsed.format
      /\ k.last_strata_since = IF parsed.format = "strata" THEN parsed.since
                               ELSE m.last_strata_since
      /\ k.metrics_gap = m.metrics_gap /\ k.acceptance = m.acceptance
      /\ k.previous_slots = m.previous_slots /\ k.slots_gap = m.slots_gap
  <2> HIDE DEF parsed
  <2>1. /\ DOMAIN k = MonitorFields
        /\ k.previous_metrics = comparable_baseline(m, parsed)
        /\ k.last_metrics_format = parsed.format
        /\ k.last_strata_since = IF parsed.format = "strata" THEN parsed.since
                                 ELSE m.last_strata_since
        /\ \A f \in MonitorFields \ {"previous_metrics", "last_metrics_format",
                                      "last_strata_since"} : k[f] = m[f]
    BY FormatIs, ZenonT(60)
  <2> HIDE DEF k
  <2>2. /\ k.metrics_gap = m.metrics_gap /\ k.acceptance = m.acceptance
        /\ k.previous_slots = m.previous_slots /\ k.slots_gap = m.slots_gap
    BY <2>1 DEF MonitorFields
  <2> QED
    BY <2>1, <2>2
<1>2. CASE error = None
  <2>1. answer.outcome = "ok" /\ parsed.format # None
    BY <1>2, LabelsAssumption DEF metrics_error
  <2>2. parsed = parse_metrics_body(answer)
    BY <2>1 DEF parsed_answer
  <2>3. u = update_metric_counters(k, CountsIn(parsed.samples), answer.truth)
    BY <1>2 DEF MetricUpdate
  <2>4. AnsweredAt(answer, old, g)
    BY <2>1
  <2> HIDE DEF answer, parsed, k, error, u, old
  <2>5. /\ TruthTyped(answer.truth)
        /\ Reported(parsed.samples.generated, g)
        /\ Reported(parsed.samples.drafts, answer.truth.drafts)
        /\ Reported(parsed.samples.accepted, answer.truth.accepted)
        /\ parsed.format = "strata" => Reported(parsed.since, answer.truth.run)
    BY <2>2, <2>4 DEF AnsweredAt, ParsedFrom
  <2>6. ASSUME k.previous_metrics # None
        PROVE  /\ k.previous_metrics = old
               /\ old # None
               /\ m.last_metrics_format = parsed.format
               /\ parsed.format = "strata" /\ parsed.since # None /\ m.last_strata_since # None
                    => parsed.since = m.last_strata_since
    BY <1>1, <2>6, Comparable DEF old
  <2>7. FollowedBy(k.previous_metrics, answer.truth, g)
    BY <2>4, <2>6 DEF AnsweredAt, FollowedBy
  <2>8. /\ k.last_metrics_format # None
        /\ k.last_metrics_format = "strata" => Reported(k.last_strata_since, answer.truth.run)
    BY <1>1, <2>1, <2>5
  <2>9. ASSUME k.previous_metrics # None
        PROVE  LET b == k.previous_metrics
               IN  /\ b.age \in {0, 1}
                   /\ TruthTyped(b.truth)
                   /\ Reported(b.drafts, b.truth.drafts)
                   /\ Reported(b.accepted, b.truth.accepted)
                   /\ ~k.metrics_gap
                   /\ /\ k.last_metrics_format = "strata"
                      /\ b.since_known
                      /\ k.last_strata_since # None
                      => answer.truth.run = b.truth.run
    <3>1. k.previous_metrics = old /\ old # None /\ old = m.previous_metrics
      BY <2>6, <2>9 DEF old
    <3>2. /\ old.age \in {0, 1} /\ TruthTyped(old.truth)
          /\ Reported(old.drafts, old.truth.drafts) /\ Reported(old.accepted, old.truth.accepted)
          /\ ~k.metrics_gap
          /\ old.since_known <=> m.last_strata_since # None
          /\ m.last_metrics_format = "strata" => Reported(m.last_strata_since, old.truth.run)
      BY <1>1, <3>1 DEF BaselineIs
    <3>3. ASSUME k.last_metrics_format = "strata", old.since_known, k.last_strata_since # None
          PROVE  answer.truth.run = old.truth.run
      <4>1. parsed.format = "strata" /\ m.last_metrics_format = "strata"
        BY <1>1, <2>6, <2>9, <3>3
      <4>2. k.last_strata_since = parsed.since /\ parsed.since # None
        BY <1>1, <3>3, <4>1
      <4>3. m.last_strata_since # None /\ m.last_strata_since = old.truth.run
        BY <3>2, <3>3, <4>1 DEF Reported
      <4>4. parsed.since = m.last_strata_since
        BY <2>6, <2>9, <4>1, <4>2, <4>3
      <4> QED
        BY <2>5, <4>1, <4>2, <4>3, <4>4 DEF Reported
    <3> QED
      BY <3>1, <3>2, <3>3
  <2>10. RealShare(k.acceptance)
    BY <1>1
  <2>11. /\ DOMAIN u.monitor = MonitorFields
         /\ BaselineIs(u.monitor)
         /\ RenewedTo(u.monitor, answer.truth, g)
         /\ RealShare(u.monitor.acceptance) /\ RealShare(u.acceptance) /\ RealRate(u.rate)
         /\ \A f \in MonitorFields \ {"previous_metrics", "metrics_gap", "acceptance",
                                      "acceptance_age"} : u.monitor[f] = k[f]
    BY <1>1, <2>3, <2>5, <2>7, <2>8, <2>9, <2>10, UpdateMeasures
  <2>12. u.monitor.previous_slots = k.previous_slots /\ u.monitor.slots_gap = k.slots_gap
    BY <2>11 DEF MonitorFields
  <2> QED
    BY <1>1, <2>1, <2>11, <2>12 DEF u, answer
<1>3. CASE error # None
  <2>1. u = [monitor |-> without_baseline(k), rate |-> None, acceptance |-> None]
    BY <1>3 DEF MetricUpdate
  <2> HIDE DEF u, k
  <2>2. u.monitor = without_baseline(k) /\ u.rate = None /\ u.acceptance = None
    BY <2>1
  <2>3. /\ DOMAIN u.monitor = MonitorFields /\ u.monitor.previous_metrics = None
        /\ u.monitor.acceptance = k.acceptance
        /\ u.monitor.previous_slots = k.previous_slots /\ u.monitor.slots_gap = k.slots_gap
    BY <1>1, <2>2 DEF without_baseline, MonitorFields
  <2> QED
    BY <1>1, <2>2, <2>3 DEF BaselineIs, RealShare, RealRate, u
<1> QED
  BY <1>2, <1>3

\* The slots leave the counters of /metrics alone.
LEMMA SlotsLeaveMetrics ==
  ASSUME NEW m, NEW answers,
         DOMAIN MetricUpdate(m, answers).monitor = MonitorFields
  PROVE  LET u == MetricUpdate(m, answers).monitor
             v == SlotUpdate(m, answers).monitor
         IN  /\ DOMAIN v = MonitorFields
             /\ \A f \in MonitorFields \ {"previous_slots", "slots_gap"} : v[f] = u[f]
BY DEF SlotUpdate, update_live_slot_throughput, without_slots, MonitorFields

-----------------------------------------------------------------------------
(* The invariant of the counters of /metrics.                              *)

\* What follows a moment still follows it when the server has gone on.
LEMMA FollowedLater ==
  ASSUME CountTypes, CountTypes',
         Followed(Truth, server.generated, Truth', server.generated'),
         NEW truth, NEW g \in Nat, TruthTyped(truth),
         Followed(truth, g, Truth, server.generated)
  PROVE  Followed(truth, g, Truth', server'.generated)
<1>1. TruthTyped(Truth) /\ TruthTyped(Truth')
  BY DEF Truth, TruthTyped, CountTypes
<1>2. server.generated \in Nat /\ server'.generated \in Nat
  BY DEF CountTypes
<1> QED
  BY <1>1, <1>2, FollowedFurther

\* An answer that waits for its poll to end lies between the baseline and now.
MetricsAnswered ==
  poll.stage = "asking" /\ "metrics" \in DOMAIN poll.answers
    /\ poll.answers.metrics.outcome = "ok" =>
    \E g \in Nat : /\ AnsweredAt(poll.answers.metrics, monitor.previous_metrics, g)
                   /\ Followed(poll.answers.metrics.truth, g, Truth, server.generated)

\* A baseline that was kept is of an earlier moment of the server.
BaselineFollowed == FollowedBy(monitor.previous_metrics, Truth, server.generated)

SharesAreReal ==
  /\ RealShare(monitor.acceptance)
  /\ RealShare(shown.spec_acceptance)
  /\ last_good # None => RealShare(last_good.stats.spec_acceptance)

MetricsInv ==
  CountTypes /\ BaselineIs(monitor) /\ BaselineFollowed /\ MetricsAnswered /\ SharesAreReal

\* Nothing has been counted at first.
LEMMA MetricsInit == Init => MetricsInv
<1> SUFFICES ASSUME Init PROVE MetricsInv
  OBVIOUS
<1>1. PICK format \in Formats, model \in ModelChoices : server = FreshServer(1, format, model)
  BY DEF Init
<1>2. CountTypes
  BY <1>1 DEF Init, FreshServer, Formats, CountTypes
<1>3. monitor.previous_metrics = None /\ monitor.acceptance = None
  BY DEF Init, NewMonitor
<1>4. shown.spec_acceptance = None /\ last_good = None /\ poll = NoPoll
  BY DEF Init, NoStats
<1> QED
  BY <1>2, <1>3, <1>4
     DEF MetricsInv, BaselineIs, BaselineFollowed, FollowedBy, MetricsAnswered, NoPoll,
         SharesAreReal, RealShare

\* The server goes on: what followed a moment follows it still.
LEMMA MetricsServer == HeldInv /\ MetricsInv /\ ServerStep => MetricsInv'
<1> SUFFICES ASSUME HeldInv, MetricsInv, ServerStep PROVE MetricsInv'
  OBVIOUS
<1>1. UNCHANGED <<monitor, last_good, poll, shown>>
  BY ServerStepIs DEF HeldInv
<1>2. CountTypes /\ CountTypes' /\ Followed(Truth, server.generated, Truth', server.generated')
  BY ServerCounts DEF HeldInv, MetricsInv
<1>3. BaselineFollowed'
  <2> DEFINE b == monitor.previous_metrics
  <2> SUFFICES ASSUME b # None
               PROVE  \E g \in Nat : /\ Reported(b.generated, g)
                                     /\ Followed(b.truth, g, Truth', server'.generated)
    BY <1>1 DEF BaselineFollowed, FollowedBy
  <2>1. PICK g \in Nat : Reported(b.generated, g) /\ Followed(b.truth, g, Truth, server.generated)
    BY DEF MetricsInv, BaselineFollowed, FollowedBy
  <2>2. TruthTyped(b.truth)
    BY DEF MetricsInv, BaselineIs
  <2> QED
    BY <1>2, <2>1, <2>2, FollowedLater
<1>4. MetricsAnswered'
  <2> DEFINE answer == poll.answers.metrics
  <2> SUFFICES ASSUME poll.stage = "asking", "metrics" \in DOMAIN poll.answers,
                      answer.outcome = "ok"
               PROVE  \E g \in Nat : /\ AnsweredAt(answer, monitor.previous_metrics, g)
                                     /\ Followed(answer.truth, g, Truth', server'.generated)
    BY <1>1 DEF MetricsAnswered
  <2>1. PICK g \in Nat : /\ AnsweredAt(answer, monitor.previous_metrics, g)
                         /\ Followed(answer.truth, g, Truth, server.generated)
    BY DEF MetricsInv, MetricsAnswered
  <2>2. TruthTyped(answer.truth)
    BY <2>1 DEF AnsweredAt
  <2> QED
    BY <1>2, <2>1, <2>2, FollowedLater
<1> QED
  BY <1>1, <1>2, <1>3, <1>4 DEF MetricsInv, BaselineIs, SharesAreReal

\* A poll begins without answers.
LEMMA MetricsBegin == HeldInv /\ MetricsInv /\ Begin => MetricsInv'
<1> SUFFICES ASSUME HeldInv, MetricsInv, Begin PROVE MetricsInv'
  OBVIOUS
<1>1. UNCHANGED <<server, done, monitor, last_good, shown>> /\ DOMAIN poll'.answers = {}
  BY DEF Begin, serverVars
<1>2. MetricsAnswered'
  BY <1>1 DEF MetricsAnswered
<1> QED
  BY <1>1, <1>2
     DEF MetricsInv, CountTypes, BaselineIs, BaselineFollowed, Truth, SharesAreReal

\* An answer of /metrics is of the server as it is now.
LEMMA MetricsAnswer ==
  ASSUME HeldInv, MetricsInv, NEW endpoint \in Endpoints, Answer(endpoint)
  PROVE  MetricsInv'
<1>1. UNCHANGED <<server, done, monitor, last_good, shown>> /\ PollIsOf(poll)
  BY AnswerIs DEF Answer, serverVars
<1>2. PICK answer \in Answers(endpoint) :
        /\ DOMAIN poll'.answers = DOMAIN poll.answers \union {endpoint}
        /\ poll'.answers[endpoint] = answer
        /\ \A e \in DOMAIN poll.answers \ {endpoint} : poll'.answers[e] = poll.answers[e]
  BY AnswerIs
<1>3. Truth' = Truth
  BY <1>1 DEF Truth
<1>4. ASSUME "metrics" \in DOMAIN poll'.answers, poll'.answers["metrics"].outcome = "ok"
      PROVE  \E g \in Nat :
               /\ AnsweredAt(poll'.answers["metrics"], monitor.previous_metrics, g)
               /\ Followed(poll'.answers["metrics"].truth, g, Truth, server.generated)
  <2>1. CASE endpoint = "metrics"
    <3>1. answer \in MetricsAnswers /\ answer.outcome = "ok" /\ poll'.answers["metrics"] = answer
      BY <1>2, <1>4, <2>1 DEF Answers
    <3>2. /\ answer.truth = Truth
          /\ ParsedFrom(parse_metrics_body(answer), Truth, server.generated)
      BY <3>1, ParsedIs DEF MetricsInv, CountTypes
    <3>3. TruthTyped(Truth) /\ Followed(Truth, server.generated, Truth, server.generated)
      BY TruthIs DEF MetricsInv
    <3>4. AnsweredAt(answer, monitor.previous_metrics, server.generated)
      BY <3>2, <3>3 DEF AnsweredAt, MetricsInv, BaselineFollowed
    <3>5. server.generated \in Nat
      BY DEF MetricsInv, CountTypes
    <3> QED
      BY <3>1, <3>2, <3>3, <3>4, <3>5
  <2>2. CASE endpoint # "metrics"
    <3>1. /\ "metrics" \in DOMAIN poll.answers
          /\ poll'.answers["metrics"] = poll.answers["metrics"]
      BY <1>2, <1>4, <2>2
    <3> QED
      BY <1>1, <1>4, <3>1 DEF MetricsInv, MetricsAnswered, PollIsOf
  <2> QED
    BY <2>1, <2>2
<1>5. MetricsAnswered'
  BY <1>1, <1>3, <1>4 DEF MetricsAnswered
<1> QED
  BY <1>1, <1>3, <1>5 DEF MetricsInv, CountTypes, BaselineIs, BaselineFollowed, SharesAreReal

\* Time: the baseline is older, a share too old to be held is forgotten.
LEMMA MetricsTick == HeldInv /\ MetricsInv /\ Tick => MetricsInv'
<1> SUFFICES ASSUME HeldInv, MetricsInv, Tick PROVE MetricsInv'
  OBVIOUS
<1> DEFINE old == monitor.previous_metrics
           new == monitor'.previous_metrics
<1>1. UNCHANGED <<server, done, shown>>
  BY DEF Tick
<1>2. /\ new = IF old = None THEN old ELSE [old EXCEPT !.age = 1]
      /\ monitor'.acceptance = None \/ monitor'.acceptance = monitor.acceptance
      /\ monitor'.metrics_gap = monitor.metrics_gap
      /\ monitor'.last_metrics_format = monitor.last_metrics_format
      /\ monitor'.last_strata_since = monitor.last_strata_since
  BY DEF Tick, HeldInv, MonitorTypes, MonitorFields
<1>3. ASSUME old # None
      PROVE  /\ DOMAIN old = {"age", "generated", "drafts", "accepted", "truth", "since_known"}
             /\ DOMAIN new = DOMAIN old /\ new.age = 1
             /\ new.generated = old.generated /\ new.drafts = old.drafts
             /\ new.accepted = old.accepted /\ new.truth = old.truth
             /\ new.since_known = old.since_known
  <2>1. DOMAIN old = {"age", "generated", "drafts", "accepted", "truth", "since_known"}
    BY <1>3 DEF MetricsInv, BaselineIs
  <2> HIDE DEF old, new
  <2>2. new = [old EXCEPT !.age = 1]
    BY <1>2, <1>3
  <2> QED
    BY <2>1, <2>2
<1>4. new # None => old # None
  BY <1>2
<1> HIDE DEF old, new
<1>5. BaselineIs(monitor')
  <2> SUFFICES ASSUME new # None
               PROVE  /\ DOMAIN new = {"age", "generated", "drafts", "accepted", "truth",
                                       "since_known"}
                      /\ new.age \in {0, 1}
                      /\ TruthTyped(new.truth)
                      /\ Reported(new.drafts, new.truth.drafts)
                      /\ Reported(new.accepted, new.truth.accepted)
                      /\ ~monitor'.metrics_gap
                      /\ monitor'.last_metrics_format # None
                      /\ new.since_known <=> monitor'.last_strata_since # None
                      /\ monitor'.last_metrics_format = "strata"
                           => Reported(monitor'.last_strata_since, new.truth.run)
    BY DEF BaselineIs, new
  <2>1. old # None /\ BaselineIs(monitor)
    BY <1>4 DEF MetricsInv
  <2>2. /\ TruthTyped(old.truth)
        /\ Reported(old.drafts, old.truth.drafts) /\ Reported(old.accepted, old.truth.accepted)
        /\ ~monitor.metrics_gap
        /\ monitor.last_metrics_format # None
        /\ old.since_known <=> monitor.last_strata_since # None
        /\ monitor.last_metrics_format = "strata"
             => Reported(monitor.last_strata_since, old.truth.run)
    BY <2>1 DEF BaselineIs, old
  <2> QED
    BY <1>2, <1>3, <2>1, <2>2
<1>6. \A truth, g : FollowedBy(old, truth, g) => FollowedBy(new, truth, g)
  BY <1>3, <1>4 DEF FollowedBy
<1>7. BaselineFollowed'
  <2>1. FollowedBy(old, Truth, server.generated)
    BY DEF MetricsInv, BaselineFollowed, old
  <2>2. FollowedBy(new, Truth, server.generated)
    BY <1>6, <2>1
  <2> QED
    BY <1>1, <2>2 DEF BaselineFollowed, Truth, new
<1>8. MetricsAnswered'
  <2> SUFFICES ASSUME poll'.stage = "asking", "metrics" \in DOMAIN poll'.answers,
                      poll'.answers.metrics.outcome = "ok"
               PROVE  \E g \in Nat : /\ AnsweredAt(poll'.answers.metrics, new, g)
                                     /\ Followed(poll'.answers.metrics.truth, g, Truth,
                                                 server.generated)
    BY <1>1 DEF MetricsAnswered, Truth, new
  <2>1. poll.stage = "asking" /\ poll'.answers = poll.answers
    BY DEF Tick, HeldInv, PollOK, PollIsOf, NoPoll, PollFields
  <2>2. PICK g \in Nat : /\ AnsweredAt(poll.answers.metrics, old, g)
                         /\ Followed(poll.answers.metrics.truth, g, Truth, server.generated)
    BY <2>1 DEF MetricsInv, MetricsAnswered, old
  <2>3. AnsweredAt(poll.answers.metrics, new, g)
    BY <1>6, <2>2 DEF AnsweredAt
  <2> QED
    BY <2>1, <2>2, <2>3
<1>9. SharesAreReal'
  <2>1. last_good' # None => last_good # None /\ last_good'.stats = last_good.stats
    <3>1. last_good # None => DOMAIN last_good = {"stats", "age"}
      BY DEF HeldInv, GoodIsRecent
    <3> QED
      BY <3>1 DEF Tick
  <2> QED
    BY <1>1, <1>2, <2>1 DEF MetricsInv, SharesAreReal, RealShare
<1>10. CountTypes'
  BY <1>1 DEF MetricsInv, CountTypes
<1> QED
  BY <1>5, <1>7, <1>8, <1>9, <1>10 DEF MetricsInv

\* s is the sample of the poll that ends, taken by the monitor m.
OfPoll(s, m) ==
  /\ Sampled(s, m, poll.answers) /\ Published(s) /\ Measured(s, m, poll.answers)
  /\ DOMAIN m = MonitorFields
  /\ \A f \in MonitorFields \ {"props", "props_age", "props_dirty", "local_spec",
                               "local_spec_age"} : m[f] = monitor[f]

\* The end of a poll, as far as the counters go.
LEMMA FinishCounts ==
  ASSUME HeldInv, Finish
  PROVE  /\ UNCHANGED <<scenario, server, done, polls>>
         /\ poll' = NoPoll /\ poll.stage = "asking"
         /\ {"metrics", "slots"} \subseteq DOMAIN poll.answers
         /\ \E s, m : OfPoll(s, m)
<1>1. UNCHANGED <<scenario, server, done, polls>> /\ poll' = NoPoll
  BY DEF Finish, serverVars
<1>2. PollIsOf(poll) /\ DOMAIN poll.answers = poll.asked
  BY FinishIs
<1>3. poll.stage = "asking" /\ {"metrics", "slots"} \subseteq DOMAIN poll.answers
  BY <1>2 DEF PollIsOf
<1>4. PICK processes \in ProcessTables :
        /\ Sampled(sample(poll.answers, processes),
                   local_spec_config(asked_props(poll.answers), processes), poll.answers)
        /\ Published(sample(poll.answers, processes))
  BY FinishIs
<1>5. DOMAIN monitor = MonitorFields
  BY DEF HeldInv, MonitorTypes
<1>6. Measured(sample(poll.answers, processes),
               local_spec_config(asked_props(poll.answers), processes), poll.answers)
  BY <1>5, SampleMeasures
<1> DEFINE m == local_spec_config(asked_props(poll.answers), processes)
<1>7. /\ DOMAIN m = MonitorFields
      /\ \A f \in MonitorFields \ {"props", "props_age", "props_dirty", "local_spec",
                                   "local_spec_age"} : m[f] = monitor[f]
  BY <1>5, AskedKeeps
<1> QED
  BY <1>1, <1>3, <1>4, <1>6, <1>7 DEF OfPoll

\* What is published of a field that the stabilisation leaves alone: that of the
\* sample, or that of the sample which is held.
LEMMA PublishedField ==
  ASSUME HeldInv, NEW s, Published(s), NEW f \in {"rate", "spec_acceptance"}
  PROVE  /\ shown'[f] = s.stats[f] \/ (last_good # None /\ shown'[f] = last_good.stats[f])
         /\ last_good' # None =>
              \/ last_good'.stats[f] = s.stats[f]
              \/ last_good # None /\ last_good'.stats[f] = last_good.stats[f]
<1>1. ASSUME last_good # None,
             shown' = [last_good.stats EXCEPT !.error = None, !.reconnecting = TRUE]
      PROVE  shown'[f] = last_good.stats[f]
  <2>1. DOMAIN last_good.stats = StatsFields
    BY <1>1 DEF HeldInv, GoodIsRecent
  <2> QED
    BY <1>1, <2>1 DEF StatsFields
<1> QED
  BY <1>1 DEF Published

\* The counters of the poll that ends.
LEMMA PollCounted ==
  ASSUME HeldInv, MetricsInv, Finish, NEW s, NEW m, OfPoll(s, m)
  PROVE  LET u == MetricUpdate(m, poll.answers)
         IN  /\ DOMAIN u.monitor = MonitorFields
             /\ BaselineIs(u.monitor)
             /\ RealShare(u.monitor.acceptance) /\ RealShare(u.acceptance) /\ RealRate(u.rate)
             /\ u.monitor.previous_slots = monitor.previous_slots
             /\ u.monitor.slots_gap = monitor.slots_gap
             /\ u.monitor.previous_metrics # None =>
                  \E g \in Nat : /\ RenewedTo(u.monitor, poll.answers.metrics.truth, g)
                                 /\ Followed(poll.answers.metrics.truth, g, Truth,
                                             server.generated)
<1> DEFINE answers == poll.answers
           u == MetricUpdate(m, answers)
<1>1. poll.stage = "asking" /\ {"metrics", "slots"} \subseteq DOMAIN answers
  BY FinishCounts
<1>2. DOMAIN m = MonitorFields
  BY DEF OfPoll
<1>3. /\ m.previous_metrics = monitor.previous_metrics /\ m.metrics_gap = monitor.metrics_gap
      /\ m.last_metrics_format = monitor.last_metrics_format
      /\ m.last_strata_since = monitor.last_strata_since
      /\ m.acceptance = monitor.acceptance
      /\ m.previous_slots = monitor.previous_slots /\ m.slots_gap = monitor.slots_gap
  BY DEF OfPoll, MonitorFields
<1>4. BaselineIs(m) /\ RealShare(m.acceptance)
  BY <1>3 DEF MetricsInv, BaselineIs, SharesAreReal
<1>5. \E g \in Nat :
        answers.metrics.outcome = "ok" =>
          /\ AnsweredAt(answers.metrics, m.previous_metrics, g)
          /\ Followed(answers.metrics.truth, g, Truth, server.generated)
  <2>1. CASE answers.metrics.outcome = "ok"
    BY <1>1, <1>3, <2>1 DEF MetricsInv, MetricsAnswered
  <2>2. CASE answers.metrics.outcome # "ok"
    <3>1. 0 \in Nat
      OBVIOUS
    <3> QED
      BY <2>2, <3>1
  <2> QED
    BY <2>1, <2>2
<1>6. PICK g \in Nat :
        answers.metrics.outcome = "ok" =>
          /\ AnsweredAt(answers.metrics, m.previous_metrics, g)
          /\ Followed(answers.metrics.truth, g, Truth, server.generated)
  BY <1>5
<1> HIDE DEF answers, u
<1>7. /\ DOMAIN u.monitor = MonitorFields
      /\ BaselineIs(u.monitor)
      /\ RealShare(u.monitor.acceptance) /\ RealShare(u.acceptance) /\ RealRate(u.rate)
      /\ u.monitor.previous_slots = m.previous_slots
      /\ u.monitor.slots_gap = m.slots_gap
      /\ u.monitor.previous_metrics # None =>
           /\ answers.metrics.outcome = "ok"
           /\ RenewedTo(u.monitor, answers.metrics.truth, g)
  BY <1>2, <1>4, <1>6, MetricCounted DEF u
<1> QED
  BY <1>3, <1>6, <1>7 DEF u, answers

\* The end of a poll: the answer is the new baseline, or there is none.
LEMMA MetricsFinish == HeldInv /\ MetricsInv /\ Finish => MetricsInv'
<1> SUFFICES ASSUME HeldInv, MetricsInv, Finish PROVE MetricsInv'
  OBVIOUS
<1> DEFINE answers == poll.answers
<1>1. UNCHANGED <<scenario, server, done, polls>> /\ poll' = NoPoll
  BY FinishCounts
<1>2. PICK s, m : OfPoll(s, m)
  BY FinishCounts
<1> DEFINE u == MetricUpdate(m, answers)
           v == SlotUpdate(m, answers).monitor
<1>3. /\ DOMAIN u.monitor = MonitorFields
      /\ BaselineIs(u.monitor)
      /\ RealShare(u.monitor.acceptance) /\ RealShare(u.acceptance)
      /\ u.monitor.previous_metrics # None =>
           \E g \in Nat : /\ RenewedTo(u.monitor, answers.metrics.truth, g)
                          /\ Followed(answers.metrics.truth, g, Truth, server.generated)
  BY <1>2, PollCounted
<1>4. /\ DOMAIN v = MonitorFields
      /\ \A f \in MonitorFields \ {"previous_slots", "slots_gap"} : v[f] = u.monitor[f]
  BY <1>3, SlotsLeaveMetrics
<1>5. monitor' = v /\ s.stats.spec_acceptance = u.acceptance
  BY <1>2 DEF OfPoll, Published, Measured
<1> HIDE DEF u, v, answers
<1>6. /\ v.previous_metrics = u.monitor.previous_metrics
       /\ v.metrics_gap = u.monitor.metrics_gap
       /\ v.last_metrics_format = u.monitor.last_metrics_format
       /\ v.last_strata_since = u.monitor.last_strata_since
       /\ v.acceptance = u.monitor.acceptance
  BY <1>4 DEF MonitorFields
<1>7. BaselineIs(monitor')
  BY <1>3, <1>5, <1>6 DEF BaselineIs
<1>8. Truth' = Truth
  BY <1>1 DEF Truth
<1>9. BaselineFollowed'
  <2> DEFINE b == monitor'.previous_metrics
  <2> SUFFICES ASSUME b # None
               PROVE  \E h \in Nat : /\ Reported(b.generated, h)
                                     /\ Followed(b.truth, h, Truth, server.generated)
    BY <1>1, <1>8 DEF BaselineFollowed, FollowedBy
  <2>1. b = u.monitor.previous_metrics
    BY <1>5, <1>6
  <2>2. PICK g \in Nat : /\ RenewedTo(u.monitor, answers.metrics.truth, g)
                         /\ Followed(answers.metrics.truth, g, Truth, server.generated)
    BY <1>3, <2>1
  <2>3. b.truth = answers.metrics.truth /\ Reported(b.generated, g)
    BY <2>1, <2>2 DEF RenewedTo
  <2> QED
    BY <2>2, <2>3
<1>10. MetricsAnswered'
  BY <1>1 DEF MetricsAnswered, NoPoll
<1>11. SharesAreReal'
  <2>1. /\ \/ shown'.spec_acceptance = s.stats.spec_acceptance
           \/ last_good # None /\ shown'.spec_acceptance = last_good.stats.spec_acceptance
        /\ last_good' # None =>
             \/ last_good'.stats.spec_acceptance = s.stats.spec_acceptance
             \/ /\ last_good # None
                /\ last_good'.stats.spec_acceptance = last_good.stats.spec_acceptance
    BY <1>2, PublishedField DEF OfPoll
  <2>2. RealShare(monitor'.acceptance)
    BY <1>3, <1>5, <1>6
  <2> QED
    BY <1>3, <1>5, <2>1, <2>2 DEF MetricsInv, SharesAreReal
<1>12. CountTypes'
  BY <1>1 DEF MetricsInv, CountTypes
<1> QED
  BY <1>7, <1>9, <1>10, <1>11, <1>12 DEF MetricsInv

\* Every step keeps it.
LEMMA MetricsNext == HeldInv /\ MetricsInv /\ [Next]_vars => MetricsInv'
<1> SUFFICES ASSUME HeldInv, MetricsInv, [Next]_vars PROVE MetricsInv'
  OBVIOUS
<1>1. CASE ServerStep
  BY <1>1, MetricsServer
<1>2. CASE Begin
  BY <1>2, MetricsBegin
<1>3. ASSUME NEW endpoint \in Endpoints, Answer(endpoint) PROVE MetricsInv'
  BY <1>3, MetricsAnswer
<1>4. CASE Finish
  BY <1>4, MetricsFinish
<1>5. CASE Tick
  BY <1>5, MetricsTick
<1>6. CASE UNCHANGED vars
  <2>1. UNCHANGED <<server, done, monitor, last_good, poll, shown>> /\ Truth' = Truth
    BY <1>6 DEF vars, Truth
  <2> QED
    BY <2>1
       DEF MetricsInv, CountTypes, BaselineIs, BaselineFollowed, MetricsAnswered, SharesAreReal
<1> QED
  BY <1>1, <1>2, <1>3, <1>4, <1>5, <1>6 DEF Next, ServerStep

\* It holds throughout.
LEMMA AlwaysMetrics == MonitorSpec => []MetricsInv
BY MetricsInit, MetricsNext, HeldInit, HeldNext, PTL DEF MonitorSpec

\* The share of accepted drafts on display (update_metric_counters) comes from the
\* server's own counters, over one run of it as far as Strata dates them, and is
\* never that of a look-alike counter, of an earlier run, or of another format
\* (strata.rs resolve, comparable_baseline), for any number of tokens, restarts and
\* failed polls.
THEOREM AcceptanceSafe == MonitorSpec => []AcceptanceIsMeasured
<1>1. MetricsInv => AcceptanceIsMeasured
  BY DEF MetricsInv, SharesAreReal, RealShare, AcceptanceIsMeasured
<1> QED
  BY <1>1, AlwaysMetrics, PTL

-----------------------------------------------------------------------------
(* The sum over the slots.                                                 *)

\* The recursive function that defines the sum of with_slot_delta over the
\* positions of an array, as an equation.
DeltaSet(previous, slots, n, f) ==
  [s \in SUBSET (1 .. n) |->
     IF s = {} THEN 0 ELSE with_slot_delta(previous, f[s \ {Max(s)}], slots[Max(s)])]

\* It has a solution for every array.
LEMMA DeltaSetExists ==
  ASSUME NEW previous, NEW slots
  PROVE  \A n \in Nat : \E f : f = DeltaSet(previous, slots, n, f)
<1> DEFINE S == {n \in Nat : \E f : f = DeltaSet(previous, slots, n, f)}
<1>1. 0 \in S
  <2> DEFINE g == [s \in SUBSET (1 .. 0) |-> 0]
  <2>1. \A s \in SUBSET (1 .. 0) : s = {}
    OBVIOUS
  <2>2. g = DeltaSet(previous, slots, 0, g)
    BY <2>1 DEF DeltaSet
  <2> QED
    BY <2>2
<1>2. ASSUME NEW n \in Nat, n \in S
      PROVE  n + 1 \in S
  <2>1. PICK f : f = DeltaSet(previous, slots, n, f)
    BY <1>2
  <2> DEFINE g == [s \in SUBSET (1 .. (n + 1)) |->
                     IF n + 1 \in s THEN with_slot_delta(previous, f[s \ {n + 1}], slots[n + 1])
                     ELSE f[s]]
  <2>2. ASSUME NEW s \in SUBSET (1 .. (n + 1))
        PROVE  g[s] = IF s = {} THEN 0
                      ELSE with_slot_delta(previous, g[s \ {Max(s)}], slots[Max(s)])
    <3>1. CASE n + 1 \in s
      <4>1. Max(s) = n + 1
        BY <3>1, MaxIs
      <4>2. s \ {n + 1} \in SUBSET (1 .. (n + 1)) /\ n + 1 \notin s \ {n + 1}
        OBVIOUS
      <4>3. g[s \ {n + 1}] = f[s \ {n + 1}]
        BY <4>2
      <4> QED
        BY <3>1, <4>1, <4>3
    <3>2. CASE n + 1 \notin s
      <4>1. s \in SUBSET (1 .. n)
        BY <3>2
      <4>2. f[s] = IF s = {} THEN 0
                   ELSE with_slot_delta(previous, f[s \ {Max(s)}], slots[Max(s)])
        BY <2>1, <4>1 DEF DeltaSet
      <4>3. s \ {Max(s)} \in SUBSET (1 .. (n + 1)) /\ n + 1 \notin s \ {Max(s)}
        BY <3>2
      <4>4. g[s \ {Max(s)}] = f[s \ {Max(s)}]
        BY <4>3
      <4> QED
        BY <3>2, <4>2, <4>4
    <3> QED
      BY <3>1, <3>2
  <2>3. g = DeltaSet(previous, slots, n + 1, g)
    BY <2>2 DEF DeltaSet
  <2> HIDE DEF g
  <2> QED
    BY <2>3
<1> HIDE DEF S
<1>3. \A n \in Nat : n \in S
  BY <1>1, <1>2, SetInduction
<1> QED
  BY <1>3 DEF S

\* The sum after each slot of the array.
Deltas(previous, slots, n, g) ==
  /\ g[0] = 0
  /\ \A k \in 1 .. n : g[k] = with_slot_delta(previous, g[k - 1], slots[k])

SlotSum(previous, slots) ==
  FoldLeft(LAMBDA sum, slot : with_slot_delta(previous, sum, slot), 0, slots)

\* The loop of slot_delta_tps.
LEMMA FoldDeltas ==
  ASSUME NEW n \in Nat, NEW slots, DOMAIN slots = 1 .. n, NEW previous
  PROVE  \E g : Deltas(previous, slots, n, g) /\ SlotSum(previous, slots) = g[n]
<1> DEFINE f == CHOOSE f : f = DeltaSet(previous, slots, n, f)
<1>1. f = DeltaSet(previous, slots, n, f)
  BY DeltaSetExists
<1>2. SlotSum(previous, slots) = f[1 .. n]
  BY DEF SlotSum, FoldLeft, MapThenFoldSet, DeltaSet
<1> HIDE DEF f
<1> DEFINE g == [k \in 0 .. n |-> f[1 .. k]]
<1>3. g[0] = 0
  BY <1>1 DEF DeltaSet
<1>4. ASSUME NEW k \in 1 .. n
      PROVE  g[k] = with_slot_delta(previous, g[k - 1], slots[k])
  <2>1. Max(1 .. k) = k
    <3>1. (1 .. k) \in SUBSET Nat /\ k \in 1 .. k /\ \A y \in 1 .. k : k >= y
      OBVIOUS
    <3> QED
      BY <3>1, MaxIs
  <2>2. (1 .. k) \in SUBSET (1 .. n) /\ 1 .. k # {} /\ (1 .. k) \ {k} = 1 .. (k - 1)
    OBVIOUS
  <2>3. f[1 .. k] = with_slot_delta(previous, f[(1 .. k) \ {k}], slots[k])
    BY <1>1, <2>1, <2>2 DEF DeltaSet
  <2>4. g[k] = f[1 .. k] /\ g[k - 1] = f[1 .. (k - 1)]
    OBVIOUS
  <2> QED
    BY <2>2, <2>3, <2>4
<1>5. SlotSum(previous, slots) = g[n]
  BY <1>2
<1> HIDE DEF g
<1> QED
  BY <1>3, <1>4, <1>5 DEF Deltas

-----------------------------------------------------------------------------
(* The slots of the server.                                                *)

\* The tokens of each set of slots.
Measure(w) ==
  /\ w \in [SUBSET SlotIds -> Nat]
  /\ \A T, U \in SUBSET SlotIds : T \intersect U = {} => w[T \union U] = w[T] + w[U]

\* The slots of the server at one moment.
View(slots) ==
  \A id \in SlotIds :
    /\ slots[id].task \in Nat /\ slots[id].decoded \in Nat
    /\ slots[id].busy \in BOOLEAN

\* One slot from one moment to a later one, over which it has decoded `tokens`.
SlotWorked(before, after, tokens, same_run) ==
  /\ after.decoded <= before.decoded + tokens
  /\ same_run => before.task <= after.task
  /\ same_run /\ before.task = after.task =>
       /\ after.decoded = before.decoded + tokens
       /\ ~before.busy => ~after.busy /\ tokens = 0

\* The slots from one moment to a later one: together they have decoded what the
\* server has generated.
WorkedBy(w, truth, before, later, after) ==
  /\ Measure(w)
  /\ w[SlotIds] = later.done - truth.done
  /\ truth.run <= later.run
  /\ \A id \in SlotIds : SlotWorked(before[id], after[id], w[{id}], truth.run = later.run)

Worked(truth, before, later, after) == \E w : WorkedBy(w, truth, before, later, after)

\* An array that the server answered with when its slots were as in view: every
\* slot once, in any order.
ShowsView(slots, run, view) ==
  /\ \E n \in Nat : DOMAIN slots = 1 .. n
  /\ \A i \in DOMAIN slots :
       /\ slots[i].id \in SlotIds
       /\ slots[i].decoded = IF view[slots[i].id].busy THEN view[slots[i].id].decoded ELSE None
       /\ slots[i].task = IF run = 1 THEN view[slots[i].id].task ELSE None
  /\ \A i, j \in DOMAIN slots : slots[i].id = slots[j].id => i = j
  /\ \A id \in SlotIds : \E i \in DOMAIN slots : slots[i].id = id

\* Two answers of the server, one after the other.
LaterArray(truth, slots, later, slots_later) ==
  \E before, after :
    /\ View(before) /\ View(after)
    /\ ShowsView(slots, truth.run, before) /\ ShowsView(slots_later, later.run, after)
    /\ Worked(truth, before, later, after)

\* The slot with an id is where decoded_before finds it.
LEMMA FoundBefore ==
  ASSUME NEW slots, NEW run, NEW view, ShowsView(slots, run, view),
         NEW slot, slot.id \in SlotIds
  PROVE  /\ \E j \in DOMAIN slots : slots[j].id = slot.id
         /\ \A j \in DOMAIN slots : slots[j].id = slot.id =>
              /\ decoded_before(slots, slot) = slots[j].decoded
              /\ slots[j].task = IF run = 1 THEN view[slot.id].task ELSE None
         /\ decoded_before(slots, slot)
              = IF view[slot.id].busy THEN view[slot.id].decoded ELSE None
<1>1. PICK j \in DOMAIN slots : slots[j].id = slot.id
  BY DEF ShowsView
<1>2. \A i \in DOMAIN slots : slots[i].id = slot.id => i = j
  BY <1>1 DEF ShowsView
<1>3. (CHOOSE i \in DOMAIN slots : slots[i].id = slot.id) = j
  BY <1>1, <1>2
<1>4. decoded_before(slots, slot) = slots[j].decoded
  BY <1>3 DEF decoded_before
<1> QED
  BY <1>1, <1>2, <1>4 DEF ShowsView

\* The empty set has no tokens.
LEMMA MeasureEmpty ==
  ASSUME NEW w, Measure(w)
  PROVE  w[{}] = 0
<1>1. \A T, U \in SUBSET SlotIds : T \intersect U = {} => w[T \union U] = w[T] + w[U]
  BY DEF Measure
<1> DEFINE T == {}
<1>2. T \in SUBSET SlotIds /\ T \intersect T = {} /\ T \union T = T
  OBVIOUS
<1>3. w[T] \in Nat
  BY <1>2 DEF Measure
<1>4. w[T \union T] = w[T] + w[T]
  BY <1>1, <1>2
<1> DEFINE x == w[T]
<1>5. x \in Nat /\ x = x + x
  BY <1>2, <1>3, <1>4
<1> HIDE DEF x
<1>6. x = 0
  BY <1>5
<1> QED
  BY <1>6 DEF x

\* What one slot contributes to the sum: no more than it has decoded, and that if
\* its task is known to be the same.
LEMMA SlotTerm ==
  ASSUME NEW slots, NEW run, NEW before, View(before), ShowsView(slots, run, before),
         NEW now_slots, NEW run_later, NEW after, View(after),
         ShowsView(now_slots, run_later, after),
         paired(slots, now_slots),
         NEW i \in DOMAIN now_slots, NEW tokens \in Nat,
         LET was == decoded_before(slots, now_slots[i])
             is == now_slots[i].decoded
         IN  (was = None /\ is = None) \/ (was # None /\ is # None /\ is >= was),
         LET id == now_slots[i].id
         IN  SlotWorked(before[id], after[id], tokens, run = run_later),
         NEW exact \in BOOLEAN,
         exact => run = run_later /\ now_slots[i].task # None,
         NEW sum \in Int
  PROVE  LET next == with_slot_delta(slots, sum, now_slots[i])
         IN  next \in Int /\ next <= sum + tokens /\ (exact => next = sum + tokens)
<1> DEFINE slot == now_slots[i]
           id == slot.id
           was == decoded_before(slots, slot)
           is == slot.decoded
           next == with_slot_delta(slots, sum, slot)
<1>1. id \in SlotIds
  BY DEF ShowsView
<1>2. /\ is = IF after[id].busy THEN after[id].decoded ELSE None
      /\ slot.task = IF run_later = 1 THEN after[id].task ELSE None
  BY DEF ShowsView
<1>3. was = IF before[id].busy THEN before[id].decoded ELSE None
  BY <1>1, FoundBefore
<1>4. /\ before[id].task \in Nat /\ before[id].decoded \in Nat /\ before[id].busy \in BOOLEAN
      /\ after[id].task \in Nat /\ after[id].decoded \in Nat /\ after[id].busy \in BOOLEAN
  BY <1>1 DEF View
<1>5. exact => before[id].task = after[id].task
  <2> SUFFICES ASSUME exact PROVE before[id].task = after[id].task
    OBVIOUS
  <2>1. PICK j \in DOMAIN slots : slots[j].id = id
    BY <1>1, FoundBefore
  <2>2. slots[j].task = IF run = 1 THEN before[id].task ELSE None
    BY <1>1, <2>1, FoundBefore
  <2>3. slots[j].task = slot.task
    BY <2>1 DEF paired, with_id, task_ids_match
  <2> QED
    BY <1>2, <2>2, <2>3
<1>6. next = IF is = None THEN sum ELSE sum + (is - was)
  BY DEF with_slot_delta
<1>7. SlotWorked(before[id], after[id], tokens, run = run_later)
  OBVIOUS
<1>8. (was = None /\ is = None) \/ (was # None /\ is # None /\ is >= was)
  OBVIOUS
<1> DEFINE bd == before[id].decoded
           ad == after[id].decoded
           bb == before[id].busy
           ab == after[id].busy
<1>9. ad <= bd + tokens
  BY <1>7 DEF SlotWorked
<1>10. exact => ad = bd + tokens /\ (~bb => tokens = 0)
  BY <1>5, <1>7 DEF SlotWorked
<1>11. (is = IF ab THEN ad ELSE None) /\ (was = IF bb THEN bd ELSE None)
  BY <1>2, <1>3
<1>12. bd \in Nat /\ ad \in Nat /\ bb \in BOOLEAN /\ ab \in BOOLEAN
  BY <1>4
<1> HIDE DEF bd, ad, bb, ab, is, was, next
<1>13. CASE is = None
  <2>1. ~bb
    BY <1>8, <1>11, <1>12, <1>13, NoneAssumption
  <2> QED
    BY <1>6, <1>10, <1>13, <2>1 DEF next
<1>14. CASE is # None
  <2>1. ab /\ is = ad /\ was # None
    BY <1>8, <1>11, <1>14
  <2>2. bb /\ was = bd
    BY <1>11, <2>1
  <2>3. next = sum + (ad - bd)
    BY <1>6, <1>14, <2>1, <2>2
  <2> QED
    BY <1>9, <1>10, <1>12, <2>3 DEF next
<1> QED
  BY <1>13, <1>14

\* slot_delta: never more than the server generated between the two arrays, and
\* exactly that over one run in which the tasks are reported.
LEMMA SlotDelta ==
  ASSUME NEW truth, NEW slots, NEW later, NEW now_slots, NEW seconds,
         TruthTyped(truth), TruthTyped(later),
         LaterArray(truth, slots, later, now_slots),
         slot_delta(slots, now_slots, seconds) # None
  PROVE  LET delta == slot_delta(slots, now_slots, seconds)
             work == later.done - truth.done
         IN  /\ delta \in Int
             /\ delta <= work
             /\ truth.run = later.run /\ (\A i \in DOMAIN now_slots : now_slots[i].task # None)
                  => delta = work
<1> DEFINE exact == /\ truth.run = later.run
                    /\ \A i \in DOMAIN now_slots : now_slots[i].task # None
           delta == slot_delta(slots, now_slots, seconds)
           known == \A i \in DOMAIN now_slots :
                      LET was == decoded_before(slots, now_slots[i])
                          is == now_slots[i].decoded
                      IN  (was = None /\ is = None) \/ (was # None /\ is # None /\ is >= was)
<1>1. PICK before, after :
        /\ View(before) /\ View(after)
        /\ ShowsView(slots, truth.run, before) /\ ShowsView(now_slots, later.run, after)
        /\ Worked(truth, before, later, after)
  BY DEF LaterArray
<1>2. PICK w : WorkedBy(w, truth, before, later, after)
  BY <1>1 DEF Worked
<1>3. paired(slots, now_slots) /\ known /\ delta = SlotSum(slots, now_slots)
  BY DEF slot_delta, SlotSum
<1>4. PICK n \in Nat : DOMAIN now_slots = 1 .. n
  BY <1>1 DEF ShowsView
<1>5. PICK g : Deltas(slots, now_slots, n, g) /\ SlotSum(slots, now_slots) = g[n]
  BY <1>4, FoldDeltas
<1> HIDE DEF delta
<1> DEFINE ids(k) == {now_slots[i].id : i \in 1 .. k}
           P == {k \in Nat : k <= n =>
                   g[k] \in Int /\ g[k] <= w[ids(k)] /\ (exact => g[k] = w[ids(k)])}
<1>6. Measure(w)
  BY <1>2 DEF WorkedBy
<1>7. 0 \in P
  <2>1. ids(0) = {} /\ g[0] = 0
    BY <1>5 DEF Deltas
  <2>2. w[ids(0)] = 0
    BY <1>6, <2>1, MeasureEmpty
  <2> QED
    BY <2>1, <2>2
<1>8. ASSUME NEW k \in Nat, k \in P PROVE k + 1 \in P
  <2> SUFFICES ASSUME k + 1 <= n
               PROVE  /\ g[k + 1] \in Int /\ g[k + 1] <= w[ids(k + 1)]
                      /\ exact => g[k + 1] = w[ids(k + 1)]
    OBVIOUS
  <2> DEFINE slot == now_slots[k + 1]
             T == ids(k)
             tokens == w[{slot.id}]
  <2>1. g[k] \in Int /\ g[k] <= w[T] /\ (exact => g[k] = w[T])
    BY <1>8
  <2>2. k + 1 \in 1 .. n /\ k + 1 \in DOMAIN now_slots
    BY <1>4
  <2>3. \A i \in 1 .. k : now_slots[i].id \in SlotIds /\ now_slots[i].id # slot.id
    <3> SUFFICES ASSUME NEW i \in 1 .. k
                 PROVE  now_slots[i].id \in SlotIds /\ now_slots[i].id # slot.id
      OBVIOUS
    <3>1. i \in DOMAIN now_slots /\ i # k + 1
      BY <1>4
    <3> QED
      BY <1>1, <2>2, <3>1 DEF ShowsView
  <2>4. slot.id \in SlotIds
    BY <1>1, <2>2 DEF ShowsView
  <2>5. T \in SUBSET SlotIds /\ {slot.id} \in SUBSET SlotIds /\ T \intersect {slot.id} = {}
    BY <2>3, <2>4
  <2>6. w[T \union {slot.id}] = w[T] + tokens
    BY <1>6, <2>5 DEF Measure
  <2>7. w[T] \in Nat /\ tokens \in Nat
    BY <1>6, <2>5 DEF Measure
  <2>8. ids(k + 1) = T \union {slot.id}
    <3>1. 1 .. (k + 1) = (1 .. k) \union {k + 1}
      OBVIOUS
    <3> QED
      BY <3>1
  <2>9. g[k + 1] = with_slot_delta(slots, g[k], slot)
    <3>1. (k + 1) - 1 = k
      OBVIOUS
    <3> QED
      BY <1>5, <2>2, <3>1 DEF Deltas
  <2> DEFINE next == with_slot_delta(slots, g[k], slot)
  <2>10. next \in Int /\ next <= g[k] + tokens /\ (exact => next = g[k] + tokens)
    <3>1. SlotWorked(before[slot.id], after[slot.id], tokens, truth.run = later.run)
      BY <1>2, <2>4 DEF WorkedBy
    <3>2. LET was == decoded_before(slots, slot)
              is == slot.decoded
          IN  (was = None /\ is = None) \/ (was # None /\ is # None /\ is >= was)
      BY <1>3, <2>2
    <3>3. exact \in BOOLEAN /\ (exact => truth.run = later.run /\ slot.task # None)
      BY <2>2
    <3> HIDE DEF exact, tokens, known
    <3> QED
      BY <1>1, <1>3, <2>1, <2>2, <2>7, <3>1, <3>2, <3>3, SlotTerm
  <2>11. g[k + 1] = next /\ w[ids(k + 1)] = w[T] + tokens
    BY <2>6, <2>8, <2>9
  <2> DEFINE before_sum == g[k]
             before_work == w[T]
  <2> HIDE DEF next, tokens, exact, before_sum, before_work
  <2>12. /\ before_sum \in Int /\ before_sum <= before_work /\ (exact => before_sum = before_work)
         /\ next \in Int /\ next <= before_sum + tokens /\ (exact => next = before_sum + tokens)
         /\ before_work \in Nat /\ tokens \in Nat
    BY <2>1, <2>7, <2>10 DEF before_sum, before_work
  <2>13. /\ next \in Int /\ next <= before_work + tokens
         /\ exact => next = before_work + tokens
    BY <2>12
  <2> QED
    BY <2>11, <2>13 DEF before_work
<1> HIDE DEF P
<1>9. n \in P
  BY <1>7, <1>8, SetInduction
<1>10. ids(n) = SlotIds
  BY <1>1, <1>4 DEF ShowsView
<1>11. w[SlotIds] = later.done - truth.done
  BY <1>2 DEF WorkedBy
<1>12. delta \in Int /\ delta <= w[SlotIds] /\ (exact => delta = w[SlotIds])
  <2> HIDE DEF ids, exact
  <2>1. g[n] \in Int /\ g[n] <= w[ids(n)] /\ (exact => g[n] = w[ids(n)])
    BY <1>9 DEF P
  <2>2. delta = g[n]
    BY <1>3, <1>5
  <2> QED
    BY <1>10, <2>1, <2>2
<1> QED
  BY <1>11, <1>12 DEF delta

-----------------------------------------------------------------------------
(* The counters of /slots against the server.                              *)

\* As long as the tasks are reported, a rate of the slots is exact.
ExactRate(rate, slots) ==
  /\ rate # None /\ rate.from = "slots" /\ rate.same_run
  /\ \A i \in DOMAIN slots : slots[i].task # None
  => rate.delta = rate.work

\* The array that was kept is of a moment of the server; no failure came since.
SlotBaselineIs(m) ==
  LET b == m.previous_slots
  IN  b # None =>
        /\ DOMAIN b = {"age", "slots", "truth"} /\ b.age \in {0, 1}
        /\ TruthTyped(b.truth)
        /\ m.slots_gap = FALSE

\* An answer is compared with an earlier array of the same server, or is empty.
Compares(b, answer) ==
  b # None => answer.slots = <<>> \/ LaterArray(b.truth, b.slots, answer.truth, answer.slots)

\* A sum over the slots since b that is within what the server generated.
SumWithin(b, gap, truth, delta, slots) ==
  /\ b.age \in {0, 1} /\ gap = FALSE
  /\ delta # None => delta <= truth.done - b.truth.done
  /\ /\ delta # None /\ b.truth.run = truth.run
     /\ \A i \in DOMAIN slots : slots[i].task # None
     => delta = truth.done - b.truth.done

\* The age of the array that was kept decides whether there is a rate.
LEMMA SlotRate ==
  ASSUME NEW b, NEW gap, NEW truth, NEW delta, NEW slots, SumWithin(b, gap, truth, delta, slots)
  PROVE  LET rate == rate_of("slots", delta, b.age, b, truth, gap)
         IN  RealRate(rate) /\ ExactRate(rate, slots)
<1> USE DEF SumWithin
<1> DEFINE rate == rate_of("slots", delta, b.age, b, truth, gap)
           work == truth.done - b.truth.done
           same_run == truth.run = b.truth.run
<1>1. CASE delta = None \/ b.age = 0
  <2>1. rate = None
    BY <1>1 DEF rate_of
  <2> HIDE DEF rate
  <2> QED
    BY <2>1 DEF RealRate, ExactRate, rate
<1>2. CASE delta # None /\ b.age # 0
  <2>1. rate = [from |-> "slots", delta |-> delta, seconds |-> b.age, work |-> work,
                same_run |-> same_run, gap |-> gap]
    BY <1>2 DEF rate_of
  <2>0. /\ delta <= work
        /\ same_run /\ (\A i \in DOMAIN slots : slots[i].task # None) => delta = work
    BY <1>2
  <2> HIDE DEF rate, same_run, work
  <2>2. /\ rate.from = "slots" /\ rate.delta = delta /\ rate.seconds = 1 /\ rate.work = work
        /\ rate.same_run = same_run /\ rate.gap = gap
    BY <1>2, <2>1
  <2>3. RealRate(rate)
    BY <2>0, <2>2 DEF RealRate
  <2>4. ExactRate(rate, slots)
    BY <2>0, <2>2 DEF ExactRate
  <2> QED
    BY <2>3, <2>4 DEF rate
<1> QED
  BY <1>1, <1>2

\* update_live_slot_throughput measures between the kept array and this one.
LEMMA SlotsMeasured ==
  ASSUME NEW m, DOMAIN m = MonitorFields, SlotBaselineIs(m),
         NEW answer, TruthTyped(answer.truth), Compares(m.previous_slots, answer)
  PROVE  LET u == update_live_slot_throughput(m, answer.slots, answer.truth)
         IN  /\ SlotBaselineIs(u.monitor)
             /\ u.monitor.previous_slots.slots = answer.slots
             /\ u.monitor.previous_slots.truth = answer.truth
             /\ RealRate(u.rate) /\ ExactRate(u.rate, answer.slots)
<1> DEFINE u == update_live_slot_throughput(m, answer.slots, answer.truth)
           b == m.previous_slots
           kept == [age |-> 0, slots |-> answer.slots, truth |-> answer.truth]
           delta == slot_delta(b.slots, answer.slots, b.age)
           rate == rate_of("slots", delta, b.age, b, answer.truth, m.slots_gap)
<1>1. /\ u.monitor = [m EXCEPT !.previous_slots = kept, !.slots_gap = FALSE]
      /\ u.rate = IF b = None THEN None ELSE rate
  BY DEF update_live_slot_throughput
<1> HIDE DEF u
<1>2. u.monitor.previous_slots = kept /\ u.monitor.slots_gap = FALSE
  BY <1>1 DEF MonitorFields
<1>3. /\ DOMAIN kept = {"age", "slots", "truth"} /\ kept.age = 0 /\ kept.slots = answer.slots
      /\ kept.truth = answer.truth
  OBVIOUS
<1> HIDE DEF kept
<1>4. SlotBaselineIs(u.monitor)
  BY <1>2, <1>3 DEF SlotBaselineIs
<1>5. ASSUME b # None PROVE RealRate(rate) /\ ExactRate(rate, answer.slots)
  <2>1. b.age \in {0, 1} /\ TruthTyped(b.truth) /\ m.slots_gap = FALSE
    BY <1>5 DEF SlotBaselineIs
  <2> DEFINE work == answer.truth.done - b.truth.done
             exact == /\ b.truth.run = answer.truth.run
                      /\ \A i \in DOMAIN answer.slots : answer.slots[i].task # None
  <2>2. delta # None => delta <= work /\ (exact => delta = work)
    <3> SUFFICES ASSUME delta # None PROVE delta <= work /\ (exact => delta = work)
      OBVIOUS
    <3>1. answer.slots # <<>>
      BY DEF slot_delta
    <3>2. LaterArray(b.truth, b.slots, answer.truth, answer.slots)
      BY <1>5, <3>1 DEF Compares
    <3> QED
      BY <2>1, <3>2, SlotDelta
  <2> DEFINE truth == answer.truth
             slots == answer.slots
             gap == m.slots_gap
  <2>3. SumWithin(b, gap, truth, delta, slots)
    BY <2>1, <2>2 DEF SumWithin
  <2> HIDE DEF delta, truth, slots, gap, b
  <2>4. /\ RealRate(rate_of("slots", delta, b.age, b, truth, gap))
        /\ ExactRate(rate_of("slots", delta, b.age, b, truth, gap), slots)
    BY <2>3, SlotRate, Zenon
  <2> QED
    BY <2>4 DEF truth, slots, gap
<1>6. RealRate(u.rate) /\ ExactRate(u.rate, answer.slots)
  <2>1. CASE b = None
    <3>1. u.rate = None
      BY <1>1, <2>1
    <3> QED
      BY <3>1 DEF RealRate, ExactRate
  <2>2. CASE b # None
    <3>1. u.rate = rate
      BY <1>1, <2>2
    <3> QED
      BY <1>5, <2>2, <3>1
  <2> QED
    BY <2>1, <2>2
<1> QED
  BY <1>2, <1>3, <1>4, <1>6 DEF u

\* A rate of /metrics is marked as such.
LEMMA MetricRate ==
  ASSUME NEW m, NEW answers, MetricUpdate(m, answers).rate # None
  PROVE  MetricUpdate(m, answers).rate.from = "metrics"
<1> DEFINE k == with_format(m, parsed_answer(answers.metrics))
           stats == CountsIn(parsed_answer(answers.metrics).samples)
           truth == answers.metrics.truth
<1>1. \A n, st, t : update_metric_counters(n, st, t).rate # None =>
                      update_metric_counters(n, st, t).rate.from = "metrics"
  BY DEF update_metric_counters, rate_of
<1>2. MetricUpdate(m, answers).rate = update_metric_counters(k, stats, truth).rate
  BY DEF MetricUpdate
<1> QED
  BY <1>1, <1>2

\* The rate that is published.
LEMMA ChosenIsReal ==
  ASSUME NEW m, NEW answers, RealRate(MetricUpdate(m, answers).rate),
         RealRate(SlotUpdate(m, answers).rate),
         NEW slots, ExactRate(SlotUpdate(m, answers).rate, slots)
  PROVE  RealRate(ChosenRate(m, answers)) /\ ExactRate(ChosenRate(m, answers), slots)
<1> DEFINE parsed == parsed_answer(answers.metrics)
           metric == MetricUpdate(m, answers).rate
           slotted == SlotUpdate(m, answers).rate
           live == [from |-> "strata", delta |-> parsed.live.decode_tps]
           chosen == ChosenRate(m, answers)
<1>1. chosen \in {None, live, slotted, metric}
  BY DEF ChosenRate, or_else
<1>2. metric # None => metric.from = "metrics"
  BY MetricRate
<1>3. live.from = "strata"
  OBVIOUS
<1> HIDE DEF live, metric, slotted, chosen
<1>4. CASE chosen = None
  BY <1>4 DEF RealRate, ExactRate, chosen
<1>5. CASE chosen = live
  BY <1>3, <1>5 DEF RealRate, ExactRate, chosen
<1>6. CASE chosen = slotted
  BY <1>6 DEF chosen, slotted
<1>7. CASE chosen = metric /\ metric # None
  BY <1>2, <1>7 DEF RealRate, ExactRate, chosen, metric
<1> QED
  BY <1>1, <1>4, <1>5, <1>6, <1>7

-----------------------------------------------------------------------------
(* The slots of the server as it goes on.                                  *)

SlotFields == {"task", "decoded", "busy"}

SlotTypes ==
  /\ DOMAIN server.slots = SlotIds
  /\ \A id \in SlotIds : DOMAIN server.slots[id] = SlotFields
  /\ View(server.slots)
  /\ server.reports_tasks <=> server.run = 1

\* No tokens, and one token of one slot.
LEMMA MeasureNone ==
  LET w == [T \in SUBSET SlotIds |-> 0] IN Measure(w) /\ \A T \in SUBSET SlotIds : w[T] = 0
BY DEF Measure

LEMMA MeasureOne ==
  ASSUME NEW id \in SlotIds
  PROVE  LET w == [T \in SUBSET SlotIds |-> IF id \in T THEN 1 ELSE 0]
         IN  Measure(w) /\ \A T \in SUBSET SlotIds : w[T] = IF id \in T THEN 1 ELSE 0
<1> DEFINE w == [T \in SUBSET SlotIds |-> IF id \in T THEN 1 ELSE 0]
<1>1. \A T \in SUBSET SlotIds : w[T] = IF id \in T THEN 1 ELSE 0
  OBVIOUS
<1>2. w \in [SUBSET SlotIds -> Nat]
  OBVIOUS
<1> HIDE DEF w
<1>3. ASSUME NEW T \in SUBSET SlotIds, NEW U \in SUBSET SlotIds, T \intersect U = {}
      PROVE  w[T \union U] = w[T] + w[U]
  <2>1. T \union U \in SUBSET SlotIds
    OBVIOUS
  <2>2. w[T \union U] = IF id \in T \union U THEN 1 ELSE 0
    BY <1>1, <2>1
  <2>3. ~(id \in T /\ id \in U)
    BY <1>3
  <2> QED
    BY <1>1, <2>2, <2>3
<1> QED
  BY <1>1, <1>2, <1>3 DEF Measure, w

LEMMA MeasureSum ==
  ASSUME NEW v, Measure(v), NEW w, Measure(w)
  PROVE  LET u == [T \in SUBSET SlotIds |-> v[T] + w[T]]
         IN  Measure(u) /\ \A T \in SUBSET SlotIds : u[T] = v[T] + w[T]
<1> DEFINE u == [T \in SUBSET SlotIds |-> v[T] + w[T]]
<1>1. \A T \in SUBSET SlotIds : u[T] = v[T] + w[T] /\ v[T] \in Nat /\ w[T] \in Nat
  BY DEF Measure
<1>2. u \in [SUBSET SlotIds -> Nat]
  <2>1. ASSUME NEW T \in SUBSET SlotIds PROVE v[T] + w[T] \in Nat
    <3> DEFINE x == v[T]
               y == w[T]
    <3>1. x \in Nat /\ y \in Nat
      BY <1>1
    <3> HIDE DEF x, y
    <3>2. x + y \in Nat
      BY <3>1
    <3> QED
      BY <3>2 DEF x, y
  <2> QED
    BY <2>1
<1> HIDE DEF u
<1>3. ASSUME NEW T \in SUBSET SlotIds, NEW U \in SUBSET SlotIds, T \intersect U = {}
      PROVE  u[T \union U] = u[T] + u[U]
  <2> DEFINE both == T \union U
  <2>1. both \in SUBSET SlotIds
    OBVIOUS
  <2>2. v[both] = v[T] + v[U] /\ w[both] = w[T] + w[U]
    BY <1>3 DEF Measure
  <2> HIDE DEF both
  <2>3. u[both] = u[T] + u[U]
    BY <1>1, <2>1, <2>2
  <2> QED
    BY <2>3 DEF both
<1> QED
  BY <1>1, <1>2, <1>3 DEF Measure, u

\* One slot over two spans of time.
LEMMA SlotWorkedFurther ==
  ASSUME NEW a, NEW b, NEW c, NEW s \in Nat, NEW t \in Nat,
         {a.task, b.task, c.task, a.decoded, b.decoded, c.decoded} \subseteq Nat,
         NEW same_first \in BOOLEAN, NEW same_next \in BOOLEAN,
         SlotWorked(a, b, s, same_first), SlotWorked(b, c, t, same_next)
  PROVE  SlotWorked(a, c, s + t, same_first /\ same_next)
<1> DEFINE at == a.task
           bt == b.task
           ct == c.task
           ad == a.decoded
           bd == b.decoded
           cd == c.decoded
<1>1. {at, bt, ct, ad, bd, cd} \subseteq Nat
  OBVIOUS
<1>2. /\ bd <= ad + s /\ cd <= bd + t
      /\ same_first => at <= bt
      /\ same_next => bt <= ct
      /\ same_first /\ at = bt => bd = ad + s
      /\ same_next /\ bt = ct => cd = bd + t
  BY DEF SlotWorked
<1>3. /\ same_first /\ at = bt /\ ~a.busy => ~b.busy /\ s = 0
      /\ same_next /\ bt = ct /\ ~b.busy => ~c.busy /\ t = 0
  BY DEF SlotWorked
<1> HIDE DEF at, bt, ct, ad, bd, cd
<1>4. /\ cd <= ad + (s + t)
      /\ same_first /\ same_next => at <= ct
      /\ same_first /\ same_next /\ at = ct => at = bt /\ bt = ct /\ cd = ad + (s + t)
  BY <1>1, <1>2
<1>5. same_first /\ same_next /\ at = ct /\ ~a.busy => ~c.busy /\ s + t = 0
  BY <1>3, <1>4
<1> QED
  BY <1>4, <1>5 DEF SlotWorked, at, ct, ad, cd

\* All slots over two spans of time.
LEMMA WorkedFurther ==
  ASSUME NEW truth, NEW middle, NEW later, NEW x, NEW y, NEW z,
         View(x), View(y), View(z),
         TruthTyped(truth), TruthTyped(middle), TruthTyped(later),
         Worked(truth, x, middle, y), Worked(middle, y, later, z)
  PROVE  Worked(truth, x, later, z)
<1>1. PICK v : WorkedBy(v, truth, x, middle, y)
  BY DEF Worked
<1>2. PICK w : WorkedBy(w, middle, y, later, z)
  BY DEF Worked
<1> DEFINE u == [T \in SUBSET SlotIds |-> v[T] + w[T]]
<1>3. Measure(u) /\ \A T \in SUBSET SlotIds : u[T] = v[T] + w[T]
  BY <1>1, <1>2, MeasureSum DEF WorkedBy
<1> HIDE DEF u
<1>4. /\ truth.run \in Nat /\ middle.run \in Nat /\ later.run \in Nat
      /\ truth.done \in Nat /\ middle.done \in Nat /\ later.done \in Nat
  BY DEF TruthTyped
<1>5. truth.run <= middle.run /\ middle.run <= later.run
  BY <1>1, <1>2 DEF WorkedBy
<1>6. u[SlotIds] = later.done - truth.done
  <2>1. v[SlotIds] = middle.done - truth.done /\ w[SlotIds] = later.done - middle.done
    BY <1>1, <1>2 DEF WorkedBy
  <2>2. u[SlotIds] = v[SlotIds] + w[SlotIds]
    BY <1>3
  <2> QED
    BY <1>4, <2>1, <2>2
<1>7. ASSUME NEW id \in SlotIds
      PROVE  SlotWorked(x[id], z[id], u[{id}], truth.run = later.run)
  <2> DEFINE s == v[{id}]
             t == w[{id}]
             same_first == truth.run = middle.run
             same_next == middle.run = later.run
  <2>1. {id} \in SUBSET SlotIds
    OBVIOUS
  <2>2. s \in Nat /\ t \in Nat /\ u[{id}] = s + t
    BY <1>1, <1>2, <1>3, <2>1 DEF WorkedBy, Measure
  <2>3. (same_first /\ same_next) <=> truth.run = later.run
    BY <1>4, <1>5
  <2>4. SlotWorked(x[id], y[id], s, same_first) /\ SlotWorked(y[id], z[id], t, same_next)
    BY <1>1, <1>2 DEF WorkedBy
  <2>5. {x[id].task, y[id].task, z[id].task, x[id].decoded, y[id].decoded, z[id].decoded}
          \subseteq Nat
    BY DEF View
  <2>6. same_first \in BOOLEAN /\ same_next \in BOOLEAN
    OBVIOUS
  <2> DEFINE a == x[id]
             b == y[id]
             c == z[id]
  <2> HIDE DEF s, t, same_first, same_next, a, b, c
  <2>7. SlotWorked(a, c, s + t, same_first /\ same_next)
    <3>1. /\ {a.task, b.task, c.task, a.decoded, b.decoded, c.decoded} \subseteq Nat
          /\ SlotWorked(a, b, s, same_first) /\ SlotWorked(b, c, t, same_next)
      BY <2>4, <2>5 DEF a, b, c
    <3> QED
      BY <2>2, <2>6, <3>1, SlotWorkedFurther
  <2> QED
    BY <2>2, <2>3, <2>7 DEF SlotWorked, a, c
<1>8. WorkedBy(u, truth, x, later, z)
  <2>1. truth.run <= later.run
    BY <1>4, <1>5
  <2> QED
    BY <1>3, <1>6, <1>7, <2>1 DEF WorkedBy
<1> QED
  BY <1>8 DEF Worked

\* No time has passed.
LEMMA WorkedNow ==
  ASSUME CountTypes, SlotTypes
  PROVE  Worked(Truth, server.slots, Truth, server.slots)
<1> DEFINE w == [T \in SUBSET SlotIds |-> 0]
<1>1. Measure(w) /\ \A T \in SUBSET SlotIds : w[T] = 0
  BY MeasureNone
<1> HIDE DEF w
<1>2. Truth.done \in Nat /\ Truth.run \in Nat
  BY DEF CountTypes, Truth
<1>3. ASSUME NEW id \in SlotIds
      PROVE  SlotWorked(server.slots[id], server.slots[id], w[{id}], Truth.run = Truth.run)
  <2>1. w[{id}] = 0
    BY <1>1
  <2> QED
    BY <2>1 DEF SlotTypes, View, SlotWorked
<1>4. w[SlotIds] = 0
  BY <1>1
<1>5. WorkedBy(w, Truth, server.slots, Truth, server.slots)
  BY <1>1, <1>2, <1>3, <1>4 DEF WorkedBy
<1> QED
  BY <1>5 DEF Worked

\* Every step of the server: no slot, one slot, or all of them.
LEMMA SlotsStep ==
  ASSUME MonitorTypes, CountTypes, CountTypes', SlotTypes, ServerStep
  PROVE  /\ SlotTypes'
         /\ scenario = "slots" => Worked(Truth, server.slots, Truth', server'.slots)
<1> DEFINE zero == [T \in SUBSET SlotIds |-> 0]
           old == server.slots
           new == server'.slots
           Stepped == /\ SlotTypes'
                      /\ scenario = "slots" => Worked(Truth, old, Truth', new)
<1>1. Measure(zero) /\ \A T \in SUBSET SlotIds : zero[T] = 0
  BY MeasureNone
<1>2. DOMAIN server = ServerFields
  BY DEF MonitorTypes
<1>3. /\ Truth.run = server.run /\ Truth.done = done
      /\ Truth'.run = server'.run /\ Truth'.done = done'
  BY DEF Truth
<1>4. server.run \in Nat /\ server'.run \in Nat /\ done \in Nat /\ done' \in Nat
  BY DEF CountTypes
<1>5. /\ DOMAIN old = SlotIds
      /\ \A id \in SlotIds :
           /\ DOMAIN old[id] = SlotFields
           /\ old[id].task \in Nat /\ old[id].decoded \in Nat /\ old[id].busy \in BOOLEAN
      /\ server.reports_tasks <=> server.run = 1
  BY DEF SlotTypes, View
<1> HIDE DEF zero, old, new
\* A step of one slot: what has to be shown of it.
<1>6. ASSUME NEW id \in SlotIds,
             server'.run = server.run, server'.reports_tasks = server.reports_tasks,
             DOMAIN new = SlotIds, \A other \in SlotIds \ {id} : new[other] = old[other],
             DOMAIN new[id] = SlotFields,
             new[id].task \in Nat, new[id].decoded \in Nat, new[id].busy \in BOOLEAN,
             NEW w, Measure(w), w[SlotIds] = done' - done,
             \A other \in SlotIds \ {id} : w[{other}] = 0,
             SlotWorked(old[id], new[id], w[{id}], TRUE)
      PROVE  Stepped
  <2>1. SlotTypes'
    BY <1>5, <1>6 DEF SlotTypes, View, new
  <2>2. ASSUME NEW other \in SlotIds
        PROVE  SlotWorked(old[other], new[other], w[{other}], Truth.run = Truth'.run)
    <3>1. CASE other = id
      BY <1>3, <1>6, <3>1 DEF SlotWorked
    <3>2. CASE other # id
      <4>1. new[other] = old[other] /\ w[{other}] = 0
        BY <1>6, <3>2
      <4>2. old[other].task \in Nat /\ old[other].decoded \in Nat
        BY <1>5
      <4> QED
        BY <4>1, <4>2 DEF SlotWorked
    <3> QED
      BY <3>1, <3>2
  <2>3. WorkedBy(w, Truth, old, Truth', new)
    BY <1>3, <1>4, <1>6, <2>2 DEF WorkedBy
  <2> QED
    BY <2>1, <2>3 DEF Worked
<1>7. ASSUME Generate PROVE Stepped
  <2>1. scenario # "slots"
    BY <1>7 DEF Generate
  <2>2. new = old /\ server'.run = server.run /\ server'.reports_tasks = server.reports_tasks
    BY <1>2, <1>7 DEF Generate, ServerFields, old, new
  <2> QED
    BY <2>1, <2>2 DEF SlotTypes, old, new
<1>8. ASSUME NEW id \in SlotIds, Decode(id) PROVE Stepped
  <2> DEFINE w == [T \in SUBSET SlotIds |-> IF id \in T THEN 1 ELSE 0]
  <2>1. Measure(w) /\ \A T \in SUBSET SlotIds : w[T] = IF id \in T THEN 1 ELSE 0
    BY MeasureOne
  <2> HIDE DEF w
  <2>2. /\ old[id].busy /\ done' = done + 1
        /\ server' = [server EXCEPT !.generated = @ + 1, !.slots[id].decoded = @ + 1]
    BY <1>8 DEF Decode, old
  <2>3. /\ new = [old EXCEPT ![id].decoded = @ + 1]
        /\ server'.run = server.run /\ server'.reports_tasks = server.reports_tasks
    BY <1>2, <2>2 DEF ServerFields, old, new
  <2>4. /\ DOMAIN new = SlotIds /\ \A other \in SlotIds \ {id} : new[other] = old[other]
        /\ new[id] = [old[id] EXCEPT !.decoded = @ + 1]
    BY <1>5, <2>3
  <2>5. /\ DOMAIN new[id] = SlotFields
        /\ new[id].task = old[id].task /\ new[id].decoded = old[id].decoded + 1
        /\ new[id].busy = old[id].busy
    BY <1>5, <2>4 DEF SlotFields
  <2>6. w[{id}] = 1 /\ w[SlotIds] = 1 /\ \A other \in SlotIds \ {id} : w[{other}] = 0
    BY <2>1
  <2>7. SlotWorked(old[id], new[id], w[{id}], TRUE)
    BY <1>5, <2>2, <2>5, <2>6 DEF SlotWorked
  <2>8. /\ new[id].task \in Nat /\ new[id].decoded \in Nat /\ new[id].busy \in BOOLEAN
        /\ w[SlotIds] = done' - done
    BY <1>4, <1>5, <2>2, <2>5, <2>6
  <2> HIDE DEF Stepped
  <2> QED
    BY <1>6, <2>1, <2>3, <2>4, <2>5, <2>6, <2>7, <2>8
<1>9. ASSUME NEW id \in SlotIds, NewTask(id) PROVE Stepped
  <2>1. /\ done' = done
        /\ server' = [server EXCEPT
             !.slots[id] = [task |-> server.slots[id].task + 1, decoded |-> 0, busy |-> TRUE]]
    BY <1>9 DEF NewTask
  <2>2. /\ new = [old EXCEPT ![id] = [task |-> old[id].task + 1, decoded |-> 0, busy |-> TRUE]]
        /\ server'.run = server.run /\ server'.reports_tasks = server.reports_tasks
    BY <1>2, <2>1 DEF ServerFields, old, new
  <2>3. /\ DOMAIN new = SlotIds /\ \A other \in SlotIds \ {id} : new[other] = old[other]
        /\ new[id] = [task |-> old[id].task + 1, decoded |-> 0, busy |-> TRUE]
    BY <1>5, <2>2
  <2>4. /\ DOMAIN new[id] = SlotFields
        /\ new[id].task = old[id].task + 1 /\ new[id].decoded = 0 /\ new[id].busy = TRUE
    BY <2>3 DEF SlotFields
  <2>5. zero[{id}] = 0 /\ zero[SlotIds] = 0 /\ \A other \in SlotIds \ {id} : zero[{other}] = 0
    BY <1>1
  <2>6. SlotWorked(old[id], new[id], zero[{id}], TRUE)
    BY <1>5, <2>4, <2>5 DEF SlotWorked
  <2>7. new[id].task \in Nat /\ new[id].decoded \in Nat /\ new[id].busy \in BOOLEAN
    <3>1. new[id].task \in Nat /\ new[id].decoded \in Nat
      BY <1>5, <2>4
    <3>2. new[id].busy \in BOOLEAN
      BY <2>4, Zenon
    <3> QED
      BY <3>1, <3>2
  <2>8. zero[SlotIds] = done' - done
    BY <1>4, <2>1, <2>5
  <2> HIDE DEF Stepped
  <2> QED
    BY <1>1, <1>6, <2>2, <2>3, <2>4, <2>5, <2>6, <2>7, <2>8
<1>10. ASSUME NEW id \in SlotIds, EndTask(id) PROVE Stepped
  <2>1. /\ done' = done /\ old[id].busy
        /\ server' = [server EXCEPT !.slots[id].busy = FALSE]
    BY <1>10 DEF EndTask, old
  <2>2. /\ new = [old EXCEPT ![id].busy = FALSE]
        /\ server'.run = server.run /\ server'.reports_tasks = server.reports_tasks
    BY <1>2, <2>1 DEF ServerFields, old, new
  <2>3. /\ DOMAIN new = SlotIds /\ \A other \in SlotIds \ {id} : new[other] = old[other]
        /\ new[id] = [old[id] EXCEPT !.busy = FALSE]
    BY <1>5, <2>2
  <2>4. /\ DOMAIN new[id] = SlotFields
        /\ new[id].task = old[id].task /\ new[id].decoded = old[id].decoded
        /\ new[id].busy = FALSE
    BY <1>5, <2>3 DEF SlotFields
  <2>5. zero[{id}] = 0 /\ zero[SlotIds] = 0 /\ \A other \in SlotIds \ {id} : zero[{other}] = 0
    BY <1>1
  <2>6. SlotWorked(old[id], new[id], zero[{id}], TRUE)
    BY <1>5, <2>4, <2>5 DEF SlotWorked
  <2>7. new[id].task \in Nat /\ new[id].decoded \in Nat /\ new[id].busy \in BOOLEAN
    <3>1. new[id].task \in Nat /\ new[id].decoded \in Nat
      BY <1>5, <2>4
    <3>2. new[id].busy \in BOOLEAN
      BY <2>4, Zenon
    <3> QED
      BY <3>1, <3>2
  <2>8. zero[SlotIds] = done' - done
    BY <1>4, <2>1, <2>5
  <2> HIDE DEF Stepped
  <2> QED
    BY <1>1, <1>6, <2>2, <2>3, <2>4, <2>5, <2>6, <2>7, <2>8
<1>11. ASSUME Restart PROVE Stepped
  <2>1. PICK format \in Formats, model \in ModelChoices :
          server' = FreshServer(server.run + 1, format, model)
    BY <1>11 DEF Restart
  <2>2. /\ new = FreshSlots /\ server'.run = server.run + 1
        /\ server'.reports_tasks <=> server'.run = 1
    BY <2>1 DEF FreshServer, new
  <2>3. /\ DOMAIN new = SlotIds
        /\ \A id \in SlotIds : /\ DOMAIN new[id] = SlotFields
                               /\ new[id].task = 0 /\ new[id].decoded = 0 /\ new[id].busy = FALSE
    BY <2>2 DEF FreshSlots, SlotFields
  <2>4. SlotTypes'
    <3>1. View(new)
      <4>1. ASSUME NEW id \in SlotIds PROVE new[id].task \in Nat /\ new[id].decoded \in Nat
        BY <2>3
      <4>2. ASSUME NEW id \in SlotIds PROVE new[id].busy \in BOOLEAN
        BY <2>3, Zenon
      <4> QED
        BY <4>1, <4>2 DEF View
    <3>2. server'.reports_tasks <=> server'.run = 1
      BY <2>2
    <3> QED
      BY <2>3, <3>1, <3>2 DEF SlotTypes, new
  <2>5. done' = done
    BY <1>11 DEF Restart
  <2>6. Truth.run <= Truth'.run /\ Truth.run # Truth'.run /\ zero[SlotIds] = Truth'.done - Truth.done
    <3>1. zero[SlotIds] = 0
      BY <1>1
    <3>2. server.run <= server'.run /\ server.run # server'.run
      BY <1>4, <2>2
    <3>3. 0 = done' - done
      BY <1>4, <2>5
    <3> QED
      BY <1>3, <3>1, <3>2, <3>3
  <2>7. ASSUME NEW id \in SlotIds
        PROVE  SlotWorked(old[id], new[id], zero[{id}], Truth.run = Truth'.run)
    <3>1. zero[{id}] = 0
      BY <1>1
    <3>2. old[id].decoded \in Nat
      BY <1>5
    <3> QED
      BY <2>3, <2>6, <3>1, <3>2 DEF SlotWorked
  <2>8. WorkedBy(zero, Truth, old, Truth', new)
    BY <1>1, <2>6, <2>7 DEF WorkedBy
  <2>9. Worked(Truth, old, Truth', new)
    BY <2>8 DEF Worked
  <2> QED
    BY <2>4, <2>9
<1>12. ASSUME ChangeReachability PROVE Stepped
  <2>1. scenario # "slots"
    BY <1>12 DEF ChangeReachability
  <2>2. new = old /\ server'.run = server.run /\ server'.reports_tasks = server.reports_tasks
    BY <1>2, <1>12 DEF ChangeReachability, ServerFields, old, new
  <2> QED
    BY <2>1, <2>2 DEF SlotTypes, old, new
<1> HIDE DEF Stepped
<1>13. Stepped
  BY <1>7, <1>8, <1>9, <1>10, <1>11, <1>12 DEF ServerStep
<1> QED
  BY <1>13 DEF old, new, Stepped

\* An array that the server answers with shows its slots as they are.
LEMMA ServerShows ==
  ASSUME CountTypes, SlotTypes, NEW slots \in ServerSlots
  PROVE  ShowsView(slots, Truth.run, server.slots)
<1> DEFINE n == Cardinality(SlotIds)
           at(id) ==
             [id |-> id, busy |-> server.slots[id].busy, n_ctx |-> 2, used |-> None,
              task |-> IF server.reports_tasks THEN server.slots[id].task ELSE None,
              decoded |-> IF server.slots[id].busy THEN server.slots[id].decoded ELSE None,
              spec |-> [speculative |-> None, n_max |-> None, types |-> None]]
<1>1. PICK order \in SetToSeqs(SlotIds) : slots = [i \in DOMAIN order |-> at(order[i])]
  BY DEF ServerSlots
<1>2. order \in [1 .. n -> SlotIds] /\ \A i, j \in 1 .. n : order[i] = order[j] => i = j
  BY DEF SetToSeqs
<1>3. n \in Nat /\ IsFiniteSet(SlotIds)
  BY ServersAssumption, FS_CardinalityType
<1>4. \A id \in SlotIds : \E i \in 1 .. n : order[i] = id
  <2>1. order \in Injection(1 .. n, SlotIds)
    BY <1>2 DEF Injection, IsInjective
  <2>2. Cardinality(1 .. n) = n
    BY <1>3, FS_Interval
  <2>3. order \in Surjection(1 .. n, SlotIds)
    BY <1>3, <2>1, <2>2, FS_Injection
  <2> QED
    BY <2>3 DEF Surjection
<1>5. DOMAIN slots = 1 .. n /\ \A i \in 1 .. n : slots[i] = at(order[i])
  BY <1>1, <1>2
<1>6. \A i \in 1 .. n : order[i] \in SlotIds
  BY <1>2
<1>7. server.reports_tasks <=> Truth.run = 1
  BY DEF SlotTypes, Truth
<1>8. \A id \in SlotIds :
        /\ at(id).id = id
        /\ at(id).decoded = IF server.slots[id].busy THEN server.slots[id].decoded ELSE None
        /\ at(id).task = IF Truth.run = 1 THEN server.slots[id].task ELSE None
  BY <1>7
<1> HIDE DEF at, n
<1>9. \A i \in DOMAIN slots :
        /\ slots[i].id = order[i] /\ slots[i].id \in SlotIds
        /\ slots[i].decoded = IF server.slots[slots[i].id].busy
                              THEN server.slots[slots[i].id].decoded ELSE None
        /\ slots[i].task = IF Truth.run = 1 THEN server.slots[slots[i].id].task ELSE None
  BY <1>5, <1>6, <1>8
<1>10. \A i, j \in DOMAIN slots : slots[i].id = slots[j].id => i = j
  BY <1>2, <1>5, <1>9
<1>11. \A id \in SlotIds : \E i \in DOMAIN slots : slots[i].id = id
  BY <1>4, <1>5, <1>9
<1> QED
  BY <1>3, <1>5, <1>9, <1>10, <1>11 DEF ShowsView

-----------------------------------------------------------------------------
(* The invariant of the counters of /slots.                                *)

\* The array was answered at the moment `truth`; the slots went on from there.
Since(truth, slots, later, slots_later) ==
  \E view : /\ View(view) /\ ShowsView(slots, truth.run, view)
            /\ Worked(truth, view, later, slots_later)

\* The array that was kept, where arrays are compared.
ArrayFollowed ==
  LET b == monitor.previous_slots
  IN  scenario = "slots" /\ b # None => Since(b.truth, b.slots, Truth, server.slots)

\* An array that waits for its poll to end.
ArrayAnswered ==
  LET answer == poll.answers.slots
  IN  poll.stage = "asking" /\ "slots" \in DOMAIN poll.answers /\ answer.outcome = "ok" =>
        /\ TruthTyped(answer.truth)
        /\ Compares(monitor.previous_slots, answer)
        /\ scenario = "slots" => Since(answer.truth, answer.slots, Truth, server.slots)

\* Arrays of scenario "context" are not compared: there is one poll.
ContextOnce ==
  scenario = "context" =>
    /\ polls \in Nat
    /\ polls = 0 => monitor.previous_slots = None /\ poll = NoPoll
    /\ poll.stage = "asking" => monitor.previous_slots = None

RatesAreReal ==
  /\ RealRate(shown.rate)
  /\ last_good # None => RealRate(last_good.stats.rate)
  /\ ~shown.reconnecting /\ monitor.previous_slots # None =>
       ExactRate(shown.rate, monitor.previous_slots.slots)

SlotsInv ==
  /\ SlotTypes /\ SlotBaselineIs(monitor)
  /\ ArrayFollowed /\ ArrayAnswered /\ ContextOnce /\ RatesAreReal

\* The server goes on from an array.
LEMMA SinceStep ==
  ASSUME MonitorTypes, CountTypes, CountTypes', SlotTypes, ServerStep, scenario = "slots",
         NEW truth, NEW slots, TruthTyped(truth), Since(truth, slots, Truth, server.slots)
  PROVE  Since(truth, slots, Truth', server'.slots)
<1>1. PICK view : /\ View(view) /\ ShowsView(slots, truth.run, view)
                  /\ Worked(truth, view, Truth, server.slots)
  BY DEF Since
<1>2. SlotTypes' /\ Worked(Truth, server.slots, Truth', server'.slots)
  BY SlotsStep
<1>3. View(server.slots) /\ View(server'.slots)
  BY <1>2 DEF SlotTypes
<1>4. TruthTyped(Truth) /\ TruthTyped(Truth')
  BY DEF Truth, TruthTyped, CountTypes
<1>5. Worked(truth, view, Truth', server'.slots)
  BY <1>1, <1>2, <1>3, <1>4, WorkedFurther
<1> QED
  BY <1>1, <1>5 DEF Since

\* An array of the server as it is now.
LEMMA SinceNow ==
  ASSUME CountTypes, SlotTypes, NEW slots \in ServerSlots
  PROVE  /\ Since(Truth, slots, Truth, server.slots)
         /\ \A truth, earlier : Since(truth, earlier, Truth, server.slots) =>
                                  LaterArray(truth, earlier, Truth, slots)
<1>1. View(server.slots) /\ ShowsView(slots, Truth.run, server.slots)
  BY ServerShows DEF SlotTypes
<1>2. Worked(Truth, server.slots, Truth, server.slots)
  BY WorkedNow
<1>3. Since(Truth, slots, Truth, server.slots)
  BY <1>1, <1>2 DEF Since
<1>4. ASSUME NEW truth, NEW earlier, Since(truth, earlier, Truth, server.slots)
      PROVE  LaterArray(truth, earlier, Truth, slots)
  <2>1. PICK view : /\ View(view) /\ ShowsView(earlier, truth.run, view)
                    /\ Worked(truth, view, Truth, server.slots)
    BY <1>4 DEF Since
  <2> QED
    BY <1>1, <2>1 DEF LaterArray
<1> QED
  BY <1>3, <1>4

\* No array has been kept at first.
LEMMA SlotsInit == Init => SlotsInv
<1> SUFFICES ASSUME Init PROVE SlotsInv
  OBVIOUS
<1>1. PICK format \in Formats, model \in ModelChoices : server = FreshServer(1, format, model)
  BY DEF Init
<1>2. /\ server.slots = FreshSlots
      /\ server.reports_tasks <=> server.run = 1
  BY <1>1 DEF FreshServer
<1>3. /\ DOMAIN server.slots = SlotIds
      /\ \A id \in SlotIds : DOMAIN server.slots[id] = SlotFields
      /\ \A id \in SlotIds : server.slots[id].task = 0 /\ server.slots[id].decoded = 0
      /\ \A id \in SlotIds : server.slots[id].busy = FALSE
  BY <1>2 DEF FreshSlots, SlotFields
<1>4. View(server.slots)
  <2>1. \A id \in SlotIds : server.slots[id].task \in Nat /\ server.slots[id].decoded \in Nat
    BY <1>3
  <2>2. \A id \in SlotIds : server.slots[id].busy \in BOOLEAN
    BY <1>3, Zenon
  <2> QED
    BY <2>1, <2>2 DEF View
<1>5. SlotTypes
  BY <1>2, <1>3, <1>4 DEF SlotTypes
<1>6. monitor.previous_slots = None /\ poll = NoPoll /\ polls = 0 /\ last_good = None
  BY DEF Init, NewMonitor
<1>7. shown.rate = None
  BY DEF Init, NoStats
<1> QED
  BY <1>5, <1>6, <1>7
     DEF SlotsInv, SlotBaselineIs, ArrayFollowed, ArrayAnswered, NoPoll, ContextOnce,
         RatesAreReal, RealRate

\* The server goes on: every array lies further back.
LEMMA SlotsServer == HeldInv /\ CountTypes /\ CountTypes' /\ SlotsInv /\ ServerStep => SlotsInv'
<1> SUFFICES ASSUME HeldInv, CountTypes, CountTypes', SlotsInv, ServerStep PROVE SlotsInv'
  OBVIOUS
<1>1. UNCHANGED <<scenario, monitor, last_good, poll, polls, shown>>
  BY ServerStepIs DEF HeldInv
<1>2. SlotTypes'
  BY SlotsStep DEF HeldInv, SlotsInv
<1>3. ASSUME scenario = "slots", NEW truth, NEW slots, TruthTyped(truth),
             Since(truth, slots, Truth, server.slots)
      PROVE  Since(truth, slots, Truth', server'.slots)
  BY <1>3, SinceStep DEF HeldInv, SlotsInv
<1>4. ArrayFollowed'
  <2> DEFINE b == monitor.previous_slots
  <2> SUFFICES ASSUME scenario = "slots", b # None
               PROVE  Since(b.truth, b.slots, Truth', server'.slots)
    BY <1>1 DEF ArrayFollowed
  <2>1. TruthTyped(b.truth) /\ Since(b.truth, b.slots, Truth, server.slots)
    BY DEF SlotsInv, SlotBaselineIs, ArrayFollowed
  <2> QED
    BY <1>3, <2>1
<1>5. ArrayAnswered'
  <2> DEFINE answer == poll.answers.slots
  <2> SUFFICES ASSUME poll.stage = "asking", "slots" \in DOMAIN poll.answers,
                      answer.outcome = "ok"
               PROVE  /\ TruthTyped(answer.truth)
                      /\ Compares(monitor.previous_slots, answer)
                      /\ scenario = "slots" =>
                           Since(answer.truth, answer.slots, Truth', server'.slots)
    BY <1>1 DEF ArrayAnswered, Compares
  <2>1. /\ TruthTyped(answer.truth)
        /\ Compares(monitor.previous_slots, answer)
        /\ scenario = "slots" => Since(answer.truth, answer.slots, Truth, server.slots)
    BY DEF SlotsInv, ArrayAnswered
  <2> QED
    BY <1>3, <2>1
<1> QED
  BY <1>1, <1>2, <1>4, <1>5 DEF SlotsInv, SlotBaselineIs, ContextOnce, RatesAreReal

\* A poll begins without answers; where arrays are not compared, with none kept.
LEMMA SlotsBegin == HeldInv /\ SlotsInv /\ Begin => SlotsInv'
<1> SUFFICES ASSUME HeldInv, SlotsInv, Begin PROVE SlotsInv'
  OBVIOUS
<1>1. /\ UNCHANGED <<scenario, server, done, monitor, last_good, shown>>
      /\ DOMAIN poll'.answers = {}
      /\ MaxPolls[scenario] # None => polls < MaxPolls[scenario]
      /\ polls' = IF MaxPolls[scenario] # None THEN polls + 1 ELSE polls
  BY DEF Begin, serverVars
<1>2. ArrayAnswered'
  BY <1>1 DEF ArrayAnswered
<1>3. ContextOnce'
  <2> SUFFICES ASSUME scenario = "context"
               PROVE  polls' \in Nat /\ polls' # 0 /\ monitor.previous_slots = None
    BY <1>1 DEF ContextOnce
  <2>1. MaxPolls[scenario] = 1 /\ MaxPolls[scenario] # None
    BY PollsAssumption, NoneAssumption
  <2>2. polls \in Nat /\ (polls = 0 => monitor.previous_slots = None)
    BY DEF SlotsInv, ContextOnce
  <2>3. polls = 0 /\ polls' = 1
    BY <1>1, <2>1, <2>2
  <2> QED
    BY <2>2, <2>3
<1>4. Truth' = Truth
  BY <1>1 DEF Truth
<1>5. ArrayFollowed'
  BY <1>1, <1>4 DEF SlotsInv, ArrayFollowed
<1> QED
  BY <1>1, <1>2, <1>3, <1>5 DEF SlotsInv, SlotTypes, View, SlotBaselineIs, RatesAreReal

\* An array is of the server as it is now, or is empty, or is the only one.
LEMMA SlotsAnswer ==
  ASSUME HeldInv, CountTypes, SlotsInv, NEW endpoint \in Endpoints, Answer(endpoint)
  PROVE  SlotsInv'
<1>1. /\ UNCHANGED <<scenario, server, done, monitor, last_good, shown, polls>>
      /\ PollIsOf(poll) /\ PollIsOf(poll')
  BY AnswerIs DEF Answer, serverVars
<1>2. PICK answer \in Answers(endpoint) :
        /\ DOMAIN poll'.answers = DOMAIN poll.answers \union {endpoint}
        /\ poll'.answers[endpoint] = answer
        /\ \A e \in DOMAIN poll.answers \ {endpoint} : poll'.answers[e] = poll.answers[e]
  BY AnswerIs
<1>3. Truth' = Truth
  BY <1>1 DEF Truth
<1> DEFINE b == monitor.previous_slots
           Answered(a) ==
             /\ TruthTyped(a.truth) /\ Compares(b, a)
             /\ scenario = "slots" => Since(a.truth, a.slots, Truth, server.slots)
<1>4. ASSUME "slots" \in DOMAIN poll'.answers, poll'.answers["slots"].outcome = "ok"
      PROVE  Answered(poll'.answers["slots"])
  <2>1. CASE endpoint = "slots"
    <3>1. answer \in SlotsAnswers /\ answer.outcome = "ok" /\ poll'.answers["slots"] = answer
      BY <1>2, <1>4, <2>1 DEF Answers
    <3>2. /\ answer.truth = Truth
          /\ scenario \in {"slots", "context", "props"}
          /\ scenario = "slots" => answer.slots \in ServerSlots
          /\ scenario = "props" => answer.slots = <<>>
      BY <3>1 DEF SlotsAnswers, Failure
    <3>3. TruthTyped(answer.truth)
      BY <3>2, TruthIs
    <3>4. ASSUME scenario = "slots" PROVE Answered(answer)
      <4>1. answer.slots \in ServerSlots
        BY <3>2, <3>4
      <4>2. /\ Since(Truth, answer.slots, Truth, server.slots)
            /\ b # None => LaterArray(b.truth, b.slots, Truth, answer.slots)
        BY <3>4, <4>1, SinceNow DEF SlotsInv, ArrayFollowed
      <4> QED
        BY <3>2, <3>3, <4>2 DEF Compares
    <3>5. ASSUME scenario = "context" PROVE Answered(answer)
      <4>1. b = None
        BY <1>1, <3>5 DEF SlotsInv, ContextOnce, PollIsOf
      <4> QED
        BY <3>3, <3>5, <4>1 DEF Compares
    <3>6. ASSUME scenario = "props" PROVE Answered(answer)
      BY <3>2, <3>3, <3>6 DEF Compares
    <3> QED
      BY <3>1, <3>2, <3>4, <3>5, <3>6
  <2>2. CASE endpoint # "slots"
    <3>1. /\ "slots" \in DOMAIN poll.answers
          /\ poll'.answers["slots"] = poll.answers["slots"]
      BY <1>2, <1>4, <2>2
    <3>2. Answered(poll.answers.slots)
      BY <1>1, <1>4, <3>1 DEF SlotsInv, ArrayAnswered, PollIsOf
    <3> QED
      BY <3>1, <3>2
  <2> QED
    BY <2>1, <2>2
<1>5. ArrayAnswered'
  BY <1>1, <1>3, <1>4 DEF ArrayAnswered, Compares
<1>6. ArrayFollowed'
  BY <1>1, <1>3 DEF SlotsInv, ArrayFollowed
<1>7. ContextOnce'
  <2>1. poll # NoPoll
    BY <1>1 DEF PollIsOf, NoPoll
  <2> QED
    BY <1>1, <2>1 DEF SlotsInv, ContextOnce, PollIsOf
<1> QED
  BY <1>1, <1>5, <1>6, <1>7 DEF SlotsInv, SlotTypes, View, SlotBaselineIs, RatesAreReal

\* Time: the array that was kept is older.
LEMMA SlotsTick == HeldInv /\ SlotsInv /\ Tick => SlotsInv'
<1> SUFFICES ASSUME HeldInv, SlotsInv, Tick PROVE SlotsInv'
  OBVIOUS
<1> DEFINE old == monitor.previous_slots
           new == monitor'.previous_slots
<1>1. UNCHANGED <<scenario, server, done, polls, shown>>
  BY DEF Tick
<1>2. /\ new = IF old = None THEN None ELSE [old EXCEPT !.age = 1]
      /\ monitor'.slots_gap = monitor.slots_gap
  BY TickIs DEF Tick, HeldInv, MonitorTypes, MonitorFields
<1>3. ASSUME old # None
      PROVE  /\ DOMAIN new = {"age", "slots", "truth"} /\ new.age = 1
             /\ new.slots = old.slots /\ new.truth = old.truth
  <2>1. DOMAIN old = {"age", "slots", "truth"}
    BY <1>3 DEF SlotsInv, SlotBaselineIs
  <2> HIDE DEF old, new
  <2>2. new = [old EXCEPT !.age = 1]
    BY <1>2, <1>3
  <2> QED
    BY <2>1, <2>2
<1>4. new # None => old # None
  BY <1>2
<1>5. old = None => new = None
  BY <1>2
<1>6. SlotBaselineIs(monitor')
  BY <1>2, <1>3, <1>4 DEF SlotsInv, SlotBaselineIs
<1>7. Truth' = Truth
  BY <1>1 DEF Truth
<1>8. ArrayFollowed'
  BY <1>1, <1>3, <1>4, <1>7 DEF SlotsInv, ArrayFollowed
<1>9. poll.stage = "asking" => poll'.answers = poll.answers
  BY DEF Tick, HeldInv, PollOK, PollIsOf, NoPoll, PollFields
<1>10. poll'.stage = "asking" => poll.stage = "asking"
  BY DEF Tick
<1>11. poll = NoPoll => poll' = NoPoll
  BY DEF Tick, NoPoll
<1>12. ArrayAnswered'
  <2> SUFFICES ASSUME poll'.stage = "asking", "slots" \in DOMAIN poll'.answers,
                      poll'.answers.slots.outcome = "ok"
               PROVE  /\ TruthTyped(poll'.answers.slots.truth)
                      /\ Compares(new, poll'.answers.slots)
                      /\ scenario = "slots" => Since(poll'.answers.slots.truth,
                                                     poll'.answers.slots.slots,
                                                     Truth, server.slots)
    BY <1>1, <1>7 DEF ArrayAnswered
  <2>1. /\ TruthTyped(poll.answers.slots.truth)
        /\ Compares(old, poll.answers.slots)
        /\ scenario = "slots" => Since(poll.answers.slots.truth, poll.answers.slots.slots,
                                       Truth, server.slots)
    BY <1>9, <1>10 DEF SlotsInv, ArrayAnswered
  <2>2. Compares(new, poll.answers.slots)
    BY <1>3, <1>4, <2>1 DEF Compares
  <2> QED
    BY <1>9, <1>10, <2>1, <2>2
<1>13. ContextOnce'
  BY <1>1, <1>5, <1>10, <1>11 DEF SlotsInv, ContextOnce
<1>14. RatesAreReal'
  <2>1. last_good' # None => last_good # None /\ last_good'.stats = last_good.stats
    <3>1. last_good # None => DOMAIN last_good = {"stats", "age"}
      BY DEF HeldInv, GoodIsRecent
    <3> QED
      BY <3>1 DEF Tick
  <2> QED
    BY <1>1, <1>3, <1>4, <2>1 DEF SlotsInv, RatesAreReal
<1>15. SlotTypes'
  BY <1>1 DEF SlotsInv, SlotTypes, View
<1> QED
  BY <1>6, <1>8, <1>12, <1>13, <1>14, <1>15 DEF SlotsInv

\* The array of the poll that ends is kept, or none is any more.
SlotsKept(m, answers) ==
  LET v == SlotUpdate(m, answers)
      kept == v.monitor.previous_slots
  IN  /\ SlotBaselineIs(v.monitor) /\ RealRate(v.rate)
      /\ \/ /\ answers.slots.outcome = "ok"
            /\ kept.slots = answers.slots.slots /\ kept.truth = answers.slots.truth
            /\ ExactRate(v.rate, answers.slots.slots)
         \/ kept = None /\ v.rate = None

LEMMA PollSlots ==
  ASSUME HeldInv, MetricsInv, SlotsInv, Finish, NEW s, NEW m, OfPoll(s, m)
  PROVE  SlotsKept(m, poll.answers)
<1> DEFINE answers == poll.answers
           u == MetricUpdate(m, answers)
           v == SlotUpdate(m, answers)
<1>1. /\ DOMAIN u.monitor = MonitorFields
      /\ u.monitor.previous_slots = monitor.previous_slots
      /\ u.monitor.slots_gap = monitor.slots_gap
  BY PollCounted
<1>2. CASE answers.slots.outcome = "ok"
  <2>1. SlotBaselineIs(u.monitor)
    BY <1>1 DEF SlotsInv, SlotBaselineIs
  <2>2. TruthTyped(answers.slots.truth) /\ Compares(u.monitor.previous_slots, answers.slots)
    BY <1>1, <1>2, FinishCounts DEF SlotsInv, ArrayAnswered
  <2>3. v = update_live_slot_throughput(u.monitor, answers.slots.slots, answers.slots.truth)
    BY <1>2 DEF SlotUpdate
  <2> DEFINE known == u.monitor
             answer == answers.slots
             w == update_live_slot_throughput(known, answer.slots, answer.truth)
  <2> HIDE DEF u
  <2>4. /\ SlotBaselineIs(w.monitor)
        /\ w.monitor.previous_slots.slots = answer.slots
        /\ w.monitor.previous_slots.truth = answer.truth
        /\ RealRate(w.rate) /\ ExactRate(w.rate, answer.slots)
    BY <1>1, <2>1, <2>2, SlotsMeasured
  <2> HIDE DEF v
  <2> QED
    BY <1>2, <2>3, <2>4 DEF SlotsKept, v
<1>3. CASE answers.slots.outcome # "ok"
  <2>1. v = [monitor |-> without_slots(u.monitor), rate |-> None]
    BY <1>3 DEF SlotUpdate
  <2> DEFINE known == u.monitor
             missed == without_slots(known)
  <2>2. missed.previous_slots = None
    <3> HIDE DEF known
    <3>1. DOMAIN known = MonitorFields
      BY <1>1 DEF known
    <3> QED
      BY <3>1 DEF without_slots, MonitorFields
  <2> HIDE DEF missed, v
  <2>3. v.monitor = missed /\ v.rate = None
    BY <2>1 DEF missed
  <2>4. SlotBaselineIs(v.monitor) /\ RealRate(v.rate)
    BY <2>2, <2>3 DEF SlotBaselineIs, RealRate
  <2> QED
    BY <2>2, <2>3, <2>4 DEF SlotsKept, v
<1> QED
  BY <1>2, <1>3

\* The end of a poll: the rate lies between two answers of this server.
LEMMA SlotsFinish == HeldInv /\ MetricsInv /\ SlotsInv /\ Finish => SlotsInv'
<1> SUFFICES ASSUME HeldInv, MetricsInv, SlotsInv, Finish PROVE SlotsInv'
  OBVIOUS
<1> DEFINE answers == poll.answers
<1>1. /\ UNCHANGED <<scenario, server, done, polls>>
      /\ poll' = NoPoll /\ poll.stage = "asking" /\ "slots" \in DOMAIN answers
  BY FinishCounts
<1>2. PICK s, m : OfPoll(s, m)
  BY FinishCounts
<1> DEFINE v == SlotUpdate(m, answers)
           kept == v.monitor.previous_slots
           rate == ChosenRate(m, answers)
<1>3. monitor' = v.monitor /\ s.stats.rate = rate
  BY <1>2 DEF OfPoll, Published, Measured
<1>4. SlotsKept(m, answers) /\ RealRate(MetricUpdate(m, answers).rate)
  BY <1>2, PollSlots, PollCounted
<1>5. /\ SlotBaselineIs(v.monitor) /\ RealRate(v.rate)
      /\ \/ /\ answers.slots.outcome = "ok"
            /\ kept.slots = answers.slots.slots /\ kept.truth = answers.slots.truth
            /\ ExactRate(v.rate, answers.slots.slots)
         \/ kept = None /\ v.rate = None
  BY <1>4 DEF SlotsKept
<1>6. RealRate(rate) /\ (kept # None => ExactRate(rate, kept.slots))
  <2>1. CASE ExactRate(v.rate, kept.slots)
    BY <1>4, <1>5, <2>1, ChosenIsReal
  <2>2. CASE kept = None /\ v.rate = None
    <3>1. ExactRate(v.rate, <<>>)
      BY <2>2 DEF ExactRate
    <3> QED
      BY <1>4, <1>5, <2>2, <3>1, ChosenIsReal
  <2> QED
    BY <1>5, <2>1, <2>2
<1> HIDE DEF v, rate
<1>7. SlotBaselineIs(monitor') /\ monitor'.previous_slots = kept
  BY <1>3, <1>5
<1>8. Truth' = Truth
  BY <1>1 DEF Truth
<1>9. ArrayFollowed'
  <2> SUFFICES ASSUME scenario = "slots", kept # None
               PROVE  Since(kept.truth, kept.slots, Truth, server.slots)
    BY <1>1, <1>7, <1>8 DEF ArrayFollowed
  <2>1. Since(answers.slots.truth, answers.slots.slots, Truth, server.slots)
    BY <1>1, <1>5 DEF SlotsInv, ArrayAnswered
  <2> QED
    BY <1>5, <2>1
<1>10. ArrayAnswered'
  BY <1>1 DEF ArrayAnswered, NoPoll
<1>11. ContextOnce'
  <2>1. poll # NoPoll
    BY <1>1 DEF NoPoll
  <2> QED
    BY <1>1, <2>1 DEF SlotsInv, ContextOnce, NoPoll
<1>12. RatesAreReal'
  <2>1. /\ shown'.rate = rate \/ (last_good # None /\ shown'.rate = last_good.stats.rate)
        /\ last_good' # None =>
             \/ last_good'.stats.rate = rate
             \/ last_good # None /\ last_good'.stats.rate = last_good.stats.rate
    BY <1>2, <1>3, PublishedField DEF OfPoll
  <2>2. shown'.reconnecting \/ shown'.rate = rate
    <3>1. ASSUME last_good # None,
                 shown' = [last_good.stats EXCEPT !.error = None, !.reconnecting = TRUE]
          PROVE  shown'.reconnecting
      <4>1. DOMAIN last_good.stats = StatsFields
        BY <3>1 DEF HeldInv, GoodIsRecent
      <4> QED
        BY <3>1, <4>1 DEF StatsFields
    <3> QED
      BY <1>2, <1>3, <3>1 DEF OfPoll, Published
  <2>3. RealRate(shown'.rate) /\ (last_good' # None => RealRate(last_good'.stats.rate))
    BY <1>6, <2>1 DEF SlotsInv, RatesAreReal
  <2>4. ~shown'.reconnecting /\ monitor'.previous_slots # None =>
          ExactRate(shown'.rate, monitor'.previous_slots.slots)
    BY <1>6, <1>7, <2>2
  <2> QED
    BY <2>3, <2>4 DEF RatesAreReal
<1>13. SlotTypes'
  BY <1>1 DEF SlotsInv, SlotTypes, View
<1> QED
  BY <1>7, <1>9, <1>10, <1>11, <1>12, <1>13 DEF SlotsInv

\* Every step keeps it.
LEMMA SlotsNext == HeldInv /\ MetricsInv /\ MetricsInv' /\ SlotsInv /\ [Next]_vars => SlotsInv'
<1> SUFFICES ASSUME HeldInv, MetricsInv, MetricsInv', SlotsInv, [Next]_vars PROVE SlotsInv'
  OBVIOUS
<1>1. CountTypes /\ CountTypes'
  BY DEF MetricsInv
<1>2. CASE ServerStep
  BY <1>1, <1>2, SlotsServer
<1>3. CASE Begin
  BY <1>3, SlotsBegin
<1>4. ASSUME NEW endpoint \in Endpoints, Answer(endpoint) PROVE SlotsInv'
  BY <1>1, <1>4, SlotsAnswer
<1>5. CASE Finish
  BY <1>5, SlotsFinish
<1>6. CASE Tick
  BY <1>6, SlotsTick
<1>7. CASE UNCHANGED vars
  <2>1. /\ UNCHANGED <<scenario, server, done, monitor, last_good, poll, polls, shown>>
        /\ Truth' = Truth
    BY <1>7 DEF vars, Truth
  <2> QED
    BY <2>1
       DEF SlotsInv, SlotTypes, View, SlotBaselineIs, ArrayFollowed, ArrayAnswered, Compares,
           ContextOnce, RatesAreReal
<1> QED
  BY <1>2, <1>3, <1>4, <1>5, <1>6, <1>7 DEF Next, ServerStep

\* It holds throughout.
LEMMA AlwaysSlots == MonitorSpec => []SlotsInv
BY MetricsInit, MetricsNext, HeldInit, HeldNext, SlotsInit, SlotsNext, PTL DEF MonitorSpec

\* The live rate (update_live_slot_throughput, update_metric_counters and
\* choose_live_throughput) never exceeds what the server generated between the two
\* answers it lies between, none of which failed; that of /metrics is exactly that
\* over one run of the server.
THEOREM RateSafe == MonitorSpec => []RateIsReal
<1>1. SlotsInv => RateIsReal
  BY DEF SlotsInv, RatesAreReal, RealRate, RateIsReal
<1> QED
  BY <1>1, AlwaysSlots, PTL

\* A rate of the slots is exact over one run of a server that reports its tasks
\* (slot_delta and task_ids_match): however slots end one task and begin another
\* between two polls, no tokens are left out and none are counted twice.
THEOREM SlotRateSafe == MonitorSpec => []SlotRateIsExact
<1>1. SlotsInv => SlotRateIsExact
  BY DEF SlotsInv, RatesAreReal, ExactRate, SlotRateIsExact
<1> QED
  BY <1>1, AlwaysSlots, PTL
==============================================================================

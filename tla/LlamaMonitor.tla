---------------------------- MODULE LlamaMonitor -----------------------------
(***************************************************************************)
(* One monitored server and its LlamaMonitor (llama/monitor.rs), with the  *)
(* stabilisation of its samples (app/server.rs) that follows each poll.    *)
(*                                                                         *)
(* A poll asks /props (when it is due), /metrics and /slots at the same    *)
(* time: the three answers are taken from the server at three moments, and *)
(* Finish works on them in the order of `sample`.  An                      *)
(* Instant is its age in ticks; an age stops growing where the code no     *)
(* longer tells it from a higher one.                                      *)
(*                                                                         *)
(* The server is outside the program: it generates tokens, takes new       *)
(* tasks, restarts (its counters begin at 0, another implementation may    *)
(* answer) and becomes unreachable.  `scenario` selects which endpoints    *)
(* answer and how richly, so that no run pays for the product of them all. *)
(***************************************************************************)
EXTENDS LlamaReplies

CONSTANTS
  SlotIds,               \* the slots of the server
  Models,                \* model names
  Graces,                \* the values of the offline grace
  PROPS_REFRESH, SPEC_REFRESH, SPEC_ACCEPTANCE_HOLD,
  REQUEST_TIMEOUT,       \* ticks a poll can take
  MaxDone, MaxTask, MaxRuns,  \* bounds on the server
  MaxPolls,              \* scenario -> bound on the polls, None for no bound
  Loopback,              \* whether the endpoint is on this machine
  PropsReplies,          \* the /props objects of scenario "props"
  SlotArrays,            \* the /slots arrays of scenario "context"
  ProcessTables          \* what a scan of /proc may find

ASSUME TimesAssumption ==
  /\ {PROPS_REFRESH, SPEC_REFRESH, SPEC_ACCEPTANCE_HOLD, REQUEST_TIMEOUT} \subseteq Nat
  /\ PROPS_REFRESH > 0
  /\ Graces \subseteq Nat /\ \E longest \in Graces : \A grace \in Graces : longest >= grace

ASSUME NoneAssumption == None \notin Nat
ASSUME AbsentAssumption == None \notin BOOLEAN
ASSUME LabelsAssumption == None \notin {"idle", "failed", "metrics disabled", "strata", "slots"}

ASSUME ServersAssumption ==
  /\ None \notin Models
  /\ IsFiniteSet(SlotIds)
  /\ \A props \in PropsReplies :
       /\ {"model", "root", "nested"} \subseteq DOMAIN props
       /\ props.root.speculative \in BOOLEAN \union {None, Null}
       /\ props.nested.speculative \in BOOLEAN \union {None, Null}

ASSUME ArraysAssumption ==
  \A slots \in SlotArrays :
    /\ Len(slots) \in Nat /\ DOMAIN slots = 1 .. Len(slots)
    /\ \A i \in DOMAIN slots : slots[i] # None /\ slots[i].used \in Nat \union {None}

\* The arrays of scenario "context" are any arrays: one is answered, and none is
\* compared with another, as those of one server would be.
ASSUME PollsAssumption == MaxPolls["context"] = 1

MaxGrace == Max(Graces)

VARIABLES
  scenario,
  server,     \* the process behind the endpoint
  done,       \* auxiliary: tokens generated, over all runs of the server
  steady,     \* auxiliary: ticks since the server last changed (scenario "props")
  silent,     \* auxiliary: ticks since the server last answered with data
  monitor,    \* LlamaMonitor
  last_good,  \* the last connected sample and its age
  poll,       \* the poll that is under way
  polls,      \* polls begun, where MaxPolls bounds them
  shown,      \* the sample published last
  said        \* auxiliary: the last /props object that mentioned speculation

vars == <<scenario, server, done, steady, silent, monitor, last_good, poll, polls, shown, said>>
serverVars == <<server, done, steady>>

Scenarios == {"counters", "slots", "context", "props"}
Endpoints == {"props", "metrics", "slots"}

-----------------------------------------------------------------------------
(* The server.                                                             *)

FreshSlots == [id \in SlotIds |-> [task |-> 0, decoded |-> 0, busy |-> FALSE]]

FreshServer(run, format, model) ==
  [up |-> TRUE, run |-> run, format |-> format, model |-> model,
   generated |-> 0, drafts |-> 0, accepted |-> 0, slots |-> FreshSlots,
   reports_tasks |-> run = 1]

Formats == IF scenario = "counters" THEN {"prometheus", "strata"} ELSE {"prometheus"}

\* Where the polls are bounded, one endpoint carries the scenario and its answer
\* is one moment: a step of the server inside a poll has the effect it has just
\* before or just after it, and what follows the last poll is not seen.
Watched == IF MaxPolls[scenario] = None THEN TRUE
           ELSE poll.stage = "none" /\ polls < MaxPolls[scenario]

\* Tokens are generated; the counters move, with drafts, or one of the slots.
Generate ==
  /\ scenario = "counters" /\ Watched
  /\ done < MaxDone
  /\ \E accepted \in {0, 1} :
       server' = [server EXCEPT !.generated = @ + 1, !.drafts = @ + 1,
                                !.accepted = @ + accepted]
  /\ done' = done + 1
  /\ UNCHANGED <<scenario, steady, silent, monitor, last_good, poll, polls, shown, said>>

Decode(id) ==
  /\ scenario = "slots" /\ Watched
  /\ done < MaxDone
  /\ server.slots[id].busy
  /\ server' = [server EXCEPT !.generated = @ + 1, !.slots[id].decoded = @ + 1]
  /\ done' = done + 1
  /\ UNCHANGED <<scenario, steady, silent, monitor, last_good, poll, polls, shown, said>>

TasksTaken == FoldFunction(LAMBDA slot, sum : sum + slot.task, 0, server.slots)

NewTask(id) ==
  /\ scenario = "slots" /\ Watched
  /\ TasksTaken < MaxTask
  /\ server' = [server EXCEPT
       !.slots[id] = [task |-> server.slots[id].task + 1, decoded |-> 0, busy |-> TRUE]]
  /\ UNCHANGED <<scenario, done, steady, silent, monitor, last_good, poll, polls, shown, said>>

EndTask(id) ==
  /\ scenario = "slots" /\ Watched
  /\ server.slots[id].busy
  /\ server' = [server EXCEPT !.slots[id].busy = FALSE]
  /\ UNCHANGED <<scenario, done, steady, silent, monitor, last_good, poll, polls, shown, said>>

\* The models the server may load: only /props tells them apart.
ModelChoices == IF scenario = "props" THEN Models ELSE {None}

Restart ==
  /\ Watched
  /\ server.run < MaxRuns
  /\ \E format \in Formats, model \in ModelChoices :
       server' = FreshServer(server.run + 1, format, model)
  /\ steady' = 0
  /\ UNCHANGED <<scenario, done, silent, monitor, last_good, poll, polls, shown, said>>

\* Elsewhere a request may fail at any time.
ChangeReachability ==
  /\ scenario = "props"
  /\ server' = [server EXCEPT !.up = ~@]
  /\ steady' = 0
  /\ UNCHANGED <<scenario, done, silent, monitor, last_good, poll, polls, shown, said>>

(***************************************************************************)
(* Its answers.  `truth` is auxiliary: what the server had really done.    *)
(***************************************************************************)
Truth == [run |-> server.run, done |-> done, drafts |-> server.drafts,
          accepted |-> server.accepted]

NoMetrics == [generated |-> None, drafts |-> None, accepted |-> None, deferred |-> None,
              active |-> None]

\* A Prometheus text: with all counters, without the accepted ones, or with no
\* sample that the parser takes.
PrometheusBodies ==
  LET samples == [NoMetrics EXCEPT !.generated = server.generated,
                                   !.drafts = IF scenario = "counters" THEN server.drafts ELSE None,
                                   !.accepted = IF scenario = "counters" THEN server.accepted ELSE None]
  IN  {samples} \union (IF scenario = "counters"
                        THEN {[samples EXCEPT !.accepted = None], NoMetrics} ELSE {})

\* A Strata object: its counters directly in `totals` or one level further
\* down; or a cache that counts accepted drafts of its own, when `totals` does not.
StrataBodies ==
  LET at(path, value) == [path |-> path, value |-> value]
      body(since, counters) ==
        [groups |-> {"totals", "live", "engine", "conversationcache"},
         state |-> IF server.generated > 0 THEN "generating" ELSE "idle",
         leaves |-> since \union counters \union
                    {at(<<"totals", "outputtokens">>, server.generated),
                     at(<<"live", "toks">>, 1), at(<<"engine", "maxcontext">>, 2),
                     at(<<"conversationcache", "draftsaccepted">>, 0)}]
      dated == {at(<<"totals", "since">>, server.run)}
      offered == at(<<"totals", "draftsoffered">>, server.drafts)
      accepted == at(<<"totals", "drafts", "accepted">>, server.accepted)
  IN  {body(dated, {offered, accepted}), body({}, {offered, accepted}), body(dated, {offered})}

\* The slots in any order; the tasks are not reported by older versions (one that
\* is restarted as an older one, in this model), nor is the counter of an idle slot.
ServerSlots ==
  LET slot(id) ==
        [id |-> id, busy |-> server.slots[id].busy, n_ctx |-> 2, used |-> None,
         task |-> IF server.reports_tasks THEN server.slots[id].task ELSE None,
         decoded |-> IF server.slots[id].busy THEN server.slots[id].decoded ELSE None,
         spec |-> [speculative |-> None, n_max |-> None, types |-> None]]
  IN  {[i \in DOMAIN order |-> slot(order[i])] : order \in SetToSeqs(SlotIds)}

Failure(why) == [outcome |-> why]

\* /metrics: unreachable, an error status (501: the metrics are off), a body that
\* cannot be read, JSON that is not Strata's, or a body.
MetricsAnswers ==
  LET bodies == IF scenario \in {"context", "props"} THEN {}
                ELSE IF server.format = "prometheus" THEN PrometheusBodies
                ELSE StrataBodies \union {[groups |-> {"totals"}, state |-> None, leaves |-> {}]}
      failures == CASE scenario = "counters" -> {"unreachable", "http 501"}
                    [] scenario = "slots" -> {}
                    [] OTHER -> {"unreachable"}
  IN  {Failure(why) : why \in failures}
      \union {[outcome |-> "ok", json |-> server.format = "strata", body |-> body, truth |-> Truth] :
                body \in bodies}

SlotsAnswers ==
  LET arrays == CASE scenario = "slots" -> ServerSlots
                  [] scenario = "context" -> SlotArrays
                  [] scenario = "props" /\ server.up -> {<<>>}
                  [] OTHER -> {}
  IN  {[outcome |-> "ok", slots |-> slots, truth |-> Truth] : slots \in arrays}
      \union (IF scenario = "props" /\ server.up THEN {} ELSE {Failure("unreachable")})

\* A reachable server answers /props, with its own model.
PropsAnswers ==
  IF scenario = "props" /\ server.up
  THEN {[outcome |-> "ok", props |-> [props EXCEPT !.model = server.model]] : props \in PropsReplies}
  ELSE {Failure("unreachable")}

-----------------------------------------------------------------------------
(* The monitor.                                                            *)

NoPoll == [stage |-> "none"]

NewMonitor ==
  [previous_metrics |-> None, previous_slots |-> None, props |-> CachedProps,
   props_age |-> None, props_dirty |-> TRUE,
   acceptance |-> None, acceptance_age |-> None,
   local_spec |-> None, local_spec_age |-> None,
   last_metrics_format |-> None, last_strata_since |-> None,
   \* auxiliary: the endpoint has failed since its baseline was taken
   metrics_gap |-> FALSE, slots_gap |-> FALSE]

NoStats ==
  [connected |-> FALSE, metrics_available |-> FALSE, reconnecting |-> FALSE,
   model |-> None, context_size |-> 0, context_used |-> None, context_slot_id |-> None,
   slots_available |-> FALSE, busy_slots |-> 0, request_generated_tokens |-> None,
   generated_total |-> None, rate |-> None, active_requests |-> None,
   deferred_requests |-> None, strata_phase |-> None, backend |-> "unknown",
   spec_draft_tokens |-> None, spec_accepted_tokens |-> None, spec_enabled |-> FALSE,
   spec_is_mtp |-> FALSE, spec_n_max |-> None, spec_acceptance |-> None, error |-> None]

parse_metrics_body(answer) ==
  IF ~answer.json
  THEN [samples |-> answer.body, format |-> "prometheus", since |-> None, live |-> None,
        capacity |-> None]
  ELSE IF is_strata_metrics(answer.body)
  THEN LET found == extract_samples(answer.body)
       IN  [samples |-> [NoMetrics EXCEPT !.generated = found.generated,
                                          !.drafts = found.draft_tokens,
                                          !.accepted = found.accepted_tokens,
                                          !.deferred = found.deferred],
            format |-> "strata", since |-> totals_since(answer.body),
            live |-> live_rates(answer.body), capacity |-> engine_capacity(answer.body)]
  ELSE [samples |-> NoMetrics, format |-> None, since |-> None, live |-> None,
        capacity |-> None]

Unparsed == [samples |-> NoMetrics, format |-> None, since |-> None, live |-> None,
             capacity |-> None]

\* Mutant: only a failure asks for another fetch.
props_needs_refresh_once == monitor.props_dirty \/ monitor.props_age = None

\* A failed fetch is retried at once, the cache is renewed every PROPS_REFRESH.
props_needs_refresh ==
  monitor.props_dirty \/ monitor.props_age = None \/ monitor.props_age >= PROPS_REFRESH

apply_props_result(m, answer) ==
  IF answer.outcome # "ok" THEN [m EXCEPT !.props_dirty = TRUE]
  ELSE [m EXCEPT !.props_dirty = FALSE, !.props_age = 0,
                 !.props = apply_props(@, answer.props)]

\* local_spec_config: what a scan of /proc finds now, if one is due.
local_spec_config(m, processes) ==
  IF m.local_spec_age = None \/ m.local_spec_age >= SPEC_REFRESH
  THEN [m EXCEPT !.local_spec_age = 0,
                 !.local_spec = local_speculative_process_config(Loopback, "8080", processes)]
  ELSE m

counter_delta_opt(current, previous) ==
  IF current # None /\ previous # None /\ current >= previous THEN current - previous ELSE None

\* A rate as the delta over the ticks; the rest is auxiliary.
rate_of(from, delta, seconds, previous, truth, gap) ==
  IF delta = None \/ seconds = 0 THEN None
  ELSE [from |-> from, delta |-> delta, seconds |-> seconds,
        work |-> truth.done - previous.truth.done,
        same_run |-> truth.run = previous.truth.run, gap |-> gap]

\* Mutant: a baseline of the other implementation, or of an earlier run of
\* Strata, is kept.
comparable_baseline_always(m, parsed) == m.previous_metrics

\* A change of format or of totals.since makes the baseline useless.
comparable_baseline(m, parsed) ==
  LET format_changed == m.last_metrics_format # None /\ m.last_metrics_format # parsed.format
      since_changed == /\ parsed.format = "strata"
                       /\ parsed.since # None
                       /\ m.last_strata_since # None
                       /\ parsed.since # m.last_strata_since
  IN  IF format_changed \/ since_changed THEN None ELSE m.previous_metrics

\* update_metric_counters: the rate, and the share of accepted drafts, either
\* measured now or held for a while.  Auxiliary fields of the share: whether the
\* counters it comes from belong to one run, whether they are the server's, and
\* whether Strata dated both.
update_metric_counters(m, stats, truth) ==
  LET previous == m.previous_metrics
      drafts == counter_delta_opt(stats.spec_draft_tokens, previous.drafts)
      accepted == counter_delta_opt(stats.spec_accepted_tokens, previous.accepted)
      measured == [accepted |-> accepted, drafts |-> drafts,
                   same_run |-> truth.run = previous.truth.run,
                   real |-> /\ drafts = truth.drafts - previous.truth.drafts
                            /\ accepted = truth.accepted - previous.truth.accepted,
                   dated |-> /\ m.last_metrics_format = "strata"
                             /\ previous.since_known /\ m.last_strata_since # None]
      baseline == [age |-> 0, generated |-> stats.generated_total,
                   drafts |-> stats.spec_draft_tokens, accepted |-> stats.spec_accepted_tokens,
                   truth |-> truth, since_known |-> m.last_strata_since # None]
      renewed == [m EXCEPT !.previous_metrics = baseline, !.metrics_gap = FALSE]
  IN  IF previous = None THEN [monitor |-> renewed, rate |-> None, acceptance |-> None]
      ELSE LET rate == rate_of("metrics", counter_delta_opt(stats.generated_total, previous.generated),
                               previous.age, previous, truth, m.metrics_gap)
           IN  IF positive(drafts) /\ accepted # None
               THEN [monitor |-> [renewed EXCEPT !.acceptance = measured, !.acceptance_age = 0],
                     rate |-> rate, acceptance |-> measured]
               ELSE [monitor |-> renewed, rate |-> rate,
                     acceptance |-> IF m.acceptance_age # None
                                       /\ m.acceptance_age <= SPEC_ACCEPTANCE_HOLD
                                    THEN m.acceptance ELSE None]

\* update_live_slot_throughput.
update_live_slot_throughput(m, slots, truth) ==
  LET previous == m.previous_slots
      rate == IF previous = None THEN None
              ELSE rate_of("slots", slot_delta(previous.slots, slots, previous.age),
                           previous.age, previous, truth, m.slots_gap)
  IN  [monitor |-> [m EXCEPT !.previous_slots = [age |-> 0, slots |-> slots, truth |-> truth],
                             !.slots_gap = FALSE],
       rate |-> rate]

choose_live_throughput(slot_live, metric_live) == or_else(slot_live, metric_live)

\* Mutant: a failure leaves the counter baseline in place.
without_baseline_kept(m) == [m EXCEPT !.metrics_gap = TRUE]

\* No metrics: a rate over the whole outage must not follow.
without_baseline(m) == [m EXCEPT !.previous_metrics = None, !.metrics_gap = TRUE]

-----------------------------------------------------------------------------
(***************************************************************************)
(* `sample`, once the answers are there, as a chain of its parts: each     *)
(* takes and returns the state of the monitor, the statistics so far, and  *)
(* what /metrics was parsed to.                                            *)
(***************************************************************************)
\* /props and the local process.
props_stats(m) ==
  [NoStats EXCEPT !.model = m.props.model, !.context_size = m.props.context_size,
                  !.spec_enabled = m.props.spec_enabled, !.spec_is_mtp = m.props.spec_is_mtp,
                  !.spec_n_max = m.props.spec_n_max]

with_props(m, parsed) ==
  [monitor |-> m, parsed |-> parsed, rate |-> None,
   stats |-> IF m.local_spec = None THEN props_stats(m)
             ELSE apply_local_spec_fallback(m.props, props_stats(m), m.local_spec)]

\* The wording is left out; a server that says that metrics are off is known by it.
metrics_error(answer, parsed) ==
  IF answer.outcome = "http 501" THEN "metrics disabled"
  ELSE IF \/ answer.outcome # "ok"
          \/ parsed.format = None
          \/ parsed.format = "prometheus" /\ parsed.samples = NoMetrics
  THEN "failed"
  ELSE None

\* The metric fields, and drafts as evidence of speculation.
metrics_stats(stats, parsed, error) ==
  [stats EXCEPT
     !.error = error,
     !.metrics_available = error = None,
     !.backend = IF parsed.format = "strata" THEN "strata"
                 ELSE IF parsed.samples # NoMetrics THEN "llama.cpp" ELSE "unknown",
     !.context_size = IF @ = 0 THEN or_else(parsed.capacity, 0) ELSE @,
     !.generated_total = parsed.samples.generated,
     !.active_requests = parsed.samples.active,
     !.deferred_requests = parsed.samples.deferred,
     !.spec_draft_tokens = parsed.samples.drafts,
     !.spec_accepted_tokens = parsed.samples.accepted,
     !.spec_enabled = @ \/ positive(parsed.samples.drafts) \/ positive(parsed.samples.accepted)]

with_metrics(s, error) == [s EXCEPT !.stats = metrics_stats(@, s.parsed, error)]

with_slots(s, answer) ==
  IF answer.outcome = "ok" THEN [s EXCEPT !.stats = apply_slots_json(@, answer.slots)] ELSE s

\* connected, and the format and age of the counters.
with_format(m, parsed) ==
  [m EXCEPT !.previous_metrics = comparable_baseline(m, parsed),
            !.last_metrics_format = parsed.format,
            !.last_strata_since = IF parsed.format = "strata" THEN parsed.since ELSE @]

with_connection(s) ==
  [s EXCEPT !.stats.connected = s.stats.metrics_available \/ s.stats.slots_available,
            !.monitor = with_format(@, s.parsed)]

counted(s, update) ==
  [s EXCEPT !.monitor = update.monitor, !.rate = update.rate,
            !.stats.spec_acceptance = update.acceptance]

with_counters(s, answer) ==
  IF s.stats.metrics_available
  THEN counted(s, update_metric_counters(s.monitor, s.stats, answer.truth))
  ELSE [s EXCEPT !.monitor = without_baseline(@)]

slot_counted(s, update) ==
  [s EXCEPT !.monitor = update.monitor,
            !.stats.rate = choose_live_throughput(update.rate, s.rate)]

without_slots(m) == [m EXCEPT !.previous_slots = None, !.slots_gap = TRUE]

with_slot_counters(s, answer) ==
  IF answer.outcome = "ok"
  THEN slot_counted(s, update_live_slot_throughput(s.monitor, answer.slots, answer.truth))
  ELSE [s EXCEPT !.monitor = without_slots(@), !.stats.rate = s.rate]

\* Strata's totals move when a request ends: the live rate is the one it
\* reports, or none.
strata_stats(stats, live) ==
  [stats EXCEPT
     !.rate = IF live.decode_tps = None THEN None
              ELSE [from |-> "strata", delta |-> live.decode_tps],
     !.strata_phase = live.phase,
     !.request_generated_tokens = or_else(@, live.request_generated)]

with_strata(s) ==
  IF s.parsed.format # "strata" THEN s
  ELSE [s EXCEPT !.stats = strata_stats(@, s.parsed.live)]

parsed_answer(answer) == IF answer.outcome = "ok" THEN parse_metrics_body(answer) ELSE Unparsed

asked_props(answers) ==
  IF "props" \in DOMAIN answers THEN apply_props_result(monitor, answers.props) ELSE monitor

described(s, answers) ==
  with_connection(with_slots(with_metrics(s, metrics_error(answers.metrics, s.parsed)),
                             answers.slots))

sample(answers, processes) ==
  with_strata(with_slot_counters(
    with_counters(
      described(with_props(local_spec_config(asked_props(answers), processes),
                           parsed_answer(answers.metrics)),
                answers),
      answers.metrics),
    answers.slots))

hard_failure(stats) == stats.error = "metrics disabled"

\* Mutant: the grace is measured from the sample that is held.
stabilize_llm_sample_forever(stats, good, grace) ==
  IF stats.connected THEN [stats |-> stats, last_good |-> [stats |-> stats, age |-> 0]]
  ELSE IF ~hard_failure(stats) /\ good # None /\ good.age <= grace
  THEN LET held == [good.stats EXCEPT !.error = None, !.reconnecting = TRUE]
       IN  [stats |-> held, last_good |-> [good EXCEPT !.age = 0]]
  ELSE [stats |-> stats, last_good |-> good]

\* A server that stops answering is shown as it was, marked, for the grace.
stabilize_llm_sample(stats, good, grace) ==
  IF stats.connected THEN [stats |-> stats, last_good |-> [stats |-> stats, age |-> 0]]
  ELSE IF ~hard_failure(stats) /\ good # None /\ good.age <= grace
  THEN [stats |-> [good.stats EXCEPT !.error = None, !.reconnecting = TRUE], last_good |-> good]
  ELSE [stats |-> stats, last_good |-> good]

-----------------------------------------------------------------------------
(* One poll.                                                               *)

Begin ==
  /\ poll.stage = "none"
  /\ MaxPolls[scenario] # None => polls < MaxPolls[scenario]
  /\ polls' = IF MaxPolls[scenario] # None THEN polls + 1 ELSE polls
  /\ \E grace \in (IF scenario = "counters" THEN Graces ELSE {MaxGrace}) :
       poll' = [stage |-> "asking", grace |-> grace, age |-> 0, steady |-> steady,
                asked |-> {"metrics", "slots"} \union
                          (IF props_needs_refresh THEN {"props"} ELSE {}),
                answers |-> <<>>]
  /\ UNCHANGED <<scenario, serverVars, silent, monitor, last_good, shown, said>>

Answers(endpoint) ==
  CASE endpoint = "props" -> PropsAnswers
    [] endpoint = "metrics" -> MetricsAnswers
    [] OTHER -> SlotsAnswers

\* The first of the endpoints in the order in which `sample` joins its threads.
NextJoined(pending) ==
  IF "props" \in pending THEN "props" ELSE IF "metrics" \in pending THEN "metrics" ELSE "slots"

\* One of the three requests ends: answered by the server as it is now, or not.
\* They end in the order they are joined in: each answer is only ever compared
\* with earlier ones of its own endpoint.
Answer(endpoint) ==
  /\ poll.stage = "asking"
  /\ DOMAIN poll.answers # poll.asked
  /\ endpoint = NextJoined(poll.asked \ DOMAIN poll.answers)
  /\ \E answer \in Answers(endpoint) :
       /\ poll' = [poll EXCEPT !.answers = [e \in DOMAIN @ \union {endpoint} |->
                                              IF e = endpoint THEN answer ELSE @[e]]]
       /\ silent' = IF answer.outcome = "ok" THEN 0 ELSE silent
  /\ UNCHANGED <<scenario, serverVars, monitor, last_good, polls, shown, said>>

Mentions(props) == speculative_config(props.root).present \/ speculative_config(props.nested).present

\* All requests are over: the sample is built, stabilised and published.
publish(sampled) ==
  LET stable == stabilize_llm_sample(sampled.stats, last_good, poll.grace)
  IN  /\ monitor' = sampled.monitor
      /\ last_good' = stable.last_good
      /\ shown' = stable.stats

Finish ==
  /\ poll.stage = "asking"
  /\ DOMAIN poll.answers = poll.asked
  /\ \E processes \in ProcessTables : publish(sample(poll.answers, processes))
  /\ said' = IF /\ "props" \in poll.asked
                /\ poll.answers.props.outcome = "ok"
                /\ Mentions(poll.answers.props.props)
             THEN poll.answers.props.props ELSE said
  /\ poll' = NoPoll
  /\ UNCHANGED <<scenario, serverVars, silent, polls>>

older(age, limit) == IF age = None THEN None ELSE IF age < limit THEN age + 1 ELSE age

\* Time passes; a share that is too old to be held again is forgotten.
Tick ==
  /\ poll.stage = "asking" => scenario = "counters" /\ poll.age < REQUEST_TIMEOUT
  /\ poll' = IF poll.stage = "asking" THEN [poll EXCEPT !.age = @ + 1] ELSE poll
  /\ steady' = IF scenario = "props" THEN older(steady, PROPS_REFRESH) ELSE steady
  /\ silent' = older(silent, MaxGrace + REQUEST_TIMEOUT + 1)
  /\ monitor' = [monitor EXCEPT
       !.props_age = older(@, PROPS_REFRESH),
       !.local_spec_age = older(@, SPEC_REFRESH),
       !.acceptance_age = older(@, SPEC_ACCEPTANCE_HOLD + 1),
       !.acceptance = IF monitor.acceptance_age = SPEC_ACCEPTANCE_HOLD THEN None ELSE @,
       !.previous_metrics = IF @ = None THEN @ ELSE [@ EXCEPT !.age = 1],
       !.previous_slots = IF @ = None THEN @ ELSE [@ EXCEPT !.age = 1]]
  /\ last_good' = IF last_good = None THEN None
                  ELSE [last_good EXCEPT !.age = older(@, MaxGrace + 1)]
  /\ UNCHANGED <<scenario, server, done, polls, shown, said>>

Init ==
  /\ scenario \in Scenarios
  /\ \E format \in Formats, model \in ModelChoices : server = FreshServer(1, format, model)
  /\ done = 0
  /\ steady = 0
  /\ silent = MaxGrace + REQUEST_TIMEOUT + 1
  /\ monitor = NewMonitor
  /\ last_good = None
  /\ poll = NoPoll
  /\ polls = 0
  /\ shown = NoStats
  /\ said = None

Next ==
  \/ Generate
  \/ \E id \in SlotIds : Decode(id) \/ NewTask(id) \/ EndTask(id)
  \/ Restart
  \/ ChangeReachability
  \/ Begin
  \/ \E endpoint \in Endpoints : Answer(endpoint)
  \/ Finish
  \/ Tick

MonitorSpec == Init /\ [][Next]_vars

-----------------------------------------------------------------------------
(* Properties.                                                             *)

\* The live rate of a sample is real: it never exceeds what the server
\* generated between the two answers it was derived from, it is exactly that
\* unless the server restarted in between (older servers hide a change of task),
\* and no failed answer of the endpoint lies between the two.
RateIsReal ==
  shown.rate # None /\ shown.rate.from # "strata" =>
    /\ shown.rate.seconds > 0
    /\ ~shown.rate.gap
    /\ shown.rate.delta <= shown.rate.work
    /\ shown.rate.same_run /\ shown.rate.from = "metrics" => shown.rate.delta = shown.rate.work

\* As long as the server reports its tasks, the rate from the slots is exact
\* too: a slot that ended one task and began another between two polls must not
\* be counted with the rest of the new task only.
SlotRateIsExact ==
  LET tasks_known == \A i \in DOMAIN monitor.previous_slots.slots :
                       monitor.previous_slots.slots[i].task # None
  IN  /\ shown.rate # None /\ ~shown.reconnecting
      /\ shown.rate.from = "slots"
      /\ shown.rate.same_run
      /\ monitor.previous_slots # None
      /\ tasks_known
      => shown.rate.delta = shown.rate.work

\* The share of accepted drafts: the deltas are those of the server's own
\* counters (no look-alike of another group), over one run of the server as far
\* as Strata says when its counters began.
AcceptanceIsMeasured ==
  shown.spec_acceptance # None =>
    /\ shown.spec_acceptance.drafts > 0
    /\ shown.spec_acceptance.same_run => shown.spec_acceptance.real
    /\ shown.spec_acceptance.dated => shown.spec_acceptance.same_run

\* A server that does not answer is shown as reconnecting, with its last sample,
\* only if it answered within the grace (and the time one poll takes); after
\* that, or when it says that metrics are off, it is shown as it is.
HeldSampleExpires ==
  [][Finish /\ (shown'.connected \/ shown'.reconnecting) =>
       /\ silent <= poll.grace + REQUEST_TIMEOUT
       /\ shown'.reconnecting => /\ shown'.connected
                                 /\ poll.answers.slots.outcome # "ok"
                                 /\ poll.answers.metrics.outcome # "http 501"]_vars

\* The context row belongs to one slot of the array, and to the right one: with
\* the largest use among the busy slots that report it, else among all that
\* report it; the capacity of a slot that reports none is never paired with the
\* use of another.
ContextOfOneSlot ==
  shown.slots_available /\ ~shown.reconnecting =>
    LET slots == monitor.previous_slots.slots
        reporting == {i \in DOMAIN slots : slots[i].used # None}
        busy == {i \in reporting : slots[i].busy}
        eligible == IF busy # {} THEN busy ELSE reporting
    IN  IF reporting = {} THEN shown.context_used = None
        ELSE \E i \in eligible :
               /\ shown.context_used = slots[i].used
               /\ shown.context_slot_id = slots[i].id
               /\ slots[i].n_ctx > 0 => shown.context_size = slots[i].n_ctx
               /\ \A j \in eligible : slots[j].used <= slots[i].used

\* A phase that says idle rests on this poll: no slot of the array was working, no
\* tokens were counted, and a server whose endpoints all failed has no phase.
IdleIsEvident ==
  activity_phase(shown) = "idle" =>
    /\ shown.metrics_available \/ shown.slots_available
    /\ ~(shown.rate # None /\ shown.rate.delta > 0)
    /\ shown.slots_available =>
         \A i \in DOMAIN monitor.previous_slots.slots : ~monitor.previous_slots.slots[i].busy

\* What the server said last about speculation stands, field by field, whatever
\* the command line of the local process says and whatever it said before.
ServerDecides ==
  scenario = "props" /\ said # None /\ shown # NoStats /\ ~shown.reconnecting =>
    LET of(field(_)) == or_else(field(said.nested), field(said.root))
        speculative(value) == IF value.speculative = Null THEN None ELSE value.speculative
        n_max(value) == value.n_max
        types(value) == value.types
        disabled == of(speculative) = FALSE \/ of(n_max) = 0
        mtp == of(types) # None /\ "draft-mtp" \in of(types)
    IN  /\ of(speculative) # None => shown.spec_enabled = of(speculative)
        /\ of(n_max) # None => shown.spec_n_max = IF of(n_max) = 0 THEN None ELSE of(n_max)
        /\ disabled \/ (of(types) # None /\ of(types) # {}) => shown.spec_is_mtp = mtp

\* The model that is shown may be old by one refresh interval, never by more: a
\* poll that began when the server had been up, with one model, for as long as
\* PROPS_REFRESH publishes that model, however often /props failed before.
ModelIsCurrent ==
  [][Finish /\ poll.steady >= PROPS_REFRESH /\ steady >= PROPS_REFRESH /\ server.up =>
       shown'.model = server.model]_vars
=============================================================================

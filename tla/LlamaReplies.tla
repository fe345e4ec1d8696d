---------------------------- MODULE LlamaReplies -----------------------------
(***************************************************************************)
(* What the monitor makes of one reply: the /slots array (llama/slots.rs), *)
(* the speculative settings of /props and of the local process             *)
(* (llama/speculative.rs, apply_props_result), and the activity phase      *)
(* (llama.rs).  JSON is a record of the fields that are looked up, None    *)
(* where a field is absent.                                                *)
(*                                                                         *)
(* The code keeps prompt and generation apart and treats them alike; this  *)
(* model follows generation (`decoded`).                                   *)
(***************************************************************************)
EXTENDS Strata

CONSTANT Null  \* JSON's null

(***************************************************************************)
(* speculative_config: what a /props object, its nested settings or a slot *)
(* says about speculative decoding.  `speculative` is None, Null, TRUE or  *)
(* FALSE, `types` None or the set of the kinds other than "none".          *)
(***************************************************************************)
speculative_config(value) ==
  [present |-> value.speculative # None \/ value.n_max # None \/ value.types # None,
   enabled |-> IF value.speculative = Null THEN None ELSE value.speculative,
   is_mtp |-> value.types # None /\ "draft-mtp" \in value.types,
   n_max |-> value.n_max,
   types_known |-> value.types # None,
   named_type |-> value.types # None /\ value.types # {}]

\* The sum of the known ones, None when any is unknown or there is none.
complete_sum(values) ==
  IF values = <<>> \/ Contains(values, None) THEN None
  ELSE FoldLeft(LAMBDA sum, value : sum + value, 0, values)

(***************************************************************************)
(* apply_slots_json: one pass over the array keeps the most used slot and, *)
(* for the case that none reports its use, the largest; busy slots win.    *)
(* A later slot replaces an earlier one only if it is strictly larger.     *)
(***************************************************************************)
\* Mutant: the largest use and the largest capacity, from whichever slots.
better_of_any(best, slot, known, size) ==
  IF ~known THEN best
  ELSE IF best = None THEN slot
  ELSE [slot EXCEPT !.used = IF best.used = None \/ (slot.used # None /\ slot.used > best.used)
                             THEN slot.used ELSE best.used,
                    !.n_ctx = IF slot.n_ctx > best.n_ctx THEN slot.n_ctx ELSE best.n_ctx]

better_of(best, slot, known, size) ==
  IF known /\ (best = None \/ slot[size] > best[size]) THEN slot ELSE best

NoContext == [busy |-> None, any |-> None, fallback_busy |-> None, fallback_any |-> None]

visit(best, slot) ==
  [busy |-> better_of(best.busy, slot, slot.used # None /\ slot.busy, "used"),
   any |-> better_of(best.any, slot, slot.used # None, "used"),
   fallback_busy |-> better_of(best.fallback_busy, slot, slot.busy, "n_ctx"),
   fallback_any |-> better_of(best.fallback_any, slot, TRUE, "n_ctx")]

context_slot(slots) ==
  LET best == FoldLeft(visit, NoContext, slots)
  IN  or_else(best.busy, or_else(best.any, or_else(best.fallback_busy, best.fallback_any)))

apply_slots_json(stats, slots) ==
  LET chosen == context_slot(slots)
      working == SelectSeq(slots, LAMBDA slot : slot.busy)
      specs == {speculative_config(slots[i].spec) : i \in DOMAIN slots}
      drafting == {spec.n_max : spec \in specs} \ {None, 0}
  IN  [stats EXCEPT
         !.slots_available = TRUE,
         !.busy_slots = Cardinality({i \in DOMAIN slots : slots[i].busy}),
         !.request_generated_tokens =
            complete_sum([i \in DOMAIN working |-> working[i].decoded]),
         !.context_used = IF chosen = None THEN None ELSE chosen.used,
         !.context_slot_id = IF chosen = None THEN None ELSE chosen.id,
         !.context_size = IF chosen = None \/ chosen.n_ctx = 0 THEN @ ELSE chosen.n_ctx,
         !.spec_enabled = @ \/ drafting # {} \/ (\E spec \in specs : spec.enabled = TRUE),
         !.spec_is_mtp = @ \/ (\E spec \in specs : spec.is_mtp),
         !.spec_n_max = IF drafting = {} THEN @
                        ELSE Max(drafting \union ({@} \ {None}))]

\* Mutant: a slot may have gone on to another task.
task_ids_any(previous, current) == TRUE

\* Both known and equal, or both unknown.
task_ids_match(previous, current) == previous = current

with_id(slots, id) == {i \in DOMAIN slots : slots[i].id = id}

\* Every slot has an id that occurs once now and once before, no slot has
\* disappeared, and no slot has switched its task.
paired(previous, current) ==
  /\ \A i \in DOMAIN current :
       /\ current[i].id # None
       /\ Cardinality(with_id(current, current[i].id)) = 1
       /\ Cardinality(with_id(previous, current[i].id)) = 1
       /\ \A j \in with_id(previous, current[i].id) :
            task_ids_match(previous[j].task, current[i].task)
  /\ \A j \in DOMAIN previous :
       /\ previous[j].id # None
       /\ Cardinality(with_id(current, previous[j].id)) = 1

decoded_before(previous, slot) ==
  previous[CHOOSE j \in DOMAIN previous : previous[j].id = slot.id].decoded

\* One turn of the loop over the array: a counter that is missing on both sides
\* contributes nothing.
with_slot_delta(previous, sum, slot) ==
  IF slot.decoded = None THEN sum ELSE sum + (slot.decoded - decoded_before(previous, slot))

\* slot_delta_tps: the tokens decoded between two arrays, `seconds` apart. A
\* counter that is missing on one side, or went back, makes the sum unknown;
\* some slot must report one.
slot_delta(previous, current, seconds) ==
  LET known == \A i \in DOMAIN current :
                 LET was == decoded_before(previous, current[i])
                     is == current[i].decoded
                 IN  (was = None /\ is = None) \/ (was # None /\ is # None /\ is >= was)
      reported == \E i \in DOMAIN current : current[i].decoded # None
  IN  IF seconds > 0 /\ current # <<>> /\ paired(previous, current) /\ known /\ reported
      THEN FoldLeft(LAMBDA sum, slot : with_slot_delta(previous, sum, slot), 0, current)
      ELSE None

-----------------------------------------------------------------------------
\* The nested variant wins field by field; the type comes from the one that
\* carried a type.
merged_config(props) ==
  LET root == speculative_config(props.root)
      nested == speculative_config(props.nested)
      type_source == IF nested.types_known THEN nested ELSE root
  IN  [present |-> nested.present \/ root.present,
       enabled |-> or_else(nested.enabled, root.enabled),
       is_mtp |-> type_source.is_mtp,
       n_max |-> or_else(nested.n_max, root.n_max),
       types_known |-> nested.types_known \/ root.types_known,
       named_type |-> type_source.named_type]

CachedProps ==
  [model |-> None, context_size |-> 0, spec_enabled |-> FALSE,
   spec_enabled_known |-> FALSE, spec_is_mtp |-> FALSE, spec_named_type |-> FALSE,
   spec_n_max |-> None, spec_n_max_known |-> FALSE]

\* Mutant: an explicit disable does not clear what an earlier reply enabled.
with_speculation_accumulated(cache, spec) ==
  LET n_max == IF spec.n_max = 0 THEN None ELSE spec.n_max
  IN  [cache EXCEPT
         !.spec_enabled = @ \/ spec.enabled = TRUE \/ n_max # None \/ spec.is_mtp,
         !.spec_enabled_known = @ \/ spec.enabled # None,
         !.spec_is_mtp = @ \/ spec.is_mtp,
         !.spec_named_type = @ \/ spec.named_type,
         !.spec_n_max = or_else(n_max, @),
         !.spec_n_max_known = @ \/ spec.n_max # None]

\* A reply that mentions speculation replaces what was known of it.
with_speculation(cache, spec) ==
  LET n_max == IF spec.n_max = 0 THEN None ELSE spec.n_max
  IN  [cache EXCEPT
         !.spec_enabled = IF spec.enabled # None THEN spec.enabled
                          ELSE n_max # None \/ spec.is_mtp,
         !.spec_enabled_known = spec.enabled # None,
         !.spec_is_mtp = spec.is_mtp,
         !.spec_named_type = spec.named_type,
         !.spec_n_max = n_max,
         !.spec_n_max_known = spec.n_max # None]

\* apply_props_result, for a reply that arrived.
apply_props(cache, props) ==
  LET spec == merged_config(props)
      rest == [cache EXCEPT !.context_size = or_else(props.n_ctx, @),
                            !.model = or_else(props.model, @)]
  IN  IF spec.present THEN with_speculation(rest, spec) ELSE rest

(***************************************************************************)
(* local_speculative_process_config: the first llama-server in /proc that  *)
(* was started for the port of the endpoint.  A process is its --port      *)
(* values (Null one that is no number) and what the command line and the   *)
(* environment say: the kinds, and a limit that may not parse (Null).      *)
(***************************************************************************)
command_targets_port(process, port) ==
  port \in process.ports \/ (process.ports = {} /\ port = "8080")

speculative_from_process(process) ==
  LET parsed(value) == IF value = Null THEN None ELSE value
      n_max == or_else(parsed(process.cli.n_max), parsed(process.env.n_max))
      is_mtp == "draft-mtp" \in process.cli.types \union process.env.types
  IN  [enabled |-> is_mtp \/ n_max # None, is_mtp |-> is_mtp, n_max |-> n_max]

local_speculative_process_config(loopback, port, processes) ==
  LET mine(process) == process.is_server /\ command_targets_port(process, port)
      found == SelectSeq(processes, mine)
  IN  IF loopback /\ found # <<>> THEN speculative_from_process(Head(found)) ELSE None

\* apply_local_spec_fallback: the command line of the local process fills in
\* what the server left open.
apply_local_spec_fallback(cache, stats, local) ==
  LET disabled == \/ cache.spec_enabled_known /\ ~cache.spec_enabled
                  \/ cache.spec_n_max_known /\ cache.spec_n_max = None
  IN  [stats EXCEPT
         !.spec_enabled = @ \/ (~cache.spec_enabled_known /\ ~disabled /\ local.enabled),
         !.spec_is_mtp = @ \/ (~cache.spec_named_type /\ ~disabled /\ local.is_mtp),
         !.spec_n_max = IF ~cache.spec_n_max_known /\ ~disabled /\ @ = None
                        THEN local.n_max ELSE @]

-----------------------------------------------------------------------------
positive(value) == value # None /\ value > 0

\* The evidence that classify_phase looks at.  Its threshold of 0.05 tokens a second is
\* below one token between two polls (10 s and the time of a request apart at most).
generating(stats) ==
  stats.strata_phase = "generating" \/ (stats.rate # None /\ stats.rate.delta > 0)
reports_idle(stats) ==
  stats.strata_phase = "idle" \/ stats.slots_available \/ stats.active_requests = 0

\* Mutant: an answered /slots is taken for an idle server.
classify_phase_eager(stats) ==
  IF generating(stats) THEN "generating"
  ELSE IF stats.strata_phase = "reading" THEN "prefill"
  ELSE IF reports_idle(stats) THEN "idle"
  ELSE IF stats.busy_slots > 0 \/ positive(stats.active_requests) THEN "processing"
  ELSE IF positive(stats.deferred_requests) THEN "queued"
  ELSE "unknown"

classify_phase(stats) ==
  IF generating(stats) THEN "generating"
  ELSE IF stats.strata_phase = "reading" THEN "prefill"
  ELSE IF stats.busy_slots > 0 \/ positive(stats.active_requests) THEN "processing"
  ELSE IF positive(stats.deferred_requests) THEN "queued"
  ELSE IF reports_idle(stats) THEN "idle"
  ELSE "unknown"

\* activity_phase: a held sample says so, a server that is off has no phase.
activity_phase(stats) ==
  IF stats.reconnecting THEN "reconnecting"
  ELSE IF ~stats.connected THEN None
  ELSE classify_phase(stats)
==============================================================================

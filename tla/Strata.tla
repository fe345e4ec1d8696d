-------------------------------- MODULE Strata -------------------------------
(***************************************************************************)
(* The adapter for Strata's JSON /metrics (src/strata.rs).  A body is its  *)
(* top-level keys, its numeric leaves with the path to each (numbers inside*)
(* arrays are no leaves), and the text of live.state.  Keys are in the form*)
(* `normalize` gives them, and the aliases of a metric are cut down to two *)
(* spellings: what matters is their order.                                 *)
(***************************************************************************)
EXTENDS Integers, Sequences, FiniteSets, SequencesExt

CONSTANTS
  None,   \* Option::None
  joined  \* the concatenation of two key segments, where it is an alias

\* No alias begins with the name of a group, and the joined key of accepted drafts is
\* the alias.
ASSUME JoinedAssumption ==
  \A pair \in DOMAIN joined :
    /\ pair[1] \notin {"totals", "live", "engine", "conversationcache"}
    /\ pair = <<"drafts", "accepted">> => joined[pair] = "draftsaccepted"

MARKER_GROUPS ==
  {"engine", "live", "requestskept", "hardware", "hardwarestatic", "conversationcache"}

\* The metrics this model follows (prompt tokens and the accumulated times are
\* looked up in the same way); counters belong to `totals`.
CANONICAL ==
  [generated |-> [aliases |-> <<"outputtokens", "generatedtokens">>, group |-> "totals"],
   draft_tokens |-> [aliases |-> <<"draftsoffered", "drafttokenstotal">>, group |-> "totals"],
   accepted_tokens |-> [aliases |-> <<"draftsaccepted", "acceptedtokenstotal">>, group |-> "totals"],
   deferred |-> [aliases |-> <<"queued", "queuedepth">>, group |-> "live"]]

is_strata_metrics(body) ==
  /\ "totals" \in body.groups
  /\ body.groups \intersect MARKER_GROUPS # {}

\* A leaf's own key, or its last two segments together, spell the alias.
leaf_matches(leaf, wanted) ==
  LET n == Len(leaf.path)
  IN  \/ leaf.path[n] = wanted
      \/ /\ n >= 2
         /\ <<leaf.path[n - 1], leaf.path[n]>> \in DOMAIN joined
         /\ joined[<<leaf.path[n - 1], leaf.path[n]>>] = wanted

\* A leaf with the shortest path.
shallowest(leaves) ==
  CHOOSE leaf \in leaves : \A other \in leaves : Len(leaf.path) <= Len(other.path)

\* Mutant: a look-alike of another group stands in for a missing counter.
resolve_anywhere(leaves, aliases, group, group_present) ==
  LET matching(alias) == {leaf \in leaves : leaf_matches(leaf, alias)}
      spelled == {i \in DOMAIN aliases : matching(aliases[i]) # {}}
      found == matching(aliases[Min(spelled)])
  IN  IF spelled = {} THEN None ELSE shallowest(found).value

\* The first alias that spells any leaf decides: a leaf inside the group if
\* there is one, nothing if the group exists without it, else the shallowest.
resolve(leaves, aliases, group, group_present) ==
  LET matching(alias) == {leaf \in leaves : leaf_matches(leaf, alias)}
      spelled == {i \in DOMAIN aliases : matching(aliases[i]) # {}}
      found == matching(aliases[Min(spelled)])
      in_group == {leaf \in found : Contains(leaf.path, group)}
  IN  IF spelled = {} THEN None
      ELSE IF in_group # {} THEN shallowest(in_group).value
      ELSE IF group_present THEN None
      ELSE shallowest(found).value

\* extract_samples: every metric that resolves, None for the others.
extract_samples(body) ==
  [metric \in DOMAIN CANONICAL |->
     resolve(body.leaves, CANONICAL[metric].aliases, CANONICAL[metric].group,
             CANONICAL[metric].group \in body.groups)]

\* The number at a path of the body.
number_at(body, path) ==
  IF \E leaf \in body.leaves : leaf.path = path
  THEN (CHOOSE leaf \in body.leaves : leaf.path = path).value
  ELSE None

totals_since(body) == number_at(body, <<"totals", "since">>)

or_else(value, other) == IF value # None THEN value ELSE other

engine_capacity(body) ==
  LET capacity == or_else(number_at(body, <<"engine", "maxcontext">>),
                          number_at(body, <<"engine", "context">>))
  IN  IF capacity = 0 THEN None ELSE capacity

\* live_rates: the windowed decode rate only while generating, the progress of
\* a request only while there is one.
live_rates(body) ==
  LET active == body.state \in {"reading", "generating"}
      of_request(key) == IF active THEN number_at(body, <<"live", key>>) ELSE None
  IN  [phase |-> IF body.state \in {"idle", "reading", "generating"} THEN body.state
                 ELSE None,
       decode_tps |-> IF body.state = "generating"
                      THEN number_at(body, <<"live", "toks">>) ELSE None,
       request_prompt_tokens |-> of_request("prompttokens"),
       request_generated |-> of_request("generated")]
==============================================================================

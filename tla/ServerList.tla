----------------------------- MODULE ServerList ------------------------------
(***************************************************************************)
(* From the candidates of a scan and the configuration to the servers that *)
(* are monitored (main.rs, discovery_llm.rs), and what the settings dialog *)
(* says about them beforehand (server_editor.rs).                          *)
(*                                                                         *)
(* An endpoint is an atom, trimmed and not empty; a candidate has the pid  *)
(* and the start time of its process.  `Rank` is the order of discovery,   *)
(* by port and then by endpoint.                                           *)
(***************************************************************************)
EXTENDS Options, Sequences, Functions, SequencesExt

CONSTANTS
  Rank,           \* endpoint -> its place in the order of discovery
  Key,            \* domain::server_key, by endpoint
  DEFAULT_SERVER,
  MAX_MONITORED_SERVERS

ASSUME CapAssumption == MAX_MONITORED_SERVERS \in Nat \ {0}

\* The order is total: the port and the endpoint are the whole sort key.
ASSUME RankAssumption ==
  /\ \A e \in DOMAIN Rank : Rank[e] \in Int
  /\ \A e, f \in DOMAIN Rank : Rank[e] = Rank[f] => e = f

\* The first candidate of an endpoint.
FirstOf(list, endpoint) == list[Min({i \in DOMAIN list : list[i].endpoint = endpoint})]

\* What discover_processes returns: in the order of discovery, one candidate for
\* each endpoint, the one that was found first.
SortedAndDeduped(found) ==
  LET endpoints == Ordered({c.endpoint : c \in Range(found)}, LAMBDA e, f : Rank[e] < Rank[f])
  IN  [i \in DOMAIN endpoints |-> FirstOf(found, endpoints[i])]

\* Discovered servers first, then the configured one.
collect_candidates(found, configured) ==
  LET processes_found == SortedAndDeduped(found)
  IN  IF configured = None \/ \E c \in Range(processes_found) : c.endpoint = configured
      THEN processes_found
      ELSE Append(processes_found, [endpoint |-> configured, pid |-> None, start |-> None])

\* LocalServerIdentity of a candidate: None for a configured one, and when the
\* start time could not be read.
IdentityOf(c) ==
  IF c.pid = None \/ c.start = None THEN None ELSE [pid |-> c.pid, start_time |-> c.start]

\* The best discovered server, else the configured one, else the default.
select_endpoint(candidates) ==
  IF candidates = <<>> THEN DEFAULT_SERVER ELSE candidates[1].endpoint

selected_endpoint_server(candidates, endpoint) ==
  IF \E c \in Range(candidates) : c.endpoint = endpoint
  THEN IdentityOf(FirstOf(candidates, endpoint)) ELSE None

resolve_monitor_target(settings, found) ==
  LET candidates == collect_candidates(found, settings.server)
  IN  [endpoint |-> select_endpoint(candidates),
       identity |-> selected_endpoint_server(candidates, select_endpoint(candidates)),
       auto |-> settings.auto_discovery /\ \E c \in Range(candidates) : c.pid # None]

\* The first entry of a key keeps its endpoint and adopts an identity found later.
push_server(out, entry) ==
  LET key == Key[entry.endpoint]
  IN  IF \E spec \in Range(out) : spec.key = key
      THEN [i \in DOMAIN out |->
              IF out[i].key = key THEN [out[i] EXCEPT !.identity = Or(@, entry.identity)]
              ELSE out[i]]
      ELSE Append(out, [key |-> key, endpoint |-> entry.endpoint, identity |-> entry.identity])

\* The configured primary, the configured extras, then what was discovered.
Entries(settings, found) ==
  LET unidentified(endpoint) == [endpoint |-> endpoint, identity |-> None]
      candidates == collect_candidates(found, settings.server)
  IN  (IF settings.server = None THEN <<>> ELSE <<unidentified(settings.server)>>)
      \o [i \in DOMAIN settings.servers |-> unidentified(settings.servers[i])]
      \o (IF ~settings.auto_discovery THEN <<>>
          ELSE [i \in DOMAIN candidates |->
                  [endpoint |-> candidates[i].endpoint, identity |-> IdentityOf(candidates[i])]])

\* What exceeds the cap is kept apart.
SplitAtCap(out) ==
  [monitored |-> SubSeq(out, 1, Lower(MAX_MONITORED_SERVERS, Len(out))),
   overflow |-> SubSeq(out, MAX_MONITORED_SERVERS + 1, Len(out))]

collect_server_list(settings, found) ==
  LET out == FoldLeft(push_server, <<>>, Entries(settings, found))
  IN  SplitAtCap(IF out # <<>> THEN out
                 ELSE push_server(<<>>, [endpoint |-> DEFAULT_SERVER, identity |-> None]))

-----------------------------------------------------------------------------
(* The helpers of the dialog.                                              *)

SharesIdentity(entry, candidate) == Key[entry] = Key[candidate]

\* find_duplicate: whether an entry of the list has the candidate's identity.
find_duplicate(list, candidate) == \E entry \in Range(list) : SharesIdentity(entry, candidate)

\* Mutant: every entry takes a place, also a repeated one.
Distinct_all(list) == list

Keep(kept, endpoint) == IF find_duplicate(kept, endpoint) THEN kept ELSE Append(kept, endpoint)

\* The first endpoint of each key.
Distinct(list) == FoldLeft(Keep, <<>>, list)

\* For each additional entry, whether it will be monitored.
monitored_flags(primary, extras) ==
  LET unique == Distinct((IF primary = None THEN <<>> ELSE <<primary>>) \o extras)
      monitored == SubSeq(unique, 1, Lower(MAX_MONITORED_SERVERS, Len(unique)))
  IN  [i \in DOMAIN extras |-> \E endpoint \in Range(monitored) : Key[endpoint] = Key[extras[i]]]
==============================================================================

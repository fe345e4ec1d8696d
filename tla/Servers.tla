------------------------------- MODULE Servers -------------------------------
(***************************************************************************)
(* The data the application loop and its two workers exchange about the    *)
(* monitored servers: the process identity of a local server, the server   *)
(* specification built from configuration and discovery, and the questions *)
(* the code asks about lists of specifications (src/app/server.rs,         *)
(* src/domain.rs).                                                         *)
(***************************************************************************)
EXTENDS Integers, Sequences, Functions

CONSTANTS
  Keys,        \* stable keys of endpoints, as domain::server_key computes them
  Endpoints,   \* endpoints: several of them may share one key
  Pids,        \* process ids of local servers
  MaxStart,    \* bound: how many processes a pid is given to, one after another
  ServerLists, \* what collect_server_list may return, see ServerListsAssumption
  None         \* Option::None, the empty key and the default LlmStats

\* LocalServerIdentity: a pid and the start time of the process that holds it.
Identities == [pid : Pids, start_time : 1 .. MaxStart]

\* ServerSpec: stable key, endpoint to poll, identity of the local process.
Specs == [key : Keys, endpoint : Endpoints, identity : Identities \union {None}]

\* The keys of a list of specifications: the domain of `endpoints`, and
\* `order` read as a set.
KeysOf(list) == {list[i].key : i \in DOMAIN list}

\* `order`: the keys in display order.
OrderOf(list) == [i \in DOMAIN list |-> list[i].key]

\* No two entries share a key: push_server merges them.
UniqueKeys(list) ==
  \A i, j \in DOMAIN list : list[i].key = list[j].key => i = j

\* The identity of the process behind the selected key, None when the server
\* is remote or configured without a matching process.
selected_identity_of(list, selected) ==
  IF selected \in KeysOf(list)
  THEN (CHOOSE spec \in Range(list) : spec.key = selected).identity
  ELSE None

\* Mutant: a restart behind the same key goes unnoticed.
changed_identity_keys_ignored(old, new) == {}

\* Keys of both lists whose process identity differs: a restart at the same
\* endpoint. A key that appears or disappears is not a restart.
changed_identity_keys(old, new) ==
  {k \in KeysOf(old) \intersect KeysOf(new) :
     selected_identity_of(old, k) # selected_identity_of(new, k)}

(***************************************************************************)
(* collect_server_list de-duplicates by key, never returns an empty list   *)
(* (DEFAULT_SERVER is the fallback) and splits what exceeds the cap off    *)
(* into `overflow`.                                                        *)
(***************************************************************************)
ASSUME ServerListsAssumption ==
  /\ ServerLists \subseteq [monitored : Seq(Specs), overflow : Seq(Specs)]
  /\ \A next \in ServerLists :
       next.monitored # <<>> /\ UniqueKeys(next.monitored)

ASSUME MaxStartAssumption == MaxStart \in Nat \ {0}

ASSUME NoneAssumption == None \notin Keys \union Identities \union Pids
==============================================================================

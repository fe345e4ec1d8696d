----------------------------- MODULE LlmHistories ----------------------------
(***************************************************************************)
(* The per-server LLM telemetry kept by the UI (src/ui/state_llm.rs): one  *)
(* history per server key, and a working copy for the selected server.     *)
(* The state is the record                                                 *)
(*    [llm_histories, llm_history, llm_history_key]                        *)
(* and each method of UiState is an operator from that record to the next. *)
(* A history is abstracted to the set of process identities whose samples  *)
(* it holds; LlmHistory::default() is the empty set.                       *)
(***************************************************************************)
EXTENDS Servers

Sessions == Identities \union {None}

\* The LLM telemetry of UiState.
UiHistories ==
  [llm_histories : UNION {[S -> SUBSET Sessions] : S \in SUBSET Keys},
   llm_history : SUBSET Sessions,
   llm_history_key : Keys \union {None}]

HistoriesInit ==
  [llm_histories |-> [k \in {} |-> {}],
   llm_history |-> {},
   llm_history_key |-> None]

\* HashMap::get(key).cloned().unwrap_or_default()
history_of(ui, key) ==
  IF key \in DOMAIN ui.llm_histories THEN ui.llm_histories[key] ELSE {}

\* HashMap::insert
insert_history(histories, key, history) ==
  [k \in DOMAIN histories \union {key} |->
     IF k = key THEN history ELSE histories[k]]

\* The selected server's sample goes through the working copy, which replaces
\* the stored history; any other server's goes straight into its own.
record_llm_sample(ui, key, selected, session) ==
  IF key = selected
  THEN LET active == IF ui.llm_history_key # key THEN {} ELSE ui.llm_history
           observed == active \union {session}
       IN  [llm_histories |-> insert_history(ui.llm_histories, key, observed),
            llm_history |-> observed,
            llm_history_key |-> key]
  ELSE [ui EXCEPT !.llm_histories =
          insert_history(@, key, history_of(ui, key) \union {session})]

\* Make key's own history the active one.
select_llm_history(ui, key) ==
  IF ui.llm_history_key = key THEN ui
  ELSE [ui EXCEPT !.llm_history = history_of(ui, key),
                  !.llm_history_key = key]

\* Mutant: the working copy survives the restart.
reset_stored_only(ui, restarted) ==
  [ui EXCEPT !.llm_histories = Restrict(@, DOMAIN @ \ restarted)]

\* Drop the histories of restarted servers; the active key stays.
reset_llm_history(ui, restarted) ==
  [ui EXCEPT
     !.llm_histories = Restrict(@, DOMAIN @ \ restarted),
     !.llm_history = IF ui.llm_history_key \in restarted THEN {} ELSE @]

\* Drop the histories of servers that are gone.
retain_llm_histories(ui, live) ==
  LET gone == ui.llm_history_key # None /\ ui.llm_history_key \notin live
  IN  [llm_histories |-> Restrict(ui.llm_histories,
                                  DOMAIN ui.llm_histories \intersect live),
       llm_history |-> IF gone THEN {} ELSE ui.llm_history,
       llm_history_key |-> IF gone THEN None ELSE ui.llm_history_key]
==============================================================================

--------------------------- MODULE SettingsDialog ----------------------------
(***************************************************************************)
(* The dialogs of the application: which of them is open and gets the keys *)
(* (app/loop_events.rs, ui/state_shell.rs, ui/state_llm.rs), the settings  *)
(* dialog and its editor of additional servers (ui/state_settings.rs).     *)
(*                                                                         *)
(* A text is an atom: typing or erasing a character makes another text of  *)
(* it.  Messages are left out.  The fields Port, Gpu, ProcessRefresh and   *)
(* OfflineGrace are handled like Host and Refresh, which stand for them.   *)
(***************************************************************************)
EXTENDS ServerList

CONSTANTS
  Fields,       \* the fields in the order of the dialog
  Hosts,        \* texts of the host field
  EmptyText,
  host_of,      \* endpoint_parts: the host shown for an endpoint
  with_host,    \* <<endpoint, host>> -> the endpoint with its host replaced, None
                \* when the host is not valid in a URL
  Refreshes,    \* texts of the refresh field
  InRange,      \* those that parse_setting_u64 accepts
  Drafts,       \* texts of the server draft
  Valid,        \* those that are absolute URLs with a host
  ActiveServer, \* the endpoint monitored when none is configured
  MaxServers,   \* bound on the additional servers
  Candidates    \* what a scan may find, as discover_processes returns it

ASSUME DialogAssumption ==
  /\ None \notin Drafts \union {EmptyText}
  /\ \A found \in Candidates : /\ found \in Seq(Range(found))
                                /\ \A c \in Range(found) : c.endpoint \in DOMAIN Rank

VARIABLES
  dialog,    \* the dialog fields of UiState
  settings   \* the configuration of the running program

dialogVars == <<dialog, settings>>

-----------------------------------------------------------------------------
(* Opening and closing.                                                    *)

open_settings(d) ==
  LET editable == Or(settings.server, ActiveServer)
  IN  [d EXCEPT !.help_open = FALSE, !.process_search_open = FALSE, !.settings_open = TRUE,
                !.field = "Host", !.host = host_of[editable], !.original = editable,
                !.refresh = settings.refresh, !.auto_discovery = settings.auto_discovery,
                !.servers = settings.servers, !.index = 1, !.draft = None, !.edit_index = None]

close_settings(d) ==
  [d EXCEPT !.settings_open = FALSE, !.draft = None, !.edit_index = None]

toggle_help(d) ==
  [d EXCEPT !.settings_open = FALSE, !.process_search_open = FALSE, !.help_open = ~@]

open_process_search(d) ==
  [d EXCEPT !.help_open = FALSE, !.settings_open = FALSE, !.process_search_open = TRUE]

open_server_selector(d) ==
  [d EXCEPT !.server_selector_open = TRUE, !.help_open = FALSE,
            !.process_search_open = FALSE, !.settings_open = FALSE]

-----------------------------------------------------------------------------
(* The fields and the list of servers.                                     *)

\* settings_next_field and settings_previous_field
Neighbour(field, step) ==
  LET at == CHOOSE i \in DOMAIN Fields : Fields[i] = field
  IN  Fields[((at - 1 + step) % Len(Fields)) + 1]

\* Up and Down stay in the list until its end; positions are counted from 1.
settings_server_step(d, step) ==
  LET last == Len(d.servers)
      index == Lower(d.index, IF last = 0 THEN 1 ELSE last)
  IN  IF index + step \in 1..last THEN [d EXCEPT !.index = index + step]
      ELSE [d EXCEPT !.field = Neighbour(@, step)]

settings_server_begin_add(d) == [d EXCEPT !.draft = EmptyText, !.edit_index = None]

settings_server_begin_edit(d) ==
  IF d.index \notin DOMAIN d.servers THEN d
  ELSE [d EXCEPT !.draft = d.servers[d.index], !.edit_index = d.index]

settings_server_delete(d) ==
  IF d.index \notin DOMAIN d.servers THEN d
  ELSE LET left == RemoveAt(d.servers, d.index)
       IN  [d EXCEPT !.servers = left,
                     !.index = IF left = <<>> THEN 1 ELSE Lower(@, Len(left))]

\* The endpoint the dialog would save, None when host or port are not valid:
\* unchanged fields give the original back, else only they are replaced.
settings_endpoint(d) ==
  IF d.host = EmptyText THEN None
  ELSE IF d.host = host_of[d.original] THEN d.original
  ELSE with_host[<<d.original, d.host>>]

\* The entries other than the one that is being edited.
OtherEntries(d) ==
  IF d.edit_index = None THEN d.servers ELSE RemoveAt(d.servers, d.edit_index)

\* A draft that is no URL, or names the primary or another entry, stays open.
settings_server_draft_commit(d) ==
  LET primary == settings_endpoint(d)
      rejected == \/ d.draft \notin Valid
                  \/ primary # None /\ Key[primary] = Key[d.draft]
                  \/ find_duplicate(OtherEntries(d), d.draft)
      servers == IF d.edit_index # None THEN [d.servers EXCEPT ![d.edit_index] = d.draft]
                 ELSE Append(d.servers, d.draft)
  IN  IF rejected THEN d
      ELSE [d EXCEPT !.servers = servers, !.index = Or(d.edit_index, Len(servers)),
                     !.draft = None, !.edit_index = None]

\* None for a dialog that cannot be saved.
settings_config(d) ==
  IF settings_endpoint(d) = None \/ d.refresh \notin InRange THEN None
  ELSE [server |-> settings_endpoint(d), servers |-> d.servers, refresh |-> d.refresh,
        auto_discovery |-> d.auto_discovery]

-----------------------------------------------------------------------------
(* The keys.                                                               *)

DialogInit ==
  /\ settings \in [server : {None, ActiveServer}, servers : {<<>>}, refresh : InRange,
                   auto_discovery : {TRUE}]
  /\ dialog = [help_open |-> FALSE, settings_open |-> FALSE, process_search_open |-> FALSE,
               server_selector_open |-> FALSE, field |-> "Host", host |-> EmptyText,
               original |-> ActiveServer, refresh |-> settings.refresh,
               auto_discovery |-> TRUE, servers |-> <<>>, index |-> 1, draft |-> None,
               edit_index |-> None]

\* The key goes to the settings, the search, the selector or the dashboard, in
\* this order.
InSettings == dialog.settings_open
InSearch == ~dialog.settings_open /\ dialog.process_search_open
InSelector == ~dialog.settings_open /\ ~dialog.process_search_open /\ dialog.server_selector_open
InDashboard == ~(InSettings \/ InSearch \/ InSelector)

Press(next) == dialog' = next /\ UNCHANGED settings

\* s, / and h, also over the help; q only without it; Esc closes the help, and
\* without it quits.
DashboardKey ==
  /\ InDashboard
  /\ \/ Press(open_server_selector(dialog))
     \/ Press(open_process_search(dialog))
     \/ Press(toggle_help(dialog))
     \/ ~dialog.help_open /\ Press(open_settings(dialog))
     \/ dialog.help_open /\ Press([dialog EXCEPT !.help_open = FALSE])

\* change_refresh, with - and +
RefreshKey == \E value \in InRange :
  /\ InDashboard /\ ~dialog.help_open
  /\ settings' = [settings EXCEPT !.refresh = value]
  /\ UNCHANGED dialog

\* Esc or Enter
LeaveSearchKey == InSearch /\ Press([dialog EXCEPT !.process_search_open = FALSE])
LeaveSelectorKey == InSelector /\ Press([dialog EXCEPT !.server_selector_open = FALSE])

Editing == InSettings /\ dialog.draft # None
Choosing == InSettings /\ dialog.draft = None
OnList == dialog.field = "ServerList"

DraftKey ==
  /\ Editing
  /\ \/ \E text \in Drafts : text # dialog.draft /\ Press([dialog EXCEPT !.draft = text])
     \/ Press([dialog EXCEPT !.draft = None, !.edit_index = None])
     \/ (dialog.edit_index # None \/ Len(dialog.servers) < MaxServers)
        /\ Press(settings_server_draft_commit(dialog))

\* Tab and BackTab; Up and Down, which in the list step through the entries.
MoveFieldKey == \E step \in {-1, 1} :
  /\ Choosing
  /\ \/ Press([dialog EXCEPT !.field = Neighbour(@, step)])
     \/ OnList /\ Press(settings_server_step(dialog, step))

ListKey ==
  /\ Choosing /\ OnList
  /\ \/ Press(settings_server_begin_add(dialog))
     \/ Press(settings_server_begin_edit(dialog))
     \/ Press(settings_server_delete(dialog))

EditFieldKey ==
  /\ Choosing
  /\ \/ /\ dialog.field = "Host"
        /\ \E text \in Hosts \ {dialog.host} : Press([dialog EXCEPT !.host = text])
     \/ /\ dialog.field = "Refresh"
        /\ \E text \in Refreshes \ {dialog.refresh} : Press([dialog EXCEPT !.refresh = text])
     \/ dialog.field = "AutoDiscovery" /\ Press([dialog EXCEPT !.auto_discovery = ~@])

CancelKey == Choosing /\ Press(close_settings(dialog))

\* Enter: a dialog that is not valid, or whose file cannot be written, stays
\* open; else the running program adopts the configuration.
SaveKey ==
  /\ Choosing
  /\ settings_config(dialog) # None
  /\ settings' = settings_config(dialog)
  /\ dialog' = close_settings(dialog)

DialogNext ==
  \/ DashboardKey \/ RefreshKey \/ LeaveSearchKey \/ LeaveSelectorKey
  \/ DraftKey \/ MoveFieldKey \/ ListKey \/ EditFieldKey \/ CancelKey \/ SaveKey

DialogSpec == DialogInit /\ [][DialogNext]_dialogVars

-----------------------------------------------------------------------------
(* Properties.                                                             *)

\* Through any sequence of adding, editing in place, deleting and saving, the
\* additional servers stay pairwise distinct as servers, and the marks of the list
\* tell which of them would be monitored if the dialog were saved now, for every
\* primary endpoint and whatever a scan finds besides (settings_server_draft_commit,
\* monitored_flags against collect_server_list).
FlagsPredictMonitoring ==
  /\ \A i, j \in DOMAIN dialog.servers :
       Key[dialog.servers[i]] = Key[dialog.servers[j]] => i = j
  /\ dialog.settings_open /\ settings_config(dialog) # None =>
       LET saved == settings_config(dialog)
           flags == monitored_flags(saved.server, saved.servers)
       IN  \A found \in Candidates : \A i \in DOMAIN saved.servers :
             flags[i] = \E spec \in Range(collect_server_list(saved, found).monitored) :
                          spec.key = Key[saved.servers[i]]
==============================================================================

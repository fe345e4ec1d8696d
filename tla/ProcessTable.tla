---------------------------- MODULE ProcessTable -----------------------------
(***************************************************************************)
(* The process table: the collector with its cache of names                *)
(* (app/process.rs) and the part of UiState that selects, pins, groups,    *)
(* searches, sorts and scrolls (ui/state_process.rs, ui/processes.rs).     *)
(*                                                                         *)
(* A process is known by pid and start time.  Names and pids are numbers,  *)
(* in the order of the code's comparisons; Unnamed is a name that could    *)
(* not be read.  `load` stands for the columns CPU, MEM and THR: a number, *)
(* or None for an unreadable thread count.  A method of UiState that takes *)
(* &mut self is an operator from the record `ui` to its next value.        *)
(*                                                                         *)
(* The application loop drains the snapshots, paints when one was applied  *)
(* or an event was read (or when idle, which repaints the same), and then  *)
(* waits for one event: an event is never read while a frame is due.  The  *)
(* height of the table is known only to the frame: it follows the terminal *)
(* and the panels above, which snapshots make grow and shrink.             *)
(***************************************************************************)
EXTENDS Options, Sequences, FiniteSets, FiniteSetsExt, SequencesExt, Functions

CONSTANTS
  Unnamed,              \* an empty name, before all others in the order
  Absent,               \* the pane when the layout has no room for the table
  Tables,               \* what a scan of the system may find: [id, name, load] sequences
  SortKeys,             \* "Pid", "Program", "Load"
  Panes,                \* numbers of table rows, or Absent
  Terms,                \* the search terms that can be typed
  Hits(_, _)            \* whether the program, command or pid of a process contains a term

VARIABLES
  due,            \* RedrawScheduler.dirty: a frame is due
  proc_cache,     \* ProcessCache.entries of the collector
  processes,      \* snapshot.system.processes
  pane,           \* the size that the next frame gives the table
  ui,             \* the process fields of UiState
  followed        \* auxiliary: a key or a snapshot has scrolled to the selection, and
                  \* since then no event has moved rows and no frame had fewer

tableVars == <<due, proc_cache, processes, pane, ui, followed>>

ProcessT(id) == <<"process", id>>
GroupT(program) == <<"group", program>>

Identities == [pid : Nat, start_time : Nat]
ProcessRowTarget == ({"process"} \X Identities) \union ({"group"} \X Nat)

\* A scan reads one directory per pid.
Scanned(table) ==
  /\ table \in Seq([id : Identities, name : Nat, load : Nat \union {None}])
  /\ \A i, j \in DOMAIN table : table[i].id.pid = table[j].id.pid => i = j

ASSUME TableAssumption ==
  /\ \A table \in Tables : Scanned(table)
  /\ Unnamed \in Nat /\ None \notin Nat \union Identities \union ProcessRowTarget
  /\ SortKeys \subseteq {"Pid", "Program", "Load"}
  /\ Panes \subseteq Nat \union {Absent} /\ Absent \notin Nat

-----------------------------------------------------------------------------
(* The collector.                                                          *)

\* The name read now, or the last good one of this identity; the name read first
\* is kept even when it is empty.
stable(cache, read) ==
  IF read.name = Unnamed /\ read.id \in DOMAIN cache THEN cache[read.id] ELSE read.name

collect_process_stats(cache, reads) ==
  [i \in DOMAIN reads |->
     [id |-> reads[i].id, program |-> stable(cache, reads[i]), load |-> reads[i].load]]

\* The cache after a collection: the names just used, live identities only.
retain(stats) ==
  [id \in {p.id : p \in Range(stats)} |->
     (CHOOSE p \in Range(stats) : p.id = id).program]

-----------------------------------------------------------------------------
(* The rows.                                                               *)

\* How two rows compare under the column that sorts them.
Precedes(a, b, key, descending, tie) ==
  IF a[key] # b[key] THEN (IF descending THEN a[key] > b[key] ELSE a[key] < b[key])
  ELSE tie

\* An unknown thread count sorts below every known one.
Known(load) == IF load = None THEN -1 ELSE load

ProcessKeys(p) == [Pid |-> p.id.pid, Program |-> p.program, Load |-> Known(p.load)]

sorted_processes(members, key, descending) ==
  Ordered(members, LAMBDA a, b :
    Precedes(ProcessKeys(a), ProcessKeys(b), key, descending, a.id.pid < b.id.pid))

process_matches_search(p, term) == IF term = None THEN TRUE ELSE Hits(p, term)

\* The processes a search leaves, without the pinned one.
Unpinned(u, ps) == {p \in Range(ps) : p.id # u.pinned_pid /\ process_matches_search(p, u.query)}

PinnedRow(u, ps) ==
  LET pinned == {p \in Range(ps) : p.id = u.pinned_pid /\ process_matches_search(p, u.query)}
  IN  [i \in 1..Cardinality(pinned) |-> ProcessT(u.pinned_pid)]

\* A total only when every member's count is known.
GroupLoad(members) ==
  IF \E p \in members : p.load = None THEN None
  ELSE SumFunctionOnSet([p \in members |-> p.load], members)

GroupOf(program, members) ==
  [program |-> program, members |-> members,
   keys |-> [Pid |-> Min({p.id.pid : p \in members}), Program |-> program,
             Load |-> Known(GroupLoad(members))]]

SortedGroups(groups, key, descending) ==
  Ordered(groups, LAMBDA a, b :
    Precedes(a.keys, b.keys, key, descending, a.program < b.program))

\* The rows of one group: the process itself when it is alone, else the group
\* and, when it is expanded, its members.
GroupRows(u, group) ==
  LET children == sorted_processes(group.members, u.sort_key, u.sort_desc)
      rows == [i \in DOMAIN children |-> ProcessT(children[i].id)]
  IN  IF Len(children) = 1 THEN rows
      ELSE <<GroupT(group.program)>> \o (IF group.program \in u.expanded THEN rows ELSE <<>>)

GroupsOf(found) ==
  {GroupOf(program, {p \in found : p.program = program}) : program \in {p.program : p \in found}}

\* The rows, still apart by group.  (TLC evaluates a concatenation once, and a function
\* constructor at each use.)
grouped_process_rows_filtered(u, ps) ==
  LET sorted == SortedGroups(GroupsOf(Unpinned(u, ps)), u.sort_key, u.sort_desc)
  IN  <<>> \o [i \in DOMAIN sorted |-> GroupRows(u, sorted[i])]

\* The rows of the pinned group, and the rows that scroll.
PinnedAt(u, groups) == {i \in DOMAIN groups : groups[i][1] = GroupT(u.pinned_group)}

TakenRows(groups, taken) ==
  FlattenSeq([i \in DOMAIN groups |-> IF i \in taken THEN groups[i] ELSE <<>>])

take_pinned_group_rows(u, groups) == TakenRows(groups, PinnedAt(u, groups))

LeftRows(u, groups) == TakenRows(groups, DOMAIN groups \ PinnedAt(u, groups))

process_scroll_targets(u, ps) == LeftRows(u, grouped_process_rows_filtered(u, ps))

process_navigation_targets(u, ps) ==
  LET groups == grouped_process_rows_filtered(u, ps)
  IN  PinnedRow(u, ps) \o take_pinned_group_rows(u, groups) \o LeftRows(u, groups)

-----------------------------------------------------------------------------
(* The selection.                                                          *)

current_process_target(u) ==
  IF u.selected_pid # None THEN ProcessT(u.selected_pid)
  ELSE IF u.selected_group # None THEN GroupT(u.selected_group)
  ELSE None

Unselected(u) == [u EXCEPT !.selected_pid = None, !.selected_group = None]

select_process_target(u, target) ==
  IF target[1] = "process"
  THEN [u EXCEPT !.selected_pid = target[2], !.selected_group = None]
  ELSE [u EXCEPT !.selected_pid = None, !.selected_group = target[2]]

\* Mutant: a selection without a row is given up.
Substitute_none(target, ps) == None

\* What replaces a selection that has no row of its own any more: the group a
\* process has joined, or the first process of a group that has dissolved.
Substitute(target, ps) ==
  LET same == {i \in DOMAIN ps : IF target[1] = "process" THEN ps[i].id = target[2]
                                 ELSE ps[i].program = target[2]}
      first == ps[Min(same)]
  IN  IF same = {} THEN None
      ELSE IF target[1] = "process" THEN GroupT(first.program) ELSE ProcessT(first.id)

normalize_process_selection(u, ps) ==
  LET targets == Range(process_navigation_targets(u, ps))
      other == Substitute(current_process_target(u), ps)
  IN  IF current_process_target(u) = None THEN u
      ELSE IF current_process_target(u) \in targets THEN u
      ELSE IF other \in targets THEN select_process_target(u, other) ELSE Unselected(u)

\* Mutant: the last visible row is one too low.
StartShowing_low(index, scroll, visible, total) ==
  LET max_start == Minus(total, visible)
      start == Lower(scroll, max_start)
  IN  IF visible = 0 THEN index
      ELSE Lower(IF index < start THEN index
                 ELSE IF index > start + visible THEN Minus(index + 1, visible)
                 ELSE start, max_start)

\* The first row shown so that row `index` (from 0) is among the visible ones.
StartShowing(index, scroll, visible, total) ==
  LET max_start == Minus(total, visible)
      start == Lower(scroll, max_start)
  IN  IF visible = 0 THEN index
      ELSE Lower(IF index < start THEN index
                 ELSE IF index >= start + visible THEN Minus(index + 1, visible)
                 ELSE start, max_start)

\* The row of a target, from 1, or 0 when it has none.
RowOf(targets, target) ==
  IF target \in Range(targets) THEN CHOOSE i \in DOMAIN targets : targets[i] = target ELSE 0

\* A pinned row is outside the scrolled rows.
VisibleAmong(u, targets) ==
  LET row == RowOf(targets, current_process_target(u))
  IN  [u EXCEPT
         !.display_total = Len(targets),
         !.scroll = IF targets = <<>> THEN 0
                    ELSE IF row = 0 THEN Lower(@, Len(targets) - 1)
                    ELSE StartShowing(row - 1, @, u.scroll_visible, Len(targets))]

ensure_selected_process_visible(u, ps) ==
  IF current_process_target(u) = None THEN u
  ELSE VisibleAmong(u, process_scroll_targets(u, ps))

\* Forget what is gone, ...
WithoutTheGone(u, ids, programs) ==
  LET kept(value, there) == IF value \in there THEN value ELSE None
  IN  [u EXCEPT !.selected_pid = kept(@, ids), !.pinned_pid = kept(@, ids),
                !.selected_group = kept(@, programs), !.pinned_group = kept(@, programs),
                !.expanded = @ \intersect programs]

\* ... find the selection again and keep it in view.
clamp_process_selection(u, ps) ==
  LET there == WithoutTheGone(u, {p.id : p \in Range(ps)}, {p.program : p \in Range(ps)})
      seen == ensure_selected_process_visible(normalize_process_selection(there, ps), ps)
  IN  [seen EXCEPT !.scroll = Lower(@, Minus(seen.display_total, 1))]

\* From the row of the selection, or without one from the first row shown.
MovedAmong(u, ps, targets, delta) ==
  LET row == RowOf(targets, current_process_target(u))
      index == IF row = 0 THEN Lower(u.scroll, Len(targets) - 1)
               ELSE IF delta < 0 THEN Minus(row - 1, -delta)
               ELSE Lower(row - 1 + delta, Len(targets) - 1)
  IN  IF targets = <<>> THEN [Unselected(u) EXCEPT !.scroll = 0]
      ELSE ensure_selected_process_visible(select_process_target(u, targets[index + 1]), ps)

move_process_selection(u, ps, delta) ==
  LET found == normalize_process_selection(u, ps)
  IN  MovedAmong(found, ps, process_navigation_targets(found, ps), delta)

process_home(u, ps) ==
  LET targets == process_navigation_targets(u, ps)
      chosen == IF targets = <<>> THEN Unselected(u)
                ELSE select_process_target(u, targets[1])
  IN  ensure_selected_process_visible([chosen EXCEPT !.scroll = 0], ps)

process_end(u, ps) ==
  LET targets == process_navigation_targets(u, ps)
      chosen == IF targets = <<>> THEN Unselected(u)
                ELSE select_process_target(u, Last(targets))
  IN  ensure_selected_process_visible([chosen EXCEPT !.scroll = Minus(Len(targets), 1)], ps)

scroll_processes(u, delta) ==
  [u EXCEPT !.scroll = IF u.display_total = 0 THEN 0
                       ELSE IF delta < 0 THEN Minus(@, -delta)
                       ELSE Lower(@ + delta, Minus(u.display_total, 1))]

clear_process_selection(u) ==
  [Unselected(u) EXCEPT !.pinned_pid = None, !.pinned_group = None, !.last_click = None]

click_process_sort(u, key) ==
  [u EXCEPT !.sort_desc = IF u.sort_key = key THEN ~@ ELSE key = "Load",
            !.sort_key = key,
            !.scroll = IF u.selected_pid = None THEN 0 ELSE @]

\* `recent` when the double-click window is still open.  At most one of the
\* code's two remembered clicks is set, since each kind of row clears the other's.
click_process_row(u, target, recent) ==
  LET double == recent /\ u.last_click = target
      chosen == [select_process_target(u, target)
                   EXCEPT !.last_click = IF double THEN None ELSE target]
      pin(old) == IF double \/ old = target[2] THEN target[2] ELSE None
  IN  IF target[1] = "process"
      THEN [chosen EXCEPT !.pinned_group = None, !.pinned_pid = pin(@)]
      ELSE [chosen EXCEPT !.pinned_pid = None, !.pinned_group = pin(@)]

right_click_process_group(u, program) == [u EXCEPT !.expanded = SymDiff(@, {program})]

\* The layout, and the rows that can be clicked.
draw_processes(u, ps, size) ==
  LET groups == grouped_process_rows_filtered(u, ps)
      fixed == take_pinned_group_rows(u, groups)
      targets == LeftRows(u, groups)
      pinned == IF size = 0 THEN <<>> ELSE PinnedRow(u, ps)
      visible == Minus(size, Len(pinned) + Len(fixed))
      start == Lower(u.scroll, Minus(Len(targets), visible))
      end == Lower(start + visible, Len(targets))
      rows == pinned \o fixed \o SubSeq(targets, start + 1, end)
  IN  [u EXCEPT !.display_total = Len(targets), !.scroll_visible = visible, !.scroll = start,
                !.rows = SubSeq(rows, 1, Lower(size, Len(rows))), !.header = size > 0]

\* A layout without the table leaves nothing to click.
Painted(u, ps, size) ==
  IF size = Absent THEN [u EXCEPT !.rows = <<>>, !.header = FALSE]
  ELSE draw_processes(u, ps, size)

-----------------------------------------------------------------------------
TableInit ==
  /\ due = TRUE
  /\ proc_cache = <<>>
  /\ processes = <<>>
  /\ pane \in Panes
  /\ ui = [selected_pid |-> None, pinned_pid |-> None, selected_group |-> None,
           pinned_group |-> None, last_click |-> None, expanded |-> {},
           sort_key |-> "Load", sort_desc |-> TRUE, search_open |-> FALSE, query |-> None,
           scroll |-> 0, display_total |-> 0, scroll_visible |-> 0, rows |-> <<>>,
           header |-> FALSE]
  /\ followed = FALSE

\* The collector scans the processes and its snapshot reaches the loop, which
\* applies and clamps it; the snapshot before it may have been dropped by a full
\* channel, which leaves its names in the cache.  Its readings can change the heights
\* of the panels above the table.
CollectAndApply ==
  LET caches == {proc_cache} \union
                {retain(collect_process_stats(proc_cache, lost)) : lost \in Tables}
  IN  \E stats \in {collect_process_stats(cache, reads) : cache \in caches, reads \in Tables} :
        /\ proc_cache' = retain(stats)
        /\ processes' = stats
        /\ ui' = clamp_process_selection(ui, stats)
        /\ followed' = TRUE
        /\ due' = TRUE
        /\ pane' \in Panes

Paint ==
  /\ due
  /\ ui' = Painted(ui, processes, pane)
  /\ followed' = (followed /\ ui'.scroll_visible >= ui.scroll_visible)
  /\ due' = FALSE
  /\ UNCHANGED <<proc_cache, processes, pane>>

\* One event is read; a frame is due after it.
Input(u, follows) ==
  /\ ~due
  /\ ui' = u /\ followed' = follows
  /\ due' = TRUE
  /\ UNCHANGED <<proc_cache, processes, pane>>

MoveKey == \E delta \in {-10, -1, 1, 10} :
  ~ui.search_open /\ Input(move_process_selection(ui, processes, delta), TRUE)

HomeKey == ~ui.search_open /\ Input(process_home(ui, processes), TRUE)

EndKey == ~ui.search_open /\ Input(process_end(ui, processes), TRUE)

OpenSearchKey == ~ui.search_open /\ Input([ui EXCEPT !.search_open = TRUE, !.scroll = 0], FALSE)

AcceptSearchKey == ui.search_open /\ Input([ui EXCEPT !.search_open = FALSE], followed)

ClearSearchKey ==
  LET cleared == [ui EXCEPT !.search_open = FALSE, !.query = None, !.scroll = 0]
  IN  ui.search_open /\ Input(clamp_process_selection(cleared, processes), TRUE)

\* A character is typed or erased: the query becomes another term, or none.
EditSearchKey == \E term \in Terms \union {None} :
  /\ ui.search_open
  /\ term # ui.query
  /\ Input(clamp_process_selection([ui EXCEPT !.query = term, !.scroll = 0], processes), TRUE)

ClickRow == \E row \in DOMAIN ui.rows, recent \in BOOLEAN :
  ~ui.search_open /\ Input(click_process_row(ui, ui.rows[row], recent), FALSE)

\* A click anywhere else releases the selection and the pin, on a column header
\* it also sorts.
ClickAway ==
  /\ ~ui.search_open
  /\ \/ Input(clear_process_selection(ui), FALSE)
     \/ /\ ui.header
        /\ \E key \in SortKeys :
             Input(click_process_sort(clear_process_selection(ui), key), FALSE)

RightClickRow == \E row \in DOMAIN ui.rows :
  /\ ~ui.search_open
  /\ ui.rows[row][1] = "group"
  /\ Input(right_click_process_group(ui, ui.rows[row][2]), FALSE)

Wheel == \E delta \in {-3, 3} :
  ~ui.search_open /\ pane # Absent /\ Input(scroll_processes(ui, delta), FALSE)

\* The terminal is resized, or a sample of the selected server makes the panels above
\* the table grow or shrink; also between an event and its frame.
Resize == \E size \in Panes :
  /\ pane' = size
  /\ due' = TRUE
  /\ UNCHANGED <<proc_cache, processes, ui, followed>>

TableNext ==
  \/ CollectAndApply \/ Paint
  \/ MoveKey \/ HomeKey \/ EndKey
  \/ OpenSearchKey \/ AcceptSearchKey \/ ClearSearchKey \/ EditSearchKey
  \/ ClickRow \/ ClickAway \/ RightClickRow \/ Wheel \/ Resize

-----------------------------------------------------------------------------
(* Properties.                                                             *)

\* A new snapshot never moves the selection to another process that was given
\* the pid, and loses it only with its process or behind a search: a selected
\* process stays selected, itself or as the group it has become part of; of a
\* group that has dissolved a remaining process is selected
\* (clamp_process_selection, normalize_process_selection).
SelectionSurvives ==
  [][processes' # processes /\ current_process_target(ui) # None =>
       LET same == {p \in Range(processes') :
                      IF ui.selected_pid # None THEN p.id = ui.selected_pid
                      ELSE p.program = ui.selected_group}
           heirs == {ProcessT(p.id) : p \in same} \union {GroupT(p.program) : p \in same}
           now == current_process_target(ui')
       IN  IF now = None THEN heirs = {} \/ ui.query # None
           ELSE /\ now \in heirs
                /\ Contains(process_navigation_targets(ui', processes'), now)]_tableVars

\* The row of the selection is painted by the next frame that shows at least as many
\* scrolled rows as the last one did, once a key, a search or a snapshot has scrolled
\* to it - whatever is pinned, expanded, gone or come since, and whatever the terminal
\* and the panels above have done.  A frame with fewer rows may leave it out, for it is
\* the last frame's number that ensure_selected_process_visible computes with; the next
\* snapshot scrolls to it again (clamp_process_selection, draw_processes).
SelectedRowIsPainted ==
  [][/\ due /\ ~due' /\ followed
     /\ pane # Absent /\ ui'.scroll_visible > 0 /\ ui'.scroll_visible >= ui.scroll_visible
     /\ current_process_target(ui) # None
     => Contains(ui'.rows, current_process_target(ui'))]_tableVars
==============================================================================

--------------------------- MODULE TelemetryHistory --------------------------
(***************************************************************************)
(* The telemetry histories of the UI and what the panels paint from them   *)
(* (ui/history.rs, ui/state_llm.rs, ui/llm.rs): a percentage of the host,  *)
(* and one rate of the selected server with the state of its connection.   *)
(* The host's four series are treated alike, and so are the two rates.     *)
(*                                                                         *)
(* Painting changes nothing: what a frame shows is an operator of the      *)
(* state and of the time at which it is painted.  Percentages are integers *)
(* and rates are in hundredths of a token per second, NotFinite stands for *)
(* NaN and the infinities; the braille cells that hold the dots of a       *)
(* graph, texts and colours are left out.                                  *)
(***************************************************************************)
EXTENDS Options, Sequences, SequencesExt, FiniteSetsExt

CONSTANTS
  NotFinite,
  HISTORY_WINDOW, HISTORY_MAX_SAMPLES,
  Flash,        \* how long a new connection is announced
  MaxInterval,  \* the cap of a sample interval
  Width, Height,              \* a graph, in dots
  Percentages, Rates,         \* the readings: integers, None, NotFinite
  MaxTime, MaxObservations    \* bounds on the clock and on the observations

ASSUME HistoryAssumption ==
  /\ HISTORY_WINDOW \in Nat /\ HISTORY_MAX_SAMPLES \in Nat \ {0} /\ Flash \in Nat
  /\ MaxInterval \in Nat \ {0} /\ Width \in Nat \ {0} /\ Height \in Nat \ {0}
  /\ None \notin Int \union (Int \X Int) /\ NotFinite \notin Int
  /\ Percentages \union Rates \subseteq Int \union {None, NotFinite}

VARIABLES
  time,
  host,         \* [history, observed_at]: a series of UiState and last_host_sample_at
  llm,          \* LlmHistory of the selected server
  observed      \* auxiliary: everything observed so far, oldest first

historyVars == <<time, host, llm, observed>>

-----------------------------------------------------------------------------
(* Recording.                                                              *)

Finite(value) == value \notin {None, NotFinite}
clamp_percent(value) == IF value > 100 THEN 100 ELSE IF value < 0 THEN 0 ELSE value

\* Points older than the window leave at the front, then those over the limit.
Pruned(history, now) ==
  LET recent == {i \in DOMAIN history : now - history[i].at <= HISTORY_WINDOW}
      front == Min(recent \union {Len(history) + 1})
  IN  SubSeq(history, Max({front, Len(history) - HISTORY_MAX_SAMPLES + 1}), Len(history))

\* A value that is not finite is not stored, and prunes nothing.
push_history_at(history, value, now) ==
  IF ~Finite(value) THEN history
  ELSE Pruned(Append(history, [at |-> now, value |-> clamp_percent(value)]), now)

push_metric_history_at(history, value, now) ==
  IF ~Finite(value) THEN history
  ELSE Pruned(Append(history, [at |-> now, value |-> IF value > 0 THEN value ELSE 0]), now)

\* The average lies between the shortest and the longest interval, which stand for
\* it; its weights are left out.
smooth_llm_sample_interval(previous, current) ==
  LET capped == Lower(current, MaxInterval)
  IN  IF current <= 0 THEN previous
      ELSE IF previous = None THEN <<capped, capped>>
      ELSE <<Lower(previous[1], capped), IF previous[2] > capped THEN previous[2] ELSE capped>>

\* Mutant: a new connection inherits the average of the last one.
Connected_same_average(history, now) ==
  IF ~history.was_connected
  THEN [history EXCEPT !.connected_since = now, !.connected_flash_until = now + Flash]
  ELSE [history EXCEPT
          !.sample_interval = smooth_llm_sample_interval(@, now - history.last_fresh_at)]

\* A fresh sample begins a connection or continues it.
Connected(history, now) ==
  IF ~history.was_connected
  THEN [history EXCEPT !.connected_since = now, !.connected_flash_until = now + Flash,
                       !.sample_interval = None]
  ELSE [history EXCEPT
          !.sample_interval = smooth_llm_sample_interval(@, now - history.last_fresh_at)]

\* A held sample is connected and reconnecting: it is an observation and no more.
observe_llm_into(history, sample, now) ==
  LET seen == [history EXCEPT !.last_observed_at = now]
      online == Connected(seen, now)
  IN  CASE sample.link = "fresh" ->
             [online EXCEPT
                !.was_connected = TRUE, !.last_fresh_at = now,
                !.rate = IF sample.metrics_available
                         THEN push_metric_history_at(@, sample.value, now) ELSE @]
        [] sample.link = "held" -> seen
        [] sample.link = "offline" ->
             [seen EXCEPT !.was_connected = FALSE, !.connected_since = None,
                          !.connected_flash_until = None]

-----------------------------------------------------------------------------
(* Painting.                                                               *)

\* Mutant: the newest point labels the graph, whatever came after it.
latest_history_value_any(history, observed_at, now) ==
  IF history = <<>> THEN None
  ELSE IF now - Last(history).at <= HISTORY_WINDOW THEN Last(history).value
  ELSE None

\* The label of a graph: the newest point, if it is of the last observation.
latest_history_value(history, observed_at, now) ==
  IF history = <<>> THEN None
  ELSE IF /\ now - Last(history).at <= HISTORY_WINDOW
          /\ observed_at # None => Last(history).at >= observed_at
  THEN Last(history).value
  ELSE None

\* The age at which column x, counted from 0, samples the window.
TargetOf(x) == IF Width = 1 THEN HISTORY_WINDOW ELSE (x * HISTORY_WINDOW) \div (Width - 1)

\* Each column shows the last point at or before its time.
resample_history(history, now) ==
  LET Passed(x) == {i \in DOMAIN history : LET age == now - history[i].at
                                          IN  /\ age <= HISTORY_WINDOW
                                              /\ HISTORY_WINDOW - age <= TargetOf(x)}
  IN  [x \in 0..(Width - 1) |-> IF Passed(x) = {} THEN None ELSE history[Max(Passed(x))].value]

UnitRate == 100   \* the least scale of a graph of rates, 1.0
Inactive == 5     \* the highest rate that is no activity, 0.05

Visible(history, now) == {s.value : s \in {s \in ToSet(history) : now - s.at <= HISTORY_WINDOW}}

history_max(history, now) == Max(Visible(history, now) \union {0})

llm_rate_history_has_activity(history, now) == \E v \in Visible(history, now) : v > Inactive

\* The height of each column, rounded; a positive value has at least one dot.
trend_lines_scaled(columns, scale) ==
  LET Filled(value) == (2 * Lower(value, scale) * Height + scale) \div (2 * scale)
  IN  [x \in DOMAIN columns |->
         IF columns[x] = None THEN 0
         ELSE IF columns[x] > 0 /\ Filled(columns[x]) = 0 THEN 1
         ELSE Filled(columns[x])]

\* A percentage is drawn on a scale of 100.
draw_history_column(history, observed_at, now) ==
  [label |-> latest_history_value(history, observed_at, now),
   dots |-> trend_lines_scaled(resample_history(history, now), 100)]

\* A rate on that of the largest visible value, and only if there was any activity.
draw_history_rate_column(history, observed_at, now) ==
  [label |-> latest_history_value(history, observed_at, now),
   dots |-> IF llm_rate_history_has_activity(history, now)
            THEN trend_lines_scaled(resample_history(history, now),
                                    Max({history_max(history, now), UnitRate}))
            ELSE [x \in 0..(Width - 1) |-> 0]]

\* The graph of the LLM panel also names its scale.
draw_llm_rate_history_column(history, observed_at, now) ==
  LET column == draw_history_rate_column(history, observed_at, now)
  IN  [label |-> column.label, dots |-> column.dots,
       max |-> IF column.label = None THEN None ELSE Max({history_max(history, now), UnitRate})]

llm_link_status(history, link, now) ==
  CASE link = "held" -> "RECONNECTING"
    [] link = "offline" -> "OFFLINE"
    [] OTHER -> IF history.connected_flash_until = None THEN "ONLINE"
                ELSE IF now <= history.connected_flash_until THEN "CONNECTED" ELSE "ONLINE"

\* The average interval of a live connection, else the age of the last fresh sample.
llm_last_sample_text(history, link, now) ==
  IF link = "fresh" /\ history.sample_interval # None
  THEN [average |-> history.sample_interval]
  ELSE IF history.last_fresh_at # None THEN [age |-> now - history.last_fresh_at]
  ELSE None

server_sample_age_ms(history, now) ==
  IF history.last_fresh_at = None THEN None ELSE now - history.last_fresh_at

\* The overview's line of the same server, from its summary.
overview_sample_text(history, link, now) ==
  LET age == server_sample_age_ms(history, now)
  IN  IF link = "fresh" /\ history.sample_interval # None
      THEN [average |-> history.sample_interval]
      ELSE IF age = None THEN None
      ELSE IF link = "held" THEN [stale |-> age] ELSE [age |-> age]

llm_uptime_text(history, now) ==
  IF history.connected_since = None THEN None ELSE now - history.connected_since

-----------------------------------------------------------------------------
HistoryInit ==
  /\ time = 0
  /\ host = [history |-> <<>>, observed_at |-> None]
  /\ llm = [rate |-> <<>>, last_fresh_at |-> None, last_observed_at |-> None,
            sample_interval |-> None, connected_since |-> None,
            connected_flash_until |-> None, was_connected |-> FALSE]
  /\ observed = <<>>

PassTime ==
  /\ time < MaxTime
  /\ time' = time + 1
  /\ UNCHANGED <<host, llm, observed>>

\* Two samples of one source have different times.
Note(of, link, value) ==
  /\ Len(observed) < MaxObservations
  /\ \A i \in DOMAIN observed : observed[i].of = of => observed[i].at < time
  /\ observed' = Append(observed, [of |-> of, at |-> time, link |-> link, value |-> value])

\* A snapshot of the fast worker, whose reading may be missing.
push_sample == \E value \in Percentages :
  /\ Note("host", "fresh", value)
  /\ host' = [history |-> push_history_at(host.history, value, time), observed_at |-> time]
  /\ UNCHANGED <<time, llm>>

\* A sample of the selected server: fresh, held during the grace, or offline.
record_sample == \E link \in {"fresh", "held", "offline"}, value \in Rates, metrics \in BOOLEAN :
  /\ link # "fresh" => value = None /\ ~metrics
  /\ Note("llm", link, IF metrics THEN value ELSE None)
  /\ llm' = observe_llm_into(llm, [link |-> link, metrics_available |-> metrics,
                                   value |-> value], time)
  /\ UNCHANGED <<time, host>>

HistoryNext == PassTime \/ push_sample \/ record_sample

-----------------------------------------------------------------------------
(* Properties.                                                             *)

\* The observations of one source, as positions.
Of(source) == {i \in DOMAIN observed : observed[i].of = source}

\* What is stored of a reading.
Shown(o) == IF o.of = "host" THEN clamp_percent(o.value) ELSE Max({o.value, 0})

\* What a graph shows of the observations at some positions; `top` is its scale, if that
\* is fixed.  Rates are drawn only if one of them is an activity.
GraphIsTrue(seen, column, top) ==
  LET known == {i \in seen : Finite(observed[i].value)}
      kept == {i \in known : /\ time - observed[i].at <= HISTORY_WINDOW
                             /\ Cardinality({j \in known : j > i}) < HISTORY_MAX_SAMPLES}
      By(t) == {i \in kept : observed[i].at <= t}
      ValueAt(t) == IF By(t) = {} THEN 0 ELSE Shown(observed[Max(By(t))])
      highest == IF top # None THEN top ELSE Max({Shown(observed[i]) : i \in kept} \union {UnitRate})
      active == top # None \/ \E i \in kept : Shown(observed[i]) > Inactive
      last == observed[Max(seen)]
  IN  /\ column.label # None <=>
           seen # {} /\ Finite(last.value) /\ time - last.at <= HISTORY_WINDOW
      /\ column.label # None => column.label = Shown(last)
      /\ \A x \in DOMAIN column.dots :
           LET value == ValueAt(time - HISTORY_WINDOW + TargetOf(x))
           IN  /\ column.dots[x] > 0 <=> active /\ value > 0
               /\ value = highest => column.dots[x] = Height

\* A graph is labelled with a value only if that is what the last observation of
\* its source measured, within the window: an observation without a reading, a held
\* one and an offline one take the label away (latest_history_value); and each
\* column shows the newest reading that was taken by its time and has neither left
\* the window nor been displaced: dots if and only if it is positive - a rate below the
\* threshold too, once another one passes it - and the full height for the largest rate
\* of at least 1, which the label never exceeds (push_history_at, resample_history,
\* history_max, llm_rate_history_has_activity).
LabelIsCurrent ==
  observed # <<>> =>
    LET rate == draw_llm_rate_history_column(llm.rate, llm.last_observed_at, time)
    IN  /\ GraphIsTrue(Of("host"),
                       draw_history_column(host.history, host.observed_at, time), 100)
        /\ GraphIsTrue(Of("llm"), rate, None)
        /\ rate.label # None => rate.max >= rate.label

\* The uptime counts from the first fresh sample after the server was last seen
\* offline, through every held one; and the average interval is one of that
\* connection: it lies between its shortest and its longest interval, and there is
\* none until a second fresh sample (observe_llm_into).  The overview and the panel
\* of the server tell the same age or average, and the overview calls it stale only
\* while the server does not answer.
LinkIsContinuous ==
  observed # <<>> =>
    LET seen == Of("llm")
        link == IF seen = {} THEN "offline" ELSE observed[Max(seen)].link
        fresh == {i \in seen : /\ observed[i].link = "fresh"
                               /\ \A j \in seen : observed[j].link = "offline" => j < i}
        pairs == {p \in fresh \X fresh : p[1] < p[2] /\ \A k \in fresh : k <= p[1] \/ p[2] <= k}
        gaps == {Lower(observed[p[2]].at - observed[p[1]].at, MaxInterval) : p \in pairs}
        text == llm_last_sample_text(llm, link, time)
        overview == overview_sample_text(llm, link, time)
        uptime == llm_uptime_text(llm, time)
    IN  /\ uptime = IF fresh = {} THEN None ELSE time - observed[Min(fresh)].at
        /\ text # None /\ "average" \in DOMAIN text =>
             gaps # {} /\ text.average = <<Min(gaps), Max(gaps)>>
        /\ link = "fresh" => ("average" \in DOMAIN text <=> gaps # {})
        /\ llm_link_status(llm, link, time) = "CONNECTED" => uptime <= Flash
        /\ overview = text \/ (link = "held" /\ overview = [stale |-> text.age])
==============================================================================

---------------------------- MODULE ScreenProofs -----------------------------
(***************************************************************************)
(* What the histories and their graphs and the process table promise, for  *)
(* any readings, any scans of the processes and any keys and clicks.       *)
(***************************************************************************)
EXTENDS TelemetryHistory, ProcessTable, DataInduction, TLAPS

-----------------------------------------------------------------------------
(* The telemetry histories: what was observed, one source after the other. *)

HistorySpec == HistoryInit /\ [][HistoryNext]_historyVars

Sources == {"host", "llm"}
Links == {"fresh", "held", "offline"}
Observation == [of : Sources, at : Nat, link : Links, value : Int \union {None, NotFinite}]

ObservedOk ==
  /\ time \in Nat
  /\ observed \in Seq(Observation)
  /\ \A i \in DOMAIN observed : observed[i].at <= time
  /\ \A i, j \in DOMAIN observed :
       observed[i].of = observed[j].of /\ i < j => observed[i].at < observed[j].at

\* One more observation at the end.
Longer(n, source, link, value) ==
  /\ n \in Nat /\ n \notin DOMAIN observed
  /\ DOMAIN observed' = DOMAIN observed \union {n}
  /\ observed'[n] = [of |-> source, at |-> time, link |-> link, value |-> value]
  /\ \A i \in DOMAIN observed : i \in Nat /\ i < n /\ observed'[i] = observed[i]
  /\ \A i \in Of(source) : observed[i].at < time
  /\ Of(source)' = Of(source) \union {n}
  /\ \A s \in Sources \ {source} : Of(s)' = Of(s)

LEMMA Positions1 ==
  ASSUME ObservedOk
  PROVE  /\ Len(observed) \in Nat /\ DOMAIN observed = 1 .. Len(observed)
         /\ \A i \in DOMAIN observed : observed[i] \in Observation /\ i \in Nat
  BY LenProperties, ElementOfSeq DEF ObservedOk

LEMMA Noted ==
  ASSUME ObservedOk, NEW source \in Sources, NEW link \in Links,
         NEW value \in Int \union {None, NotFinite}, Note(source, link, value), time' = time
  PROVE  ObservedOk' /\ \E n : Longer(n, source, link, value)
<1> DEFINE o == [of |-> source, at |-> time, link |-> link, value |-> value]
           n == Len(observed) + 1
<1>1. /\ time \in Nat /\ observed \in Seq(Observation) /\ o \in Observation
      /\ observed' = Append(observed, o)
      /\ \A i \in DOMAIN observed : observed[i].of = source => observed[i].at < time
  BY DEF ObservedOk, Note, Observation
<1>2. o.of = source /\ o.at = time
  OBVIOUS
<1>3. /\ Len(observed) \in Nat /\ DOMAIN observed = 1 .. Len(observed)
      /\ \A i \in DOMAIN observed : observed[i] \in Observation /\ i \in Nat
  BY Positions1
<1> HIDE DEF o
<1>4. /\ observed' \in Seq(Observation) /\ Len(observed') = n
      /\ \A i \in 1 .. Len(observed) : observed'[i] = observed[i]
      /\ observed'[n] = o
  BY <1>1, AppendProperties
<1>5. /\ n \in Nat /\ n \notin DOMAIN observed /\ DOMAIN observed' = DOMAIN observed \union {n}
      /\ \A i \in DOMAIN observed : i \in Nat /\ i < n /\ observed'[i] = observed[i]
  BY <1>3, <1>4, LenProperties
<1> HIDE DEF n
<1>6. \A i \in DOMAIN observed' : observed'[i].at <= time'
  <2>1. \A i \in DOMAIN observed : observed[i].at <= time
    BY DEF ObservedOk
  <2> QED
    BY <1>1, <1>2, <1>4, <1>5, <2>1
<1>7. ASSUME NEW i \in DOMAIN observed', NEW j \in DOMAIN observed',
             observed'[i].of = observed'[j].of, i < j
      PROVE  observed'[i].at < observed'[j].at
  <2>1. i \in DOMAIN observed
    BY <1>5, <1>7
  <2>2. CASE j \in DOMAIN observed
    BY <1>5, <1>7, <2>1, <2>2 DEF ObservedOk
  <2>3. CASE j = n
    BY <1>1, <1>2, <1>4, <1>5, <1>7, <2>1, <2>3
  <2> QED
    BY <1>5, <2>2, <2>3
<1>8. ObservedOk'
  BY <1>1, <1>4, <1>6, <1>7 DEF ObservedOk
<1>9. Of(source)' = Of(source) \union {n}
  BY <1>2, <1>4, <1>5 DEF Of
<1>10. \A s \in Sources \ {source} : Of(s)' = Of(s)
  BY <1>2, <1>4, <1>5 DEF Of
<1>11. \A i \in Of(source) : observed[i].at < time
  BY <1>1 DEF Of
<1>12. Longer(n, source, link, value)
  BY <1>4, <1>5, <1>9, <1>10, <1>11 DEF Longer, o
<1> QED
  BY <1>8, <1>12

LEMMA Reported ==
  ASSUME ObservedOk, NEW source \in Sources
  PROVE  /\ IsFiniteSet(Of(source)) /\ Of(source) \subseteq Nat
         /\ \A i \in Of(source) :
              observed[i] \in Observation /\ observed[i].at \in Nat /\ observed[i].at <= time
         /\ \A i, j \in Of(source) : i < j => observed[i].at < observed[j].at
<1>1. /\ Len(observed) \in Nat /\ DOMAIN observed = 1 .. Len(observed)
      /\ \A i \in DOMAIN observed : observed[i] \in Observation /\ i \in Nat
  BY Positions1
<1>2. IsFiniteSet(1 .. Len(observed))
  BY <1>1, FS_Interval, Len(observed) \in Int, 1 \in Int
<1>3. IsFiniteSet(Of(source))
  BY <1>1, <1>2, FS_Subset DEF Of
<1>4. \A i \in Of(source) : i \in DOMAIN observed /\ observed[i].of = source
  BY DEF Of
<1>5. \A o \in Observation : o.at \in Nat
  BY DEF Observation
<1> QED
  BY <1>1, <1>3, <1>4, <1>5 DEF ObservedOk

-----------------------------------------------------------------------------
(* The link of the selected server.                                        *)

\* The fresh samples since the server was last seen offline, and the intervals between
\* them.
Fresh ==
  {i \in Of("llm") : /\ observed[i].link = "fresh"
                     /\ \A j \in Of("llm") : observed[j].link = "offline" => j < i}

Gaps ==
  {Lower(observed[p[2]].at - observed[p[1]].at, MaxInterval) :
     p \in {p \in Fresh \X Fresh : p[1] < p[2] /\ \A k \in Fresh : k <= p[1] \/ p[2] <= k}}

LlmShape(h) ==
  h = [rate |-> h.rate, last_fresh_at |-> h.last_fresh_at,
       last_observed_at |-> h.last_observed_at, sample_interval |-> h.sample_interval,
       connected_since |-> h.connected_since, connected_flash_until |-> h.connected_flash_until,
       was_connected |-> h.was_connected]

LinkOk ==
  /\ LlmShape(llm)
  /\ llm.last_fresh_at \in Nat \union {None}
  /\ Fresh = {} => /\ ~llm.was_connected /\ llm.connected_since = None
                   /\ llm.connected_flash_until = None
  /\ Fresh # {} => /\ llm.was_connected /\ llm.connected_since = observed[Min(Fresh)].at
                   /\ llm.connected_flash_until = llm.connected_since + Flash
                   /\ llm.last_fresh_at = observed[Max(Fresh)].at
                   /\ llm.sample_interval = IF Gaps = {} THEN None ELSE <<Min(Gaps), Max(Gaps)>>

LEMMA FreshOnes ==
  ASSUME ObservedOk
  PROVE  /\ Fresh \subseteq Of("llm") /\ IsFiniteSet(Fresh) /\ Fresh \subseteq Nat
         /\ Fresh # {} => /\ Min(Fresh) \in Fresh /\ \A i \in Fresh : Min(Fresh) <= i
                          /\ Max(Fresh) \in Fresh /\ \A i \in Fresh : Max(Fresh) >= i
<1>1. Fresh \subseteq Of("llm")
  BY DEF Fresh
<1>2. IsFiniteSet(Fresh) /\ Fresh \subseteq Nat
  BY <1>1, Reported, FS_Subset DEF Sources
<1>3. Fresh \subseteq Int
  BY <1>2
<1> QED
  BY <1>1, <1>2, <1>3, MinMember, MaxOfFinite

\* An interval is at least one, as two samples never share an instant.
LEMMA GapsAreShort ==
  ASSUME ObservedOk
  PROVE  /\ Gaps \subseteq Nat /\ Gaps \subseteq Int /\ IsFiniteSet(Gaps)
         /\ Gaps # {} => /\ Min(Gaps) \in Gaps /\ \A g \in Gaps : Min(Gaps) <= g
                         /\ Max(Gaps) \in Gaps /\ \A g \in Gaps : Max(Gaps) >= g
<1>1. ASSUME NEW i \in Fresh, NEW j \in Fresh, i < j
      PROVE  Lower(observed[j].at - observed[i].at, MaxInterval) \in 0 .. MaxInterval
  <2>1. i \in Of("llm") /\ j \in Of("llm")
    BY FreshOnes
  <2>2. /\ observed[i].at \in Nat /\ observed[j].at \in Nat /\ observed[i].at < observed[j].at
    BY <1>1, <2>1, Reported DEF Sources
  <2> QED
    BY <2>2, HistoryAssumption DEF Lower
<1>2. Gaps \subseteq 0 .. MaxInterval
  BY <1>1 DEF Gaps
<1>3. MaxInterval \in Int
  BY HistoryAssumption
<1>4. IsFiniteSet(Gaps)
  BY <1>2, <1>3, FS_Interval, FS_Subset, 0 \in Int
<1>5. Gaps \subseteq Nat /\ Gaps \subseteq Int
  BY <1>2, <1>3
<1> HIDE DEF Gaps
<1> QED
  BY <1>4, <1>5, MinMember, MaxOfFinite

LEMMA SameSamples ==
  ASSUME ObservedOk, Of("llm")' = Of("llm"), \A i \in Of("llm") : observed'[i] = observed[i],
         llm' = llm, LinkOk
  PROVE  LinkOk'
<1>1. Fresh' = Fresh
  BY DEF Fresh
<1>2. \A i \in Fresh : observed'[i] = observed[i]
  BY FreshOnes
<1>3. Gaps' = Gaps
  BY <1>1, <1>2 DEF Gaps
<1>4. Fresh # {} => Min(Fresh) \in Fresh /\ Max(Fresh) \in Fresh
  BY FreshOnes
<1> QED
  BY <1>1, <1>2, <1>3, <1>4 DEF LinkOk

\* A sample that is not fresh breaks the run of fresh ones only if it is offline.
LEMMA HeldFresh ==
  ASSUME ObservedOk, NEW n, NEW link \in {"held", "offline"}, NEW value, Longer(n, "llm", link, value)
  PROVE  /\ Fresh' = IF link = "held" THEN Fresh ELSE {}
         /\ \A i \in Fresh : observed'[i] = observed[i]
         /\ Gaps' = IF link = "held" THEN Gaps ELSE {}
<1>1. /\ n \in Nat /\ n \notin Of("llm") /\ Of("llm")' = Of("llm") \union {n}
      /\ observed'[n].link = link
      /\ \A i \in Of("llm") : i \in Nat /\ i < n /\ observed'[i] = observed[i]
  BY DEF Longer, Of
<1>2. CASE link = "held"
  <2>1. Fresh' = Fresh
    BY <1>1, <1>2 DEF Fresh
  <2>2. \A i \in Fresh : observed'[i] = observed[i]
    BY <1>1, FreshOnes
  <2>3. Gaps' = Gaps
    BY <2>1, <2>2 DEF Gaps
  <2> QED
    BY <1>2, <2>1, <2>2, <2>3
<1>3. CASE link = "offline"
  <2>1. Fresh' = {}
    BY <1>1, <1>3 DEF Fresh
  <2>2. \A i \in Fresh : observed'[i] = observed[i]
    BY <1>1, FreshOnes
  <2>3. Gaps' = {}
    BY <2>1 DEF Gaps
  <2> QED
    BY <1>3, <2>1, <2>2, <2>3
<1> QED
  BY <1>2, <1>3

LEMMA FreshGrows ==
  ASSUME ObservedOk, NEW n, NEW value, Longer(n, "llm", "fresh", value)
  PROVE  /\ n \in Nat /\ Fresh' = Fresh \union {n} /\ observed'[n].at = time
         /\ \A i \in Fresh : i < n /\ observed'[i] = observed[i]
         /\ Gaps' = IF Fresh = {} THEN {}
                    ELSE Gaps \union {Lower(time - observed[Max(Fresh)].at, MaxInterval)}
<1>1. /\ n \in Nat /\ n \notin Of("llm") /\ Of("llm")' = Of("llm") \union {n}
      /\ observed'[n].link = "fresh" /\ observed'[n].at = time
      /\ \A i \in Of("llm") : i \in Nat /\ i < n /\ observed'[i] = observed[i]
  BY DEF Longer, Of
<1>2. Fresh' = Fresh \union {n}
  BY <1>1 DEF Fresh
<1>3. \A i \in Fresh : i \in Nat /\ i < n /\ observed'[i] = observed[i]
  BY <1>1, FreshOnes
<1> DEFINE Pairs(S) == {p \in S \X S : p[1] < p[2] /\ \A k \in S : k <= p[1] \/ p[2] <= k}
           grown == Fresh \union {n}
           gap(p) == Lower(observed'[p[2]].at - observed'[p[1]].at, MaxInterval)
<1>4. Gaps' = {gap(p) : p \in Pairs(grown)}
  BY <1>2 DEF Gaps
<1>5. Gaps = {gap(p) : p \in Pairs(Fresh)}
  BY <1>3 DEF Gaps
<1>6. CASE Fresh = {}
  <2>1. Pairs(grown) = {}
    BY <1>1, <1>6
  <2> QED
    BY <1>1, <1>2, <1>3, <1>4, <1>6, <2>1
<1>7. CASE Fresh # {}
  <2> DEFINE m == Max(Fresh)
  <2>1. m \in Fresh /\ \A i \in Fresh : m >= i
    BY <1>7, FreshOnes
  <2> HIDE DEF m
  <2>2. Pairs(Fresh) \subseteq Pairs(grown)
    BY <1>1, <1>3
  <2>3. <<m, n>> \in Pairs(grown)
    BY <1>1, <1>3, <2>1
  <2>4. ASSUME NEW p \in Pairs(grown) PROVE p \in Pairs(Fresh) \union {<<m, n>>}
    <3>1. p[1] \in grown /\ p[2] \in grown /\ p[1] < p[2] /\ p = <<p[1], p[2]>>
      BY <2>4
    <3>2. p[1] \in Fresh
      BY <1>1, <1>3, <3>1
    <3>3. CASE p[2] \in Fresh
      BY <2>4, <3>1, <3>2, <3>3
    <3>4. CASE p[2] = n
      <4>1. m <= p[1] \/ n <= m
        BY <2>1, <2>4, <3>4
      <4>2. m = p[1]
        BY <1>1, <1>3, <2>1, <3>2, <4>1
      <4> QED
        BY <3>1, <3>4, <4>2
    <3> QED
      BY <3>1, <3>3, <3>4
  <2>5. Pairs(grown) = Pairs(Fresh) \union {<<m, n>>}
    BY <2>2, <2>3, <2>4
  <2>6. gap(<<m, n>>) = Lower(time - observed[m].at, MaxInterval)
    BY <1>1, <1>3, <2>1
  <2> HIDE DEF Pairs
  <2>7. Gaps' = Gaps \union {gap(<<m, n>>)}
    BY <1>4, <1>5, <2>5
  <2> QED
    BY <1>1, <1>2, <1>3, <1>7, <2>6, <2>7 DEF m
<1> QED
  BY <1>6, <1>7

\* The least and the greatest of one number more.
LEMMA BoundsGrow ==
  ASSUME NEW S \in SUBSET Nat, IsFiniteSet(S), S # {}, NEW c \in Nat
  PROVE  /\ Min(S \union {c}) = Lower(Min(S), c)
         /\ Max(S \union {c}) = IF Max(S) > c THEN Max(S) ELSE c
<1> DEFINE T == S \union {c}
           a == Min(S)
           b == Max(S)
<1>1. a \in S /\ (\A y \in S : a <= y)
  BY MinMember
<1>2. b \in S /\ (\A y \in S : b >= y)
  BY MaxOfFinite, S \subseteq Int
<1>3. T \subseteq Nat /\ T # {}
  OBVIOUS
<1>4. Min(T) \in T /\ (\A y \in T : Min(T) <= y)
  BY <1>3, MinMember
<1> HIDE DEF a, b
<1>5. Max(T) = IF b > c THEN b ELSE c
  <2> DEFINE m == IF b > c THEN b ELSE c
  <2>1. m \in T /\ \A y \in T : m >= y
    BY <1>2
  <2> HIDE DEF m, T
  <2>2. Max(T) = m
    BY <1>3, <2>1, MaxIs
  <2> QED
    BY <2>2 DEF m
<1>6. Min(T) = IF a < c THEN a ELSE c
  <2> DEFINE d == Min(T)
  <2>1. d \in T /\ \A y \in T : d <= y
    BY <1>4
  <2> HIDE DEF d
  <2>2. d \in Nat /\ a \in Nat /\ d <= a /\ d <= c /\ (a <= d \/ d = c)
    BY <1>1, <1>3, <2>1
  <2>3. d = IF a < c THEN a ELSE c
    BY <2>2
  <2> QED
    BY <2>3 DEF d
<1> QED
  BY <1>5, <1>6 DEF a, b, Lower

\* The fields of a history after one sample.
Told(h, sample) ==
  LET fresh == sample.link = "fresh"
      lost == sample.link = "offline"
  IN  [rate |-> IF fresh /\ sample.metrics_available
                THEN push_metric_history_at(h.rate, sample.value, time) ELSE h.rate,
       last_fresh_at |-> IF fresh THEN time ELSE h.last_fresh_at,
       last_observed_at |-> time,
       sample_interval |->
         IF ~fresh THEN h.sample_interval
         ELSE IF ~h.was_connected THEN None
         ELSE smooth_llm_sample_interval(h.sample_interval, time - h.last_fresh_at),
       connected_since |-> IF lost THEN None
                           ELSE IF fresh /\ ~h.was_connected THEN time ELSE h.connected_since,
       connected_flash_until |->
         IF lost THEN None
         ELSE IF fresh /\ ~h.was_connected THEN time + Flash ELSE h.connected_flash_until,
       was_connected |-> IF lost THEN FALSE ELSE IF fresh THEN TRUE ELSE h.was_connected]

LEMMA ObserveTells ==
  ASSUME NEW h, LlmShape(h), NEW sample, sample.link \in Links
  PROVE  observe_llm_into(h, sample, time) = Told(h, sample)
<1> DEFINE seen == [h EXCEPT !.last_observed_at = time]
           online == Connected(seen, time)
<1> HIDE DEF seen
<1>1. seen = [rate |-> h.rate, last_fresh_at |-> h.last_fresh_at,
              last_observed_at |-> time, sample_interval |-> h.sample_interval,
              connected_since |-> h.connected_since,
              connected_flash_until |-> h.connected_flash_until,
              was_connected |-> h.was_connected]
  BY DEF LlmShape, seen
<1>2. CASE sample.link = "fresh"
  <2> DEFINE rates == push_metric_history_at(online.rate, sample.value, time)
  <2>3. observe_llm_into(h, sample, time) =
          [online EXCEPT !.was_connected = TRUE, !.last_fresh_at = time,
                         !.rate = IF sample.metrics_available THEN rates ELSE online.rate]
    BY <1>2 DEF observe_llm_into, seen
  <2>1. CASE ~h.was_connected
    <3>1. online = [rate |-> h.rate, last_fresh_at |-> h.last_fresh_at,
                    last_observed_at |-> time, sample_interval |-> None,
                    connected_since |-> time, connected_flash_until |-> time + Flash,
                    was_connected |-> h.was_connected]
      BY <1>1, <2>1 DEF Connected
    <3> HIDE DEF online
    <3> QED
      BY <1>2, <2>1, <2>3, <3>1 DEF Told
  <2>2. CASE h.was_connected
    <3>1. online = [rate |-> h.rate, last_fresh_at |-> h.last_fresh_at,
                    last_observed_at |-> time,
                    sample_interval |->
                      smooth_llm_sample_interval(h.sample_interval, time - h.last_fresh_at),
                    connected_since |-> h.connected_since,
                    connected_flash_until |-> h.connected_flash_until,
                    was_connected |-> h.was_connected]
      BY <1>1, <2>2 DEF Connected
    <3> HIDE DEF online
    <3> QED
      BY <1>2, <2>2, <2>3, <3>1 DEF Told
  <2> QED
    BY <2>1, <2>2
<1>3. CASE sample.link = "held"
  <2>1. observe_llm_into(h, sample, time) = seen
    BY <1>3 DEF observe_llm_into, seen
  <2> QED
    BY <1>1, <1>3, <2>1 DEF Told
<1>4. CASE sample.link = "offline"
  <2>1. observe_llm_into(h, sample, time) =
          [seen EXCEPT !.was_connected = FALSE, !.connected_since = None,
                       !.connected_flash_until = None]
    BY <1>4 DEF observe_llm_into, seen
  <2> QED
    BY <1>1, <1>4, <2>1 DEF Told
<1> QED
  BY <1>2, <1>3, <1>4 DEF Links

LEMMA Observed ==
  ASSUME ObservedOk, LinkOk, NEW n, NEW link \in Links, NEW value, Longer(n, "llm", link, value),
         NEW sample, sample.link = link, llm' = observe_llm_into(llm, sample, time)
  PROVE  LinkOk'
<1> DEFINE told == Told(llm, sample)
<1>1. time \in Nat
  BY DEF ObservedOk
<1>2. /\ LlmShape(told) /\ told.last_fresh_at = IF link = "fresh" THEN time ELSE llm.last_fresh_at
      /\ told.was_connected = IF link = "offline" THEN FALSE
                              ELSE IF link = "fresh" THEN TRUE ELSE llm.was_connected
      /\ told.connected_since = IF link = "offline" THEN None
                                ELSE IF link = "fresh" /\ ~llm.was_connected THEN time
                                ELSE llm.connected_since
      /\ told.connected_flash_until =
           IF link = "offline" THEN None
           ELSE IF link = "fresh" /\ ~llm.was_connected THEN time + Flash
           ELSE llm.connected_flash_until
      /\ told.sample_interval =
           IF link # "fresh" THEN llm.sample_interval
           ELSE IF ~llm.was_connected THEN None
           ELSE smooth_llm_sample_interval(llm.sample_interval, time - llm.last_fresh_at)
  BY DEF Told, LlmShape
<1>3. llm' = told
  BY ObserveTells DEF LinkOk
<1> HIDE DEF told
<1>4. CASE link \in {"held", "offline"}
  <2>1. /\ Fresh' = IF link = "held" THEN Fresh ELSE {}
        /\ \A i \in Fresh : observed'[i] = observed[i]
        /\ Gaps' = IF link = "held" THEN Gaps ELSE {}
    BY <1>4, HeldFresh
  <2>2. Fresh # {} => Min(Fresh) \in Fresh /\ Max(Fresh) \in Fresh
    BY FreshOnes
  <2>3. LlmShape(llm)' /\ (llm.last_fresh_at \in Nat \union {None})'
    BY <1>2, <1>3, <1>4 DEF LinkOk, LlmShape
  <2>4. CASE link = "held"
    BY <1>2, <1>3, <2>1, <2>2, <2>3, <2>4 DEF LinkOk
  <2>5. CASE link = "offline"
    BY <1>2, <1>3, <2>1, <2>3, <2>5 DEF LinkOk
  <2> QED
    BY <1>4, <2>4, <2>5
<1>5. CASE link = "fresh"
  <2>1. /\ n \in Nat /\ Fresh' = Fresh \union {n} /\ observed'[n].at = time
        /\ \A i \in Fresh : i < n /\ observed'[i] = observed[i]
        /\ Gaps' = IF Fresh = {} THEN {}
                   ELSE Gaps \union {Lower(time - observed[Max(Fresh)].at, MaxInterval)}
    BY <1>5, FreshGrows
  <2>2. Fresh \subseteq Nat /\ IsFiniteSet(Fresh)
    BY FreshOnes
  <2>3. LlmShape(llm)' /\ llm'.last_fresh_at = time /\ llm'.was_connected
    BY <1>2, <1>3, <1>5 DEF LlmShape
  <2>4. Fresh' # {} /\ Fresh' \subseteq Nat
    BY <2>1, <2>2
  <2>5. Max(Fresh') = n
    BY <2>1, <2>2, <2>4, MaxIs
  <2>6. CASE Fresh = {}
    <3>1. Min(Fresh') = n
      BY <2>1, <2>4, <2>6, MinMember
    <3>2. llm'.connected_since = time /\ llm'.connected_flash_until = time + Flash
          /\ llm'.sample_interval = None
      BY <1>2, <1>3, <1>5, <2>6 DEF LinkOk
    <3> QED
      BY <1>1, <2>1, <2>3, <2>4, <2>5, <2>6, <3>1, <3>2 DEF LinkOk
  <2>7. CASE Fresh # {}
    <3> DEFINE m == Max(Fresh)
               c == Lower(time - observed[m].at, MaxInterval)
    <3>1. m \in Fresh /\ Min(Fresh) \in Fresh /\ \A i \in Fresh : Min(Fresh) <= i
      BY <2>7, FreshOnes
    <3>2. Min(Fresh') = Min(Fresh)
      <4> DEFINE low == Min(Fresh)
                 least == Min(Fresh')
      <4>1. least \in Fresh' /\ \A y \in Fresh' : least <= y
        BY <2>4, MinMember
      <4>2. low \in Fresh /\ \A y \in Fresh : low <= y
        BY <3>1
      <4> HIDE DEF low, least
      <4>3. low \in Fresh' /\ \A y \in Fresh' : low <= y
        BY <2>1, <2>2, <4>2
      <4>4. low \in Nat /\ least \in Nat /\ low <= least /\ least <= low
        BY <2>4, <4>1, <4>3
      <4>5. least = low
        BY <4>4
      <4> QED
        BY <4>5 DEF least, low
    <3>3. /\ llm.was_connected /\ llm.connected_since = observed[Min(Fresh)].at
          /\ llm.connected_flash_until = llm.connected_since + Flash
          /\ llm.last_fresh_at = observed[m].at
          /\ llm.sample_interval = IF Gaps = {} THEN None ELSE <<Min(Gaps), Max(Gaps)>>
      BY <2>7 DEF LinkOk
    <3>4. /\ llm'.connected_since = llm.connected_since
          /\ llm'.connected_flash_until = llm.connected_flash_until
          /\ llm'.sample_interval =
               smooth_llm_sample_interval(llm.sample_interval, time - observed[m].at)
      BY <1>2, <1>3, <1>5, <3>3
    <3>5. observed[m].at \in Nat /\ time - observed[m].at > 0
      <4>1. m \in Of("llm")
        BY <3>1, FreshOnes
      <4>2. observed[m].at \in Nat
        BY <4>1, Reported DEF Sources
      <4>3. observed[m].at < time
        BY <4>1 DEF Longer
      <4> QED
        BY <1>1, <4>2, <4>3
    <3> HIDE DEF m
    <3>6. c \in Nat /\ Gaps' = Gaps \union {c}
      BY <1>1, <2>1, <2>7, <3>5, HistoryAssumption DEF Lower, m
    <3>7. llm'.sample_interval = <<Min(Gaps'), Max(Gaps')>>
      <4> DEFINE d == time - observed[m].at
      <4>1. d \in Int /\ d > 0 /\ c = Lower(d, MaxInterval)
        BY <1>1, <3>5
      <4> HIDE DEF c, d
      <4>2. CASE Gaps = {}
        <5>1. Min({c}) = c /\ Max({c}) = c
          BY <3>6, MinMember, MaxIs
        <5>2. llm'.sample_interval = <<c, c>>
          BY <3>3, <3>4, <4>1, <4>2 DEF smooth_llm_sample_interval, d
        <5> QED
          BY <3>6, <4>2, <5>1, <5>2
      <4>3. CASE Gaps # {}
        <5> DEFINE low == Min(Gaps)
                   high == Max(Gaps)
        <5>1. low \in Nat /\ high \in Nat /\ Gaps \subseteq Nat /\ IsFiniteSet(Gaps)
          BY <4>3, GapsAreShort
        <5>2. Min(Gaps \union {c}) = Lower(low, c) /\ Max(Gaps \union {c}) = IF high > c THEN high ELSE c
          BY <3>6, <4>3, <5>1, BoundsGrow
        <5>3. llm.sample_interval = <<low, high>>
          BY <3>3, <4>3
        <5> HIDE DEF low, high
        <5>4. <<low, high>> # None
          BY <5>1, HistoryAssumption
        <5>5. smooth_llm_sample_interval(<<low, high>>, d) =
                <<Lower(low, c), IF high > c THEN high ELSE c>>
          BY <4>1, <5>4 DEF smooth_llm_sample_interval
        <5> QED
          BY <3>4, <3>6, <5>2, <5>3, <5>5 DEF d
      <4> QED
        BY <4>2, <4>3
    <3>8. Gaps' # {}
      BY <3>6
    <3> QED
      BY <1>1, <2>1, <2>3, <2>4, <2>5, <3>1, <3>2, <3>3, <3>4, <3>7, <3>8 DEF LinkOk
  <2> QED
    BY <2>6, <2>7
<1> QED
  BY <1>4, <1>5 DEF Links

LEMMA ObservedStep ==
  ASSUME ObservedOk, [HistoryNext]_historyVars
  PROVE  ObservedOk'
<1>1. CASE UNCHANGED historyVars
  <2>1. observed' = observed /\ time' = time
    BY <1>1 DEF historyVars
  <2> QED
    BY <2>1 DEF ObservedOk
<1>2. CASE PassTime
  <2>1. observed' = observed /\ time' = time + 1 /\ time \in Nat
    BY <1>2 DEF PassTime, ObservedOk
  <2>2. \A i \in DOMAIN observed : observed[i].at \in Nat
    BY Positions1 DEF Observation
  <2> QED
    BY <2>1, <2>2 DEF ObservedOk
<1>3. CASE push_sample
  <2>1. PICK value \in Percentages : Note("host", "fresh", value) /\ time' = time
    BY <1>3 DEF push_sample
  <2>2. value \in Int \union {None, NotFinite}
    BY HistoryAssumption
  <2> QED
    BY <2>1, <2>2, Noted DEF Sources, Links
<1>4. CASE record_sample
  <2>1. PICK link \in Links, value \in Rates, metrics \in BOOLEAN :
          Note("llm", link, IF metrics THEN value ELSE None) /\ time' = time
    BY <1>4 DEF record_sample, Links
  <2>2. (IF metrics THEN value ELSE None) \in Int \union {None, NotFinite}
    BY HistoryAssumption
  <2> QED
    BY <2>1, <2>2, Noted DEF Sources
<1> QED
  BY <1>1, <1>2, <1>3, <1>4 DEF HistoryNext

LEMMA LinkStep ==
  ASSUME ObservedOk, LinkOk, [HistoryNext]_historyVars
  PROVE  LinkOk'
<1>1. ASSUME observed' = observed, llm' = llm PROVE LinkOk'
  <2>1. Of("llm")' = Of("llm")
    BY <1>1 DEF Of
  <2> QED
    BY <1>1, <2>1, SameSamples
<1>2. CASE UNCHANGED historyVars
  BY <1>1, <1>2 DEF historyVars
<1>3. CASE PassTime
  BY <1>1, <1>3 DEF PassTime
<1>4. CASE push_sample
  <2>1. PICK value \in Percentages : Note("host", "fresh", value) /\ time' = time /\ llm' = llm
    BY <1>4 DEF push_sample
  <2>2. value \in Int \union {None, NotFinite}
    BY HistoryAssumption
  <2>3. PICK n : Longer(n, "host", "fresh", value)
    BY <2>1, <2>2, Noted DEF Sources, Links
  <2>4. Of("llm")' = Of("llm") /\ \A i \in Of("llm") : observed'[i] = observed[i]
    BY <2>3 DEF Longer, Sources, Of
  <2> QED
    BY <2>1, <2>4, SameSamples
<1>5. CASE record_sample
  <2>1. PICK link \in Links, value \in Rates, metrics \in BOOLEAN :
          /\ Note("llm", link, IF metrics THEN value ELSE None) /\ time' = time
          /\ llm' = observe_llm_into(llm, [link |-> link, metrics_available |-> metrics,
                                          value |-> value], time)
    BY <1>5 DEF record_sample, Links
  <2> DEFINE shown == IF metrics THEN value ELSE None
             sample == [link |-> link, metrics_available |-> metrics, value |-> value]
  <2>2. shown \in Int \union {None, NotFinite}
    BY HistoryAssumption
  <2>3. sample.link = link
    OBVIOUS
  <2> HIDE DEF shown, sample
  <2>4. PICK n : Longer(n, "llm", link, shown)
    BY <2>1, <2>2, Noted DEF Sources, shown
  <2> QED
    BY <2>1, <2>3, <2>4, Observed DEF sample
<1> QED
  BY <1>2, <1>3, <1>4, <1>5 DEF HistoryNext

LEMMA LinkTells ==
  ASSUME ObservedOk, LinkOk
  PROVE  LinkIsContinuous
<1> DEFINE seen == Of("llm")
           link == IF seen = {} THEN "offline" ELSE observed[Max(seen)].link
           text == llm_last_sample_text(llm, link, time)
           overview == overview_sample_text(llm, link, time)
           uptime == llm_uptime_text(llm, time)
<1>1. time \in Nat /\ None \notin Int /\ Flash \in Nat
  BY HistoryAssumption DEF ObservedOk
<1>2. link = "fresh" => Fresh # {}
  <2> SUFFICES ASSUME link = "fresh" PROVE Fresh # {}
    OBVIOUS
  <2>1. seen # {} /\ observed[Max(seen)].link = "fresh"
    OBVIOUS
  <2>2. seen \subseteq Int /\ IsFiniteSet(seen)
    BY Reported DEF Sources
  <2>3. Max(seen) \in seen /\ \A j \in seen : Max(seen) >= j
    BY <2>1, <2>2, MaxOfFinite
  <2>4. \A j \in seen : observed[j].link = "offline" => j # Max(seen)
    BY <2>1
  <2> DEFINE m == Max(seen)
  <2>5. m \in seen /\ observed[m].link = "fresh" /\ \A j \in seen : observed[j].link = "offline" => j < m
    BY <2>1, <2>2, <2>3, <2>4
  <2> HIDE DEF m
  <2> QED
    BY <2>5 DEF Fresh
<1>3. link \in Links
  <2>1. seen # {} => Max(seen) \in seen
    BY Reported, MaxOfFinite, seen \subseteq Int DEF Sources
  <2>2. \A i \in seen : observed[i].link \in Links
    BY Reported DEF Sources, Observation
  <2> QED
    BY <2>1, <2>2 DEF Links
<1>4. Fresh # {} => /\ Min(Fresh) \in Fresh /\ observed[Min(Fresh)].at \in Nat
                    /\ observed[Max(Fresh)].at \in Nat
  BY FreshOnes, Reported DEF Sources
<1>5. uptime = IF Fresh = {} THEN None ELSE time - observed[Min(Fresh)].at
  BY <1>1, <1>4 DEF llm_uptime_text, LinkOk
<1>6. Gaps # {} => Fresh # {}
  BY DEF Gaps
<1>7. ASSUME link = "fresh"
      PROVE  /\ text = IF Gaps # {} THEN [average |-> <<Min(Gaps), Max(Gaps)>>]
                       ELSE [age |-> time - llm.last_fresh_at]
             /\ text = overview
  <2>1. /\ llm.sample_interval = IF Gaps = {} THEN None ELSE <<Min(Gaps), Max(Gaps)>>
        /\ llm.last_fresh_at \in Nat /\ llm.last_fresh_at # None
    BY <1>1, <1>2, <1>4, <1>7 DEF LinkOk
  <2>2. Gaps # {} => <<Min(Gaps), Max(Gaps)>> # None
    <3>1. Gaps # {} => Min(Gaps) \in Int /\ Max(Gaps) \in Int
      BY GapsAreShort
    <3> QED
      BY <3>1, HistoryAssumption
  <2>3. time - llm.last_fresh_at # None
    BY <1>1, <2>1
  <2> HIDE DEF link
  <2> QED
    BY <1>7, <2>1, <2>2, <2>3
       DEF llm_last_sample_text, overview_sample_text, server_sample_age_ms
<1>8. ASSUME link # "fresh"
      PROVE  /\ text = IF llm.last_fresh_at = None THEN None ELSE [age |-> time - llm.last_fresh_at]
             /\ overview = IF llm.last_fresh_at = None THEN None
                           ELSE IF link = "held" THEN [stale |-> time - llm.last_fresh_at]
                           ELSE [age |-> time - llm.last_fresh_at]
  <2>1. llm.last_fresh_at # None => time - llm.last_fresh_at # None
    BY <1>1 DEF LinkOk
  <2> HIDE DEF link
  <2> QED
    BY <1>8, <2>1 DEF llm_last_sample_text, overview_sample_text, server_sample_age_ms
<1> HIDE DEF link, text, overview, uptime
<1>9. text # None /\ "average" \in DOMAIN text => Gaps # {} /\ text.average = <<Min(Gaps), Max(Gaps)>>
  <2>1. CASE link = "fresh"
    BY <1>7, <2>1
  <2>2. CASE link # "fresh"
    BY <1>8, <2>2
  <2> QED
    BY <2>1, <2>2
<1>10. link = "fresh" => ("average" \in DOMAIN text <=> Gaps # {})
  BY <1>7
<1>11. llm_link_status(llm, link, time) = "CONNECTED" => uptime <= Flash
  <2> SUFFICES ASSUME llm_link_status(llm, link, time) = "CONNECTED" PROVE uptime <= Flash
    OBVIOUS
  <2>1. link = "fresh"
    BY <1>3 DEF llm_link_status, Links
  <2>2. time <= llm.connected_flash_until
    BY <2>1 DEF llm_link_status
  <2>3. /\ llm.connected_flash_until = observed[Min(Fresh)].at + Flash
        /\ uptime = time - observed[Min(Fresh)].at /\ observed[Min(Fresh)].at \in Nat
    BY <1>2, <1>4, <1>5, <2>1 DEF LinkOk
  <2> QED
    BY <1>1, <2>2, <2>3
<1>12. overview = text \/ (link = "held" /\ overview = [stale |-> text.age])
  <2>1. CASE link = "fresh"
    BY <1>7, <2>1
  <2>2. CASE link # "fresh"
    <3>1. CASE llm.last_fresh_at # None /\ link = "held"
      <4>1. text.age = time - llm.last_fresh_at
        BY <1>8, <2>2, <3>1
      <4> QED
        BY <1>8, <2>2, <3>1, <4>1
    <3> QED
      BY <1>8, <2>2, <3>1
  <2> QED
    BY <2>1, <2>2
<1> QED
  BY <1>5, <1>9, <1>10, <1>11, <1>12
     DEF LinkIsContinuous, Fresh, Gaps, text, overview, uptime, link

LEMMA HistoryStarts ==
  ASSUME HistoryInit
  PROVE  ObservedOk /\ LinkOk
<1>1. observed = <<>> /\ time = 0
  BY DEF HistoryInit
<1>2. DOMAIN observed = {}
  BY <1>1
<1>3. ObservedOk
  BY <1>1, <1>2, EmptySeq DEF ObservedOk
<1>4. Fresh = {}
  BY <1>2 DEF Fresh, Of
<1>5. LinkOk
  BY <1>4 DEF HistoryInit, LinkOk, LlmShape
<1> QED
  BY <1>3, <1>5

\* The uptime, the average and the age that are shown of the selected server are those
\* of its connection, whatever it does and whenever it is painted (LinkIsContinuous).
THEOREM LinkSafe == HistorySpec => []LinkIsContinuous
<1>1. HistoryInit => ObservedOk /\ LinkOk
  BY HistoryStarts
<1>2. ObservedOk /\ LinkOk /\ [HistoryNext]_historyVars => (ObservedOk /\ LinkOk)'
  BY ObservedStep, LinkStep
<1>3. ObservedOk /\ LinkOk => LinkIsContinuous
  BY LinkTells
<1> QED
  BY <1>1, <1>2, <1>3, PTL DEF HistorySpec

-----------------------------------------------------------------------------
(* The graphs.                                                             *)

Point == [at : Nat, value : Nat]

\* The points of a history are readings at ascending positions.
Follows(h, f, obs, known) ==
  /\ h \in Seq(Point) /\ f \in [1 .. Len(h) -> known]
  /\ \A j, k \in 1 .. Len(h) : j < k => f[j] < f[k]
  /\ \A k \in 1 .. Len(h) : h[k].at = obs[f[k]].at /\ h[k].value = Shown(obs[f[k]])

Later(known, i) == {j \in known : j > i}

\* A reading that has no point is out of the window or displaced, and those after a
\* point all have one.
Complete(h, f, obs, known, present) ==
  /\ \A i \in known : \/ \E k \in 1 .. Len(h) : f[k] = i
                      \/ present - obs[i].at > HISTORY_WINDOW
                      \/ Cardinality(Later(known, i)) >= HISTORY_MAX_SAMPLES
  /\ \A i \in known, k \in 1 .. Len(h) : f[k] <= i => \E l \in 1 .. Len(h) : f[l] = i

Readings(obs, known, present) ==
  /\ known \subseteq Nat /\ IsFiniteSet(known) /\ present \in Nat
  /\ \A i \in known : obs[i].at \in Nat /\ obs[i].at <= present /\ Shown(obs[i]) \in Nat
  /\ \A i, j \in known : i < j => obs[i].at < obs[j].at

TracksBy(h, f, obs, known, present) ==
  Follows(h, f, obs, known) /\ Complete(h, f, obs, known, present)

Tracks(h, obs, known, present) ==
  Len(h) <= HISTORY_MAX_SAMPLES /\ \E f : TracksBy(h, f, obs, known, present)

LEMMA PointsOf ==
  ASSUME NEW h \in Seq(Point)
  PROVE  /\ Len(h) \in Nat /\ DOMAIN h = 1 .. Len(h)
         /\ \A k \in 1 .. Len(h) : h[k] \in Point /\ h[k].at \in Nat /\ h[k].value \in Nat
<1>1. \A p \in Point : p.at \in Nat /\ p.value \in Nat
  BY DEF Point
<1> QED
  BY <1>1, LenProperties, ElementOfSeq

\* As many readings as there are points come after a point.
LEMMA LaterPoints ==
  ASSUME NEW h, NEW f, NEW obs, NEW known, known \subseteq Nat, IsFiniteSet(known),
         Follows(h, f, obs, known), NEW k \in 1 .. Len(h)
  PROVE  /\ Cardinality(Later(known, f[k])) \in Nat
         /\ Cardinality(Later(known, f[k])) >= Len(h) - k
         /\ (\A i \in known : f[k] <= i => \E l \in 1 .. Len(h) : f[l] = i) =>
              Cardinality(Later(known, f[k])) <= Len(h) - k
<1>1. /\ Len(h) \in Nat /\ f \in [1 .. Len(h) -> known]
      /\ \A j, l \in 1 .. Len(h) : j < l => f[j] < f[l]
      /\ \A l \in 1 .. Len(h) : f[l] \in Nat
  BY PointsOf DEF Follows
<1> DEFINE I == (k + 1) .. Len(h)
           T == Later(known, f[k])
           g == [l \in I |-> f[l]]
<1>2. IsFiniteSet(I) /\ Cardinality(I) = Len(h) - k
  BY <1>1, FS_Interval, k + 1 \in Int, Len(h) \in Int
<1>3. IsFiniteSet(T) /\ Cardinality(T) \in Nat
  <2>1. T \subseteq known
    BY DEF Later
  <2> QED
    BY <2>1, FS_Subset, FS_CardinalityType
<1>4. \A l \in I : l \in 1 .. Len(h) /\ k < l /\ f[l] \in T
  BY <1>1 DEF Later
<1>5. g \in Injection(I, T)
  <2>1. \A j, l \in I : f[j] = f[l] => j = l
    BY <1>1, <1>4
  <2> HIDE DEF I, T
  <2> QED
    BY <1>4, <2>1 DEF Injection, IsInjective
<1>6. Cardinality(I) <= Cardinality(T)
  <2> HIDE DEF I, T, g
  <2> QED
    BY <1>3, <1>5, FS_Injection
<1>7. ASSUME \A i \in known : f[k] <= i => \E l \in 1 .. Len(h) : f[l] = i
      PROVE  Cardinality(T) <= Len(h) - k
  <2>1. ASSUME NEW i \in T PROVE \E l \in I : f[l] = i
    <3>1. i \in known /\ i > f[k] /\ i \in Nat
      BY DEF Later
    <3>2. PICK l \in 1 .. Len(h) : f[l] = i
      BY <1>1, <1>7, <3>1
    <3>3. l > k
      BY <1>1, <3>1, <3>2
    <3> QED
      BY <1>1, <3>2, <3>3
  <2>2. g \in Surjection(I, T)
    <3> HIDE DEF I, T
    <3> QED
      BY <1>4, <2>1 DEF Surjection
  <2> HIDE DEF I, T, g
  <2>3. Cardinality(T) <= Cardinality(I)
    BY <1>2, <2>2, FS_Surjection
  <2> QED
    BY <1>2, <2>3
<1> QED
  BY <1>2, <1>3, <1>6, <1>7

LEMMA SameReadings ==
  ASSUME NEW h, NEW obs, NEW known, NEW present, Readings(obs, known, present),
         Tracks(h, obs, known, present),
         NEW obs2, \A i \in known : obs2[i] = obs[i], NEW later \in Nat, later >= present
  PROVE  Tracks(h, obs2, known, later)
<1>1. PICK f : TracksBy(h, f, obs, known, present)
  BY DEF Tracks
<1>2. Len(h) \in Nat /\ f \in [1 .. Len(h) -> known]
  BY <1>1, PointsOf DEF TracksBy, Follows
<1>3. Follows(h, f, obs2, known)
  BY <1>1, <1>2 DEF TracksBy, Follows
<1>4. \A i \in known : present - obs[i].at > HISTORY_WINDOW => later - obs2[i].at > HISTORY_WINDOW
  BY HistoryAssumption DEF Readings
<1>5. Complete(h, f, obs2, known, later)
  BY <1>1, <1>4 DEF TracksBy, Complete
<1> QED
  BY <1>3, <1>5 DEF TracksBy, Tracks

\* A reading has joined the known ones, as the newest.
Joined(obs2, n, obs, known, present, point) ==
  /\ Readings(obs, known, present) /\ n \in Nat
  /\ \A i \in known : i < n /\ obs2[i] = obs[i]
  /\ point \in Point /\ point.at = present /\ obs2[n].at = present /\ point.value = Shown(obs2[n])

LEMMA LongerTracks ==
  ASSUME NEW h, NEW f, NEW obs, NEW known, NEW present, TracksBy(h, f, obs, known, present),
         NEW obs2, NEW n, NEW point, Joined(obs2, n, obs, known, present, point),
         NEW g, g = [k \in 1 .. (Len(h) + 1) |-> IF k = Len(h) + 1 THEN n ELSE f[k]]
  PROVE  TracksBy(Append(h, point), g, obs2, known \union {n}, present)
<1> DEFINE long == Append(h, point)
           L == Len(h)
           all == known \union {n}
<1>1. /\ h \in Seq(Point) /\ L \in Nat /\ f \in [1 .. L -> known]
      /\ \A j, k \in 1 .. L : j < k => f[j] < f[k]
      /\ \A k \in 1 .. L : h[k].at = obs[f[k]].at /\ h[k].value = Shown(obs[f[k]])
  BY PointsOf DEF TracksBy, Follows
<1>2. /\ known \subseteq Nat /\ IsFiniteSet(known) /\ n \in Nat /\ point \in Point
      /\ \A i \in known : i < n /\ obs2[i] = obs[i]
      /\ point.at = obs2[n].at /\ point.value = Shown(obs2[n])
  BY DEF Joined, Readings
<1>3. /\ long \in Seq(Point) /\ Len(long) = L + 1
      /\ (\A k \in 1 .. L : long[k] = h[k]) /\ long[L + 1] = point
  BY <1>1, <1>2, AppendProperties
<1>4. \A k \in 1 .. L : g[k] = f[k]
  BY <1>1
<1>5. g[L + 1] = n
  BY <1>1
<1>6. \A k \in 1 .. (L + 1) : k \in 1 .. L \/ k = L + 1
  BY <1>1
<1>7. g \in [1 .. (L + 1) -> all]
  BY <1>1
<1>14. \A k \in 1 .. L : k \in 1 .. (L + 1)
  BY <1>1
<1> HIDE DEF long, L
<1>8. ASSUME NEW j \in 1 .. (L + 1), NEW k \in 1 .. (L + 1), j < k
      PROVE  g[j] < g[k]
  <2>1. j \in 1 .. L /\ f[j] \in known
    BY <1>1, <1>8
  <2>2. CASE k \in 1 .. L
    BY <1>1, <1>4, <1>8, <2>1, <2>2
  <2>3. CASE k = L + 1
    BY <1>2, <1>4, <1>5, <2>1, <2>3
  <2> QED
    BY <1>6, <2>2, <2>3
<1>9. ASSUME NEW k \in 1 .. (L + 1)
      PROVE  long[k].at = obs2[g[k]].at /\ long[k].value = Shown(obs2[g[k]])
  <2>1. CASE k \in 1 .. L
    <3>1. f[k] \in known /\ h[k].at = obs[f[k]].at /\ h[k].value = Shown(obs[f[k]])
      BY <1>1, <2>1
    <3>2. obs2[f[k]] = obs[f[k]]
      BY <1>2, <3>1
    <3>3. long[k] = h[k] /\ g[k] = f[k]
      BY <1>3, <1>4, <2>1
    <3> QED
      BY <3>1, <3>2, <3>3
  <2>2. CASE k = L + 1
    BY <1>2, <1>3, <1>5, <2>2
  <2> QED
    BY <1>6, <2>1, <2>2
<1>10. Follows(long, g, obs2, all)
  BY <1>3, <1>7, <1>8, <1>9 DEF Follows
<1>11. ASSUME NEW i \in all
       PROVE  \/ \E k \in 1 .. (L + 1) : g[k] = i
              \/ present - obs2[i].at > HISTORY_WINDOW
              \/ Cardinality(Later(all, i)) >= HISTORY_MAX_SAMPLES
  <2>1. CASE i = n
    BY <1>1, <1>5, <2>1
  <2>2. CASE i \in known
    <3>1. \/ \E k \in 1 .. L : f[k] = i
          \/ present - obs[i].at > HISTORY_WINDOW
          \/ Cardinality(Later(known, i)) >= HISTORY_MAX_SAMPLES
      BY <2>2 DEF TracksBy, Complete, L
    <3>2. ASSUME NEW k \in 1 .. L, f[k] = i PROVE k \in 1 .. (L + 1) /\ g[k] = i
      BY <1>4, <1>14, <3>2
    <3>3. obs2[i] = obs[i]
      BY <1>2, <2>2
    <3>4. Cardinality(Later(known, i)) <= Cardinality(Later(all, i))
      <4>1. Later(known, i) \subseteq Later(all, i) /\ Later(all, i) \subseteq all
        BY DEF Later
      <4>2. IsFiniteSet(all)
        BY <1>2, FS_AddElement
      <4>3. IsFiniteSet(Later(all, i))
        BY <4>1, <4>2, FS_Subset
      <4> QED
        BY <4>1, <4>3, FS_Subset
    <3>5. Cardinality(Later(known, i)) \in Nat /\ Cardinality(Later(all, i)) \in Nat
      <4>1. Later(known, i) \subseteq known /\ Later(all, i) \subseteq all /\ IsFiniteSet(all)
        BY <1>2, FS_AddElement DEF Later
      <4>2. IsFiniteSet(Later(known, i)) /\ IsFiniteSet(Later(all, i))
        BY <1>2, <4>1, FS_Subset
      <4> QED
        BY <4>2, FS_CardinalityType
    <3>6. CASE Cardinality(Later(known, i)) >= HISTORY_MAX_SAMPLES
      BY <3>4, <3>5, <3>6, HistoryAssumption
    <3> QED
      BY <3>1, <3>2, <3>3, <3>6
  <2> QED
    BY <2>1, <2>2
<1>12. ASSUME NEW i \in all, NEW k \in 1 .. (L + 1), g[k] <= i
       PROVE  \E l \in 1 .. (L + 1) : g[l] = i
  <2>1. CASE i = n
    BY <1>1, <1>5, <2>1
  <2>2. CASE i \in known
    <3>1. k \in 1 .. L
      <4>1. k # L + 1
        <5>1. i < n /\ i \in Nat /\ n \in Nat
          BY <1>2, <2>2
        <5>2. k = L + 1 => n <= i
          BY <1>5, <1>12
        <5> QED
          BY <5>1, <5>2
      <4> QED
        BY <1>6, <1>12, <4>1
    <3>2. PICK l \in 1 .. L : f[l] = i
      BY <1>4, <1>12, <2>2, <3>1 DEF TracksBy, Complete, L
    <3> QED
      BY <1>4, <1>14, <3>2
  <2> QED
    BY <2>1, <2>2
<1> HIDE DEF all
<1>13. Complete(long, g, obs2, all, present)
  BY <1>3, <1>11, <1>12 DEF Complete
<1> QED
  BY <1>10, <1>13 DEF TracksBy, long, all

\* From where pruning leaves a history: what goes before is out of the window, or there
\* are enough points after it.
LEMMA FrontOf ==
  ASSUME NEW h \in Seq(Point), h # <<>>, NEW present \in Nat, h[Len(h)].at = present
  PROVE  \E d \in 1 .. Len(h) :
           /\ Pruned(h, present) = SubSeq(h, d, Len(h))
           /\ Len(h) - d + 1 <= HISTORY_MAX_SAMPLES
           /\ \A k \in 1 .. (d - 1) : \/ present - h[k].at > HISTORY_WINDOW
                                     \/ k <= Len(h) - HISTORY_MAX_SAMPLES
<1> DEFINE L == Len(h)
           recent == {i \in DOMAIN h : present - h[i].at <= HISTORY_WINDOW}
           front == Min(recent \union {L + 1})
           limit == L - HISTORY_MAX_SAMPLES + 1
           d == Max({front, limit})
<1>1. /\ L \in Nat /\ DOMAIN h = 1 .. L /\ L # 0
      /\ \A k \in 1 .. L : h[k].at \in Nat
  BY PointsOf, EmptySeq
<1>2. HISTORY_WINDOW \in Nat /\ HISTORY_MAX_SAMPLES \in Nat /\ HISTORY_MAX_SAMPLES > 0
  BY HistoryAssumption
<1>3. L \in recent
  BY <1>1, <1>2
<1>4. front \in recent \union {L + 1} /\ \A y \in recent \union {L + 1} : front <= y
  <2>1. recent \union {L + 1} \subseteq Nat
    BY <1>1
  <2> HIDE DEF recent
  <2> QED
    BY <2>1, MinMember
<1> HIDE DEF front
<1>5. front \in 1 .. L /\ \A k \in 1 .. (front - 1) : present - h[k].at > HISTORY_WINDOW
  <2>1. front <= L
    BY <1>3, <1>4
  <2>2. front \in 1 .. L
    BY <1>1, <1>4, <2>1
  <2>3. ASSUME NEW k \in 1 .. (front - 1) PROVE present - h[k].at > HISTORY_WINDOW
    <3>1. k \in 1 .. L /\ k < front
      BY <1>1, <2>2
    <3>2. k \notin recent
      <4> SUFFICES ASSUME k \in recent PROVE FALSE
        OBVIOUS
      <4> HIDE DEF recent
      <4>1. front <= k
        BY <1>4
      <4>2. front \in Nat /\ k \in Nat
        BY <2>2, <3>1
      <4> QED
        BY <3>1, <4>1, <4>2
    <3>3. present - h[k].at \in Int
      BY <1>1, <3>1
    <3> QED
      BY <1>1, <1>2, <3>1, <3>2, <3>3
  <2> QED
    BY <2>2, <2>3
<1> HIDE DEF recent
<1>6. limit \in Int /\ limit <= L
  BY <1>1, <1>2
<1>7. d = IF front >= limit THEN front ELSE limit
  <2> HIDE DEF limit
  <2>1. front \in Int
    BY <1>5
  <2> QED
    BY <1>6, <2>1, MaxOfTwo
<1>8. Pruned(h, present) = SubSeq(h, d, L)
  BY DEF Pruned, front, recent
<1> HIDE DEF d
<1>9. d \in 1 .. L /\ L - d + 1 <= HISTORY_MAX_SAMPLES
  BY <1>1, <1>2, <1>5, <1>6, <1>7
<1>10. ASSUME NEW k \in 1 .. (d - 1)
       PROVE  present - h[k].at > HISTORY_WINDOW \/ k <= L - HISTORY_MAX_SAMPLES
  <2>1. CASE d = front
    BY <1>5, <2>1
  <2>2. CASE d = limit
    <3>1. k <= limit - 1
      BY <1>9, <2>2
    <3> QED
      BY <1>1, <1>2, <3>1
  <2> QED
    BY <1>7, <2>1, <2>2
<1> QED
  BY <1>8, <1>9, <1>10

LEMMA PrunedTracks ==
  ASSUME NEW h, NEW g, NEW obs, NEW all, NEW present, TracksBy(h, g, obs, all, present),
         Readings(obs, all, present), h # <<>>, h[Len(h)].at = present
  PROVE  Tracks(Pruned(h, present), obs, all, present)
<1> DEFINE L == Len(h)
<1>1. /\ h \in Seq(Point) /\ L \in Nat /\ DOMAIN h = 1 .. L /\ g \in [1 .. L -> all]
      /\ \A j, k \in 1 .. L : j < k => g[j] < g[k]
      /\ \A k \in 1 .. L : h[k].at = obs[g[k]].at /\ h[k].value = Shown(obs[g[k]])
      /\ \A k \in 1 .. L : h[k] \in Point
  BY PointsOf DEF TracksBy, Follows
<1>2. all \subseteq Nat /\ IsFiniteSet(all) /\ present \in Nat
  BY DEF Readings
<1>3. PICK d \in 1 .. L :
        /\ Pruned(h, present) = SubSeq(h, d, L)
        /\ L - d + 1 <= HISTORY_MAX_SAMPLES
        /\ \A k \in 1 .. (d - 1) : \/ present - h[k].at > HISTORY_WINDOW
                                  \/ k <= L - HISTORY_MAX_SAMPLES
  BY <1>1, <1>2, FrontOf
<1> DEFINE m == L - d + 1
           short == SubSeq(h, d, L)
           f == [k \in 1 .. m |-> g[d + k - 1]]
<1>4. m \in Nat /\ \A k \in 1 .. m : d + k - 1 \in 1 .. L
  BY <1>1, <1>3
<1>5. short \in Seq(Point) /\ Len(short) = m /\ \A k \in 1 .. m : short[k] = h[d + k - 1]
  <2>1. \A i \in d .. L : h[i] \in Point
    BY <1>1
  <2>2. d \in Int /\ L \in Int /\ d <= L
    BY <1>1
  <2> HIDE DEF L
  <2> QED
    BY <2>1, <2>2, SubSeqProperties
<1>6. \A k \in 1 .. m : f[k] = g[d + k - 1]
  OBVIOUS
<1>7. f \in [1 .. m -> all]
  BY <1>1, <1>4
<1> HIDE DEF f, short, L
<1>8. ASSUME NEW j \in 1 .. m, NEW k \in 1 .. m, j < k PROVE f[j] < f[k]
  <2>1. d + j - 1 < d + k - 1
    BY <1>3, <1>8
  <2> QED
    BY <1>1, <1>4, <1>6, <2>1
<1>9. ASSUME NEW k \in 1 .. m
      PROVE  short[k].at = obs[f[k]].at /\ short[k].value = Shown(obs[f[k]])
  BY <1>1, <1>4, <1>5, <1>6
<1>10. Follows(short, f, obs, all)
  BY <1>5, <1>7, <1>8, <1>9 DEF Follows
<1>11. ASSUME NEW k \in 1 .. L, k >= d PROVE k - d + 1 \in 1 .. m /\ f[k - d + 1] = g[k]
  <2>1. k - d + 1 \in 1 .. m /\ d + (k - d + 1) - 1 = k
    BY <1>1, <1>3, <1>11
  <2> QED
    BY <1>6, <2>1
<1>12. ASSUME NEW i \in all
       PROVE  \/ \E k \in 1 .. m : f[k] = i
              \/ present - obs[i].at > HISTORY_WINDOW
              \/ Cardinality(Later(all, i)) >= HISTORY_MAX_SAMPLES
  <2>1. \/ \E k \in 1 .. L : g[k] = i
        \/ present - obs[i].at > HISTORY_WINDOW
        \/ Cardinality(Later(all, i)) >= HISTORY_MAX_SAMPLES
    BY DEF TracksBy, Complete, L
  <2>2. ASSUME NEW k \in 1 .. L, g[k] = i, k < d
        PROVE  \/ present - obs[i].at > HISTORY_WINDOW
               \/ Cardinality(Later(all, i)) >= HISTORY_MAX_SAMPLES
    <3>1. k \in 1 .. (d - 1)
      BY <1>3, <2>2
    <3>2. CASE present - h[k].at > HISTORY_WINDOW
      BY <1>1, <2>2, <3>2
    <3>3. CASE k <= L - HISTORY_MAX_SAMPLES
      <4>1. Follows(h, g, obs, all)
        BY DEF TracksBy
      <4>2. /\ Cardinality(Later(all, g[k])) \in Nat
            /\ Cardinality(Later(all, g[k])) >= L - k
        BY <1>2, <4>1, LaterPoints DEF L
      <4>3. L - k >= HISTORY_MAX_SAMPLES
        BY <1>1, <3>3, HistoryAssumption
      <4> QED
        BY <1>1, <2>2, <4>2, <4>3, HistoryAssumption
    <3> QED
      BY <1>3, <3>1, <3>2, <3>3
  <2>3. ASSUME NEW k \in 1 .. L, g[k] = i, ~(k < d) PROVE \E l \in 1 .. m : f[l] = i
    <3>1. k >= d
      BY <1>3, <2>3
    <3> QED
      BY <1>11, <2>3, <3>1
  <2> QED
    BY <2>1, <2>2, <2>3
<1>13. ASSUME NEW i \in all, NEW k \in 1 .. m, f[k] <= i PROVE \E l \in 1 .. m : f[l] = i
  <2>1. d + k - 1 \in 1 .. L /\ g[d + k - 1] <= i
    BY <1>4, <1>6, <1>13
  <2>2. PICK l \in 1 .. L : g[l] = i
    BY <2>1 DEF TracksBy, Complete, L
  <2>3. l >= d
    <3> SUFFICES ASSUME l < d PROVE FALSE
      BY <1>3
    <3>1. l < d + k - 1
      BY <1>3
    <3>2. g[l] < g[d + k - 1]
      BY <1>1, <2>1, <3>1
    <3>3. g[l] \in Nat /\ g[d + k - 1] \in Nat
      BY <1>1, <1>2, <2>1
    <3> QED
      BY <2>1, <2>2, <3>2, <3>3
  <2> QED
    BY <1>11, <2>2, <2>3
<1>14. Complete(short, f, obs, all, present)
  BY <1>5, <1>12, <1>13 DEF Complete
<1> QED
  BY <1>3, <1>5, <1>10, <1>14 DEF TracksBy, Tracks, short, m

\* A reading that is stored becomes the newest point.
LEMMA PushTracks ==
  ASSUME NEW h, NEW obs, NEW known, NEW present, Tracks(h, obs, known, present),
         NEW obs2, NEW n, NEW point, Joined(obs2, n, obs, known, present, point),
         Readings(obs2, known \union {n}, present)
  PROVE  Tracks(Pruned(Append(h, point), present), obs2, known \union {n}, present)
<1>1. PICK f : TracksBy(h, f, obs, known, present)
  BY DEF Tracks
<1> DEFINE g == [k \in 1 .. (Len(h) + 1) |-> IF k = Len(h) + 1 THEN n ELSE f[k]]
           long == Append(h, point)
<1>2. TracksBy(long, g, obs2, known \union {n}, present)
  BY <1>1, LongerTracks
<1>3. h \in Seq(Point) /\ point \in Point /\ point.at = present
  BY <1>1 DEF TracksBy, Follows, Joined
<1>4. Len(long) = Len(h) + 1 /\ long[Len(h) + 1] = point /\ long \in Seq(Point) /\ Len(h) \in Nat
  BY <1>3, AppendProperties, PointsOf
<1>5. long # <<>> /\ long[Len(long)].at = present
  BY <1>3, <1>4, EmptySeq
<1> HIDE DEF g, long
<1>6. Tracks(Pruned(long, present), obs2, known \union {n}, present)
  BY <1>2, <1>5, PrunedTracks
<1> QED
  BY <1>6 DEF long

-----------------------------------------------------------------------------
\* The readings that a graph is about, seen from its points.
Kept(obs, known, present) ==
  {i \in known : /\ present - obs[i].at <= HISTORY_WINDOW
                 /\ Cardinality({j \in known : j > i}) < HISTORY_MAX_SAMPLES}

Recent(h, present) == {k \in DOMAIN h : present - h[k].at <= HISTORY_WINDOW}

LEMMA KeptAreRecent ==
  ASSUME NEW h, NEW f, NEW obs, NEW known, NEW present, Readings(obs, known, present),
         TracksBy(h, f, obs, known, present), Len(h) <= HISTORY_MAX_SAMPLES
  PROVE  Kept(obs, known, present) = {f[k] : k \in Recent(h, present)}
<1> DEFINE L == Len(h)
<1>1. /\ h \in Seq(Point) /\ L \in Nat /\ DOMAIN h = 1 .. L /\ f \in [1 .. L -> known]
      /\ \A k \in 1 .. L : h[k].at = obs[f[k]].at
  BY PointsOf DEF TracksBy, Follows
<1>2. \A i \in known : Cardinality(Later(known, i)) \in Nat
  <2>1. \A i \in known : Later(known, i) \subseteq known
    BY DEF Later
  <2> QED
    BY <2>1, FS_Subset, FS_CardinalityType DEF Readings
<1>3. \A i \in known : {j \in known : j > i} = Later(known, i)
  BY DEF Later
<1>4. ASSUME NEW i \in Kept(obs, known, present) PROVE i \in {f[k] : k \in Recent(h, present)}
  <2>1. /\ i \in known /\ present - obs[i].at <= HISTORY_WINDOW
        /\ Cardinality(Later(known, i)) < HISTORY_MAX_SAMPLES
    BY <1>3 DEF Kept
  <2> DEFINE at == obs[i].at
  <2>2. present - obs[i].at \in Int
    <3>1. at \in Nat /\ present \in Nat
      BY <2>1 DEF Readings
    <3> HIDE DEF at
    <3>2. present - at \in Int
      BY <3>1
    <3> QED
      BY <3>2 DEF at
  <2>3. ~(present - obs[i].at > HISTORY_WINDOW)
    BY <2>1, <2>2, HistoryAssumption
  <2>4. ~(Cardinality(Later(known, i)) >= HISTORY_MAX_SAMPLES)
    BY <1>2, <2>1, HistoryAssumption
  <2>5. PICK k \in 1 .. L : f[k] = i
    BY <2>1, <2>3, <2>4 DEF TracksBy, Complete
  <2> QED
    BY <1>1, <2>1, <2>5 DEF Recent
<1>5. ASSUME NEW k \in Recent(h, present) PROVE f[k] \in Kept(obs, known, present)
  <2>1. k \in 1 .. L /\ f[k] \in known /\ present - obs[f[k]].at <= HISTORY_WINDOW
    BY <1>1 DEF Recent
  <2>2. /\ Follows(h, f, obs, known) /\ known \subseteq Nat /\ IsFiniteSet(known)
        /\ \A i \in known : f[k] <= i => \E l \in 1 .. Len(h) : f[l] = i
    BY <2>1 DEF TracksBy, Complete, Readings
  <2>3. Cardinality(Later(known, f[k])) <= Len(h) - k
    BY <2>1, <2>2, LaterPoints
  <2>4. Cardinality(Later(known, f[k])) < HISTORY_MAX_SAMPLES
    BY <1>1, <1>2, <2>1, <2>3, HistoryAssumption
  <2> QED
    BY <1>3, <2>1, <2>4 DEF Kept
<1> QED
  BY <1>4, <1>5

\* The newest of some points is at the newest of their positions.
LEMMA NewestPoint ==
  ASSUME NEW h, NEW f, NEW obs, NEW known, known \subseteq Nat, Follows(h, f, obs, known),
         NEW S \in SUBSET (1 .. Len(h)), S # {}
  PROVE  Max(S) \in S /\ Max({f[k] : k \in S}) = f[Max(S)]
<1> DEFINE m == Max(S)
           T == {f[k] : k \in S}
<1>1. Len(h) \in Nat /\ f \in [1 .. Len(h) -> known]
      /\ \A j, k \in 1 .. Len(h) : j < k => f[j] < f[k]
  BY PointsOf DEF Follows
<1>2. IsFiniteSet(S) /\ S \subseteq Int
  <2>1. IsFiniteSet(1 .. Len(h))
    BY <1>1, FS_Interval, 1 \in Int, Len(h) \in Int
  <2>2. IsFiniteSet(S)
    BY <2>1, FS_Subset
  <2> QED
    BY <1>1, <2>2
<1>3. m \in S /\ \A y \in S : m >= y
  BY <1>2, MaxOfFinite
<1> HIDE DEF m
<1>4. \A k \in S : f[k] \in Nat /\ f[m] \in Nat /\ f[m] >= f[k]
  <2> SUFFICES ASSUME NEW k \in S PROVE f[k] \in Nat /\ f[m] \in Nat /\ f[m] >= f[k]
    OBVIOUS
  <2>1. k \in 1 .. Len(h) /\ m \in 1 .. Len(h) /\ (k < m \/ k = m)
    BY <1>2, <1>3
  <2>2. f[k] \in Nat /\ f[m] \in Nat
    BY <1>1, <2>1
  <2> QED
    BY <1>1, <2>1, <2>2
<1>5. T \subseteq Nat /\ f[m] \in T /\ \A y \in T : f[m] >= y
  BY <1>3, <1>4
<1> HIDE DEF T
<1>6. Max(T) = f[m]
  BY <1>5, MaxIs
<1> QED
  BY <1>3, <1>6 DEF m, T

\* What a column samples, of the kept readings that were taken by its time.
TakenBy(obs, known, present, x) ==
  {i \in Kept(obs, known, present) : obs[i].at <= present - HISTORY_WINDOW + TargetOf(x)}

ColumnShows(column, obs, by) ==
  IF by = {} THEN column = None ELSE Max(by) \in by /\ column = Shown(obs[Max(by)])

\* The column of a graph and the reading that it should show.
LEMMA ColumnTells ==
  ASSUME NEW h, NEW obs, NEW known, NEW present, Readings(obs, known, present),
         Tracks(h, obs, known, present), NEW x \in 0 .. (Width - 1)
  PROVE  ColumnShows(resample_history(h, present)[x], obs, TakenBy(obs, known, present, x))
<1>1. PICK f : TracksBy(h, f, obs, known, present)
  BY DEF Tracks
<1> DEFINE L == Len(h)
           by == TakenBy(obs, known, present, x)
           passed == {i \in DOMAIN h : LET age == present - h[i].at
                                      IN  /\ age <= HISTORY_WINDOW
                                          /\ HISTORY_WINDOW - age <= TargetOf(x)}
<1>2. /\ h \in Seq(Point) /\ L \in Nat /\ DOMAIN h = 1 .. L /\ f \in [1 .. L -> known]
      /\ \A k \in 1 .. L : /\ h[k].at = obs[f[k]].at /\ h[k].value = Shown(obs[f[k]])
                           /\ h[k].at \in Nat
  BY <1>1, PointsOf DEF TracksBy, Follows
<1>3. TargetOf(x) \in Int /\ HISTORY_WINDOW \in Nat /\ present \in Nat
  <2>1. HISTORY_WINDOW \in Nat /\ Width \in Nat \ {0} /\ present \in Nat
    BY HistoryAssumption DEF Readings
  <2>2. CASE Width = 1
    BY <2>1, <2>2 DEF TargetOf
  <2>3. CASE Width # 1
    <3> DEFINE a == x * HISTORY_WINDOW
               b == Width - 1
    <3>1. a \in Int /\ b \in Nat \ {0}
      BY <2>1, <2>3
    <3> HIDE DEF a, b
    <3>2. a \div b \in Int
      BY <3>1
    <3> QED
      BY <2>1, <2>3, <3>2 DEF TargetOf, a, b
  <2> QED
    BY <2>1, <2>2, <2>3
<1>4. \A k \in 1 .. L : k \in passed <=>
        k \in Recent(h, present) /\ obs[f[k]].at <= present - HISTORY_WINDOW + TargetOf(x)
  BY <1>2, <1>3 DEF Recent
<1>5. passed \subseteq 1 .. L
  BY <1>2
<1>6. resample_history(h, present)[x] = IF passed = {} THEN None ELSE h[Max(passed)].value
  BY DEF resample_history
<1> HIDE DEF passed
<1>7. Kept(obs, known, present) = {f[k] : k \in Recent(h, present)}
  BY <1>1, KeptAreRecent DEF Tracks
<1>8. by = {f[k] : k \in passed}
  <2>1. Recent(h, present) \subseteq 1 .. L
    BY <1>2 DEF Recent
  <2> QED
    BY <1>4, <1>5, <1>7, <2>1 DEF TakenBy
<1> HIDE DEF by
<1>9. CASE passed = {}
  BY <1>6, <1>8, <1>9 DEF ColumnShows, by
<1>10. CASE passed # {}
  <2>1. Follows(h, f, obs, known) /\ known \subseteq Nat
    BY <1>1 DEF TracksBy, Readings
  <2>2. Max(passed) \in passed /\ Max({f[k] : k \in passed}) = f[Max(passed)]
    BY <1>5, <1>10, <2>1, NewestPoint
  <2>3. Max(by) = f[Max(passed)] /\ Max(passed) \in 1 .. L
    BY <1>5, <1>8, <2>2
  <2>4. by # {} /\ Max(by) \in by
    BY <1>8, <2>2, <2>3
  <2>5. h[Max(passed)].value = Shown(obs[Max(by)])
    BY <1>2, <2>3
  <2> QED
    BY <1>6, <1>10, <2>4, <2>5 DEF ColumnShows, by
<1> QED
  BY <1>9, <1>10

\* Of the dots that a column fills: none without a reading or for one that is not
\* positive, and all for one that reaches the scale.
LEMMA DotsTell ==
  ASSUME NEW columns, NEW x \in DOMAIN columns, columns[x] \in Nat \union {None},
         NEW scale \in Nat \ {0}
  PROVE  LET dots == trend_lines_scaled(columns, scale)[x]
         IN  /\ dots > 0 <=> columns[x] # None /\ columns[x] > 0
             /\ columns[x] = scale => dots = Height
<1> DEFINE v == columns[x]
           b == 2 * scale
           a == 2 * Lower(v, scale) * Height + scale
           filled == a \div b
           dots == trend_lines_scaled(columns, scale)[x]
<1>1. dots = IF v = None THEN 0 ELSE IF v > 0 /\ filled = 0 THEN 1 ELSE filled
  BY DEF trend_lines_scaled
<1>2. Height \in Nat /\ Height > 0 /\ b \in Nat \ {0} /\ scale < b /\ None \notin Int
  BY HistoryAssumption
<1> HIDE DEF dots, filled
<1>3. CASE v = None
  BY <1>1, <1>2, <1>3 DEF dots
<1>4. CASE v # None
  <2>1. v \in Nat
    BY <1>4
  <2>2. a \in Nat
    BY <1>2, <2>1 DEF Lower
  <2>3. filled \in Nat
    <3> HIDE DEF a, b
    <3> QED
      BY <1>2, <2>2 DEF filled
  <2>4. v = 0 => filled = 0
    <3> SUFFICES ASSUME v = 0 PROVE filled = 0
      OBVIOUS
    <3>1. a = scale
      BY <1>2 DEF Lower
    <3> HIDE DEF a, b
    <3>2. scale \div b = 0
      BY <1>2
    <3> QED
      BY <3>1, <3>2 DEF filled
  <2>5. v = scale => filled = Height
    <3> SUFFICES ASSUME v = scale PROVE filled = Height
      OBVIOUS
    <3>1. a = b * Height + scale
      BY <1>2 DEF Lower
    <3> HIDE DEF a, b
    <3>2. (b * Height + scale) \div b = Height
      BY <1>2
    <3> QED
      BY <3>1, <3>2 DEF filled
  <2> HIDE DEF v
  <2> QED
    BY <1>1, <1>2, <1>4, <2>1, <2>3, <2>4, <2>5 DEF v, dots
<1> QED
  BY <1>3, <1>4

LEMMA VisibleAreKept ==
  ASSUME NEW h, NEW obs, NEW known, NEW present, Readings(obs, known, present),
         Tracks(h, obs, known, present)
  PROVE  /\ Visible(h, present) = {Shown(obs[i]) : i \in Kept(obs, known, present)}
         /\ Visible(h, present) \subseteq Nat /\ IsFiniteSet(Visible(h, present))
<1>1. PICK f : TracksBy(h, f, obs, known, present)
  BY DEF Tracks
<1> DEFINE kept == Kept(obs, known, present)
           L == Len(h)
           seen == [i \in kept |-> Shown(obs[i])]
<1>2. /\ DOMAIN h = 1 .. L
      /\ \A k \in 1 .. L : h[k].at = obs[f[k]].at /\ h[k].value = Shown(obs[f[k]])
  BY <1>1, PointsOf DEF TracksBy, Follows
<1>3. kept = {f[k] : k \in Recent(h, present)}
  BY <1>1, KeptAreRecent DEF Tracks
<1>4. Visible(h, present) = {h[k].value : k \in Recent(h, present)}
  BY DEF Visible, ToSet, Recent
<1>5. \A k \in Recent(h, present) : h[k].value = Shown(obs[f[k]])
  BY <1>2 DEF Recent
<1>6. Visible(h, present) = {Shown(obs[i]) : i \in kept}
  <2> HIDE DEF kept
  <2> QED
    BY <1>3, <1>4, <1>5
<1>7. kept \subseteq known
  BY DEF Kept
<1>8. IsFiniteSet(kept)
  BY <1>7, FS_Subset DEF Readings
<1>9. Visible(h, present) \subseteq Nat
  <2> HIDE DEF kept
  <2> QED
    BY <1>6, <1>7 DEF Readings
<1>10. seen \in Surjection(kept, Visible(h, present))
  <2> HIDE DEF kept
  <2> QED
    BY <1>6 DEF Surjection
<1> HIDE DEF kept, seen
<1>11. IsFiniteSet(Visible(h, present))
  BY <1>8, <1>10, FS_Surjection
<1> QED
  BY <1>6, <1>9, <1>11 DEF kept

\* The scale of a graph of rates.
LEMMA HighestVisible ==
  ASSUME NEW V \in SUBSET Nat, IsFiniteSet(V)
  PROVE  LET top == Max({Max(V \union {0}), UnitRate})
         IN  top = Max(V \union {UnitRate}) /\ top \in Nat \ {0} /\ UnitRate <= top
             /\ \A v \in V : v <= top
<1> DEFINE a == Max(V \union {0})
           b == Max(V \union {UnitRate})
<1>0. UnitRate \in Nat \ {0}
  BY DEF UnitRate
<1>1. IsFiniteSet(V \union {0}) /\ IsFiniteSet(V \union {UnitRate})
  BY FS_AddElement
<1>2. V \union {0} \subseteq Int /\ V \union {UnitRate} \subseteq Int
  BY <1>0
<1>3. a \in V \union {0} /\ \A y \in V \union {0} : a >= y
  BY <1>1, <1>2, MaxOfFinite
<1>4. b \in V \union {UnitRate} /\ \A y \in V \union {UnitRate} : b >= y
  BY <1>1, <1>2, MaxOfFinite
<1> HIDE DEF a, b
<1>5. a \in Nat /\ b \in Nat
  BY <1>0, <1>3, <1>4
<1>6. Max({a, UnitRate}) = IF a >= UnitRate THEN a ELSE UnitRate
  BY <1>0, <1>5, MaxOfTwo
<1>7. b = IF a >= UnitRate THEN a ELSE UnitRate
  BY <1>0, <1>3, <1>4, <1>5
<1>8. \A v \in V : v <= b
  BY <1>4, <1>5
<1> QED
  BY <1>0, <1>5, <1>6, <1>7, <1>8 DEF a, b

-----------------------------------------------------------------------------
(* The histories of the two sources, and what their graphs show.           *)

KnownOf(source) == {i \in Of(source) : Finite(observed[i].value)}
LastAt(source) == IF Of(source) = {} THEN None ELSE observed[Max(Of(source))].at

\* The histories of both sources are those of their finite readings.
HistoriesOk ==
  /\ host = [history |-> host.history, observed_at |-> host.observed_at]
  /\ Tracks(host.history, observed, KnownOf("host"), time)
  /\ host.observed_at = LastAt("host")
  /\ Tracks(llm.rate, observed, KnownOf("llm"), time)
  /\ llm.last_observed_at = LastAt("llm")

LEMMA ShownIsNatural ==
  ASSUME NEW o, o.of \in Sources, o.value \in Int
  PROVE  Shown(o) \in Nat
<1>1. CASE o.of = "host"
  BY <1>1 DEF Shown, clamp_percent
<1>2. CASE o.of # "host"
  <2>1. Max({o.value, 0}) = IF o.value >= 0 THEN o.value ELSE 0
    BY MaxOfTwo
  <2> QED
    BY <1>2, <2>1 DEF Shown
<1> QED
  BY <1>1, <1>2

LEMMA FiniteIsInteger ==
  ASSUME NEW value \in Int \union {None, NotFinite}
  PROVE  Finite(value) <=> value \in Int
BY HistoryAssumption DEF Finite

LEMMA KnownReadings ==
  ASSUME ObservedOk, NEW source \in Sources
  PROVE  Readings(observed, KnownOf(source), time) /\ KnownOf(source) \subseteq Of(source)
<1>1. KnownOf(source) \subseteq Of(source)
  BY DEF KnownOf
<1>2. /\ IsFiniteSet(Of(source)) /\ Of(source) \subseteq Nat
      /\ \A i \in Of(source) :
           observed[i] \in Observation /\ observed[i].at \in Nat /\ observed[i].at <= time
      /\ \A i, j \in Of(source) : i < j => observed[i].at < observed[j].at
  BY Reported
<1>3. IsFiniteSet(KnownOf(source))
  BY <1>1, <1>2, FS_Subset
<1>4. ASSUME NEW i \in KnownOf(source) PROVE Shown(observed[i]) \in Nat
  <2>1. observed[i] \in Observation
    BY <1>1, <1>2
  <2>2. observed[i].of \in Sources /\ observed[i].value \in Int \union {None, NotFinite}
    BY <2>1 DEF Observation
  <2>3. observed[i].value \in Int
    BY <2>2, FiniteIsInteger DEF KnownOf
  <2> QED
    BY <2>2, <2>3, ShownIsNatural
<1> QED
  BY <1>1, <1>2, <1>3, <1>4 DEF Readings, ObservedOk

\* The label is the last observation of the source, as long as that is a reading of
\* the window.
LEMMA LabelTells ==
  ASSUME ObservedOk, NEW source \in Sources,
         NEW h, Tracks(h, observed, KnownOf(source), time), NEW at, at = LastAt(source)
  PROVE  LET label == latest_history_value(h, at, time)
             last == observed[Max(Of(source))]
         IN  /\ label # None <=>
                  Of(source) # {} /\ Finite(last.value) /\ time - last.at <= HISTORY_WINDOW
             /\ label # None => label = Shown(last) /\ label \in Visible(h, time)
<1> DEFINE L == Len(h)
           label == latest_history_value(h, at, time)
           m == Max(Of(source))
<1>1. PICK f : TracksBy(h, f, observed, KnownOf(source), time)
  BY DEF Tracks
<1>2. /\ L \in Nat /\ DOMAIN h = 1 .. L /\ h \in Seq(Point)
      /\ \A k \in 1 .. L : h[k].at \in Nat /\ h[k].value \in Nat
      /\ \A k \in 1 .. L : /\ f[k] \in KnownOf(source)
                           /\ h[k].at = observed[f[k]].at /\ h[k].value = Shown(observed[f[k]])
  BY <1>1, PointsOf DEF TracksBy, Follows
<1>3. /\ \A j, k \in 1 .. L : j < k => f[j] < f[k]
      /\ \A i \in KnownOf(source) : \/ \E k \in 1 .. L : f[k] = i
                                  \/ time - observed[i].at > HISTORY_WINDOW
                                  \/ Cardinality(Later(KnownOf(source), i)) >= HISTORY_MAX_SAMPLES
  BY <1>1 DEF TracksBy, Follows, Complete
<1>4. KnownOf(source) \subseteq Of(source) /\ time \in Nat
  BY KnownReadings DEF Readings
<1>5. /\ IsFiniteSet(Of(source)) /\ Of(source) \subseteq Nat
      /\ \A i \in Of(source) : observed[i].at \in Nat /\ observed[i].at <= time
      /\ \A i, j \in Of(source) : i < j => observed[i].at < observed[j].at
  BY Reported
<1>6. h = <<>> => L = 0
  OBVIOUS
<1>7. h # <<>> => L \in 1 .. L /\ Last(h) = h[L]
  <2>1. h # <<>> => L # 0
    BY <1>2, EmptySeq
  <2> QED
    BY <1>2, <2>1 DEF Last
<1>8. label = IF h = <<>> THEN None
              ELSE IF /\ time - Last(h).at <= HISTORY_WINDOW
                      /\ at # None => Last(h).at >= at
              THEN Last(h).value ELSE None
  BY DEF latest_history_value
<1>9. None \notin Int /\ HISTORY_WINDOW \in Nat /\ HISTORY_MAX_SAMPLES \in Nat \ {0}
  BY HistoryAssumption
<1> HIDE DEF L, label, m
<1>10. CASE Of(source) = {}
  <2>1. h = <<>>
    BY <1>2, <1>4, <1>7, <1>10
  <2> QED
    BY <1>8, <1>10, <2>1 DEF label
<1>11. CASE Of(source) # {}
  <2>1. m \in Of(source) /\ \A i \in Of(source) : m >= i
    BY <1>5, <1>11, MaxOfFinite DEF m
  <2>2. at = observed[m].at /\ at \in Nat /\ at # None
    BY <1>5, <1>9, <1>11, <2>1 DEF LastAt, m
  <2>3. m \in KnownOf(source) <=> Finite(observed[m].value)
    BY <2>1 DEF KnownOf
  <2>4. m \in Nat /\ time \in Nat
    BY <1>4, <1>5, <2>1
  <2>5. Cardinality(Later(KnownOf(source), m)) = 0
    <3>1. Later(KnownOf(source), m) = {}
      BY <1>4, <1>5, <2>1, <2>4 DEF Later
    <3> QED
      BY <3>1, FS_EmptySet
  <2>6. CASE m \in KnownOf(source) /\ time - at <= HISTORY_WINDOW
    <3>1. PICK k \in 1 .. L : f[k] = m
      <4>1. \/ \E k \in 1 .. L : f[k] = m
            \/ time - at > HISTORY_WINDOW
            \/ Cardinality(Later(KnownOf(source), m)) >= HISTORY_MAX_SAMPLES
        BY <1>3, <2>2, <2>6
      <4>2. ~(time - at > HISTORY_WINDOW)
        BY <1>9, <2>2, <2>4, <2>6
      <4>3. ~(0 >= HISTORY_MAX_SAMPLES)
        BY <1>9
      <4> QED
        BY <2>5, <4>1, <4>2, <4>3
    <3>2. h # <<>>
      BY <1>2, <1>6, <3>1
    <3>3. L \in 1 .. L /\ f[L] \in Of(source)
      BY <1>2, <1>4, <1>7, <3>2
    <3>4. k = L
      <4>1. f[L] <= m /\ f[L] \in Nat
        BY <1>5, <2>1, <3>3
      <4>2. k < L => m < f[L]
        BY <1>3, <3>1, <3>3
      <4> QED
        BY <1>2, <2>4, <4>1, <4>2
    <3>5. Last(h).at = at /\ Last(h).value = Shown(observed[m]) /\ Last(h).value \in Nat
      BY <1>2, <1>7, <2>2, <3>1, <3>2, <3>3, <3>4
    <3>6. label = Shown(observed[m]) /\ label # None
      BY <1>8, <1>9, <2>2, <2>6, <3>2, <3>5
    <3>7. h[L] \in {s \in ToSet(h) : time - s.at <= HISTORY_WINDOW}
      BY <1>2, <1>7, <2>6, <3>2, <3>3, <3>5 DEF ToSet
    <3>8. label \in Visible(h, time)
      BY <1>7, <3>2, <3>5, <3>6, <3>7 DEF Visible
    <3> QED
      BY <1>11, <2>2, <2>3, <2>6, <3>6, <3>8 DEF label, m
  <2>7. CASE ~(m \in KnownOf(source) /\ time - at <= HISTORY_WINDOW)
    <3>1. label = None
      <4>1. CASE h = <<>>
        BY <1>8, <4>1
      <4>2. CASE h # <<>>
        <5>1. L \in 1 .. L /\ f[L] \in KnownOf(source) /\ Last(h).at = observed[f[L]].at
          BY <1>2, <1>7, <4>2
        <5>2. f[L] \in Of(source) /\ f[L] \in Nat /\ f[L] <= m
          BY <1>4, <1>5, <2>1, <5>1
        <5>3. Last(h).at \in Nat /\ Last(h).at <= at
          <6>1. CASE f[L] = m
            BY <2>2, <5>1, <6>1
          <6>2. CASE f[L] < m
            BY <1>5, <2>1, <2>2, <5>1, <5>2, <6>2
          <6> QED
            BY <2>4, <5>2, <6>1, <6>2
        <5>4. CASE m \notin KnownOf(source)
          <6>1. f[L] < m
            BY <2>4, <5>1, <5>2, <5>4
          <6>2. Last(h).at < at
            BY <1>5, <2>1, <2>2, <5>1, <5>2, <6>1
          <6> QED
            BY <1>8, <2>2, <5>3, <6>2
        <5>5. CASE time - at > HISTORY_WINDOW
          BY <1>8, <1>9, <2>2, <2>4, <5>3, <5>5
        <5> QED
          BY <1>9, <2>2, <2>4, <2>7, <5>4, <5>5
      <4> QED
        BY <4>1, <4>2
    <3> QED
      BY <1>11, <2>2, <2>3, <2>7, <3>1 DEF label, m
  <2> QED
    BY <2>6, <2>7
<1> QED
  BY <1>10, <1>11

\* What the dots of a column say of those readings, if the graph is drawn.
DotsShow(dots, obs, by, scale, active) ==
  LET value == IF by = {} THEN 0 ELSE Shown(obs[Max(by)])
  IN  /\ dots > 0 <=> active /\ value > 0
      /\ value = scale => dots = Height

\* A column of a graph on a fixed scale.
LEMMA DotsAreTrue ==
  ASSUME NEW h, NEW obs, NEW known, NEW present, Readings(obs, known, present),
         Tracks(h, obs, known, present), NEW scale \in Nat \ {0}, NEW x \in 0 .. (Width - 1)
  PROVE  DotsShow(trend_lines_scaled(resample_history(h, present), scale)[x], obs,
                  TakenBy(obs, known, present, x), scale, TRUE)
<1> DEFINE columns == resample_history(h, present)
           by == TakenBy(obs, known, present, x)
           dots == trend_lines_scaled(columns, scale)[x]
<1>1. x \in DOMAIN columns
  BY DEF resample_history
<1>2. IF by = {} THEN columns[x] = None
      ELSE Max(by) \in by /\ columns[x] = Shown(obs[Max(by)])
  BY ColumnTells DEF ColumnShows
<1>3. by # {} => Shown(obs[Max(by)]) \in Nat
  <2>1. by \subseteq known
    BY DEF Kept, TakenBy
  <2> QED
    BY <1>2, <2>1 DEF Readings
<1>4. columns[x] \in Nat \union {None} /\ None \notin Int
  BY <1>2, <1>3, HistoryAssumption
<1> HIDE DEF columns, by
<1>5. /\ dots > 0 <=> columns[x] # None /\ columns[x] > 0
      /\ columns[x] = scale => dots = Height
  BY <1>1, <1>4, DotsTell
<1> HIDE DEF dots
<1>6. CASE by = {}
  BY <1>2, <1>5, <1>6 DEF DotsShow, dots, columns, by
<1>7. CASE by # {}
  BY <1>2, <1>3, <1>4, <1>5, <1>7 DEF DotsShow, dots, columns, by
<1> QED
  BY <1>6, <1>7

\* The readings that GraphIsTrue speaks of.
LEMMA GraphOfKept ==
  ASSUME NEW source, NEW column, NEW top, NEW highest, NEW active,
         highest = IF top # None THEN top
                   ELSE Max({Shown(observed[i]) : i \in Kept(observed, KnownOf(source), time)}
                            \union {UnitRate}),
         active <=> \/ top # None
                    \/ \E i \in Kept(observed, KnownOf(source), time) :
                         Shown(observed[i]) > Inactive,
         LET last == observed[Max(Of(source))]
         IN  /\ column.label # None <=>
                  Of(source) # {} /\ Finite(last.value) /\ time - last.at <= HISTORY_WINDOW
             /\ column.label # None => column.label = Shown(last),
         \A x \in DOMAIN column.dots :
           DotsShow(column.dots[x], observed, TakenBy(observed, KnownOf(source), time, x),
                    highest, active)
  PROVE  GraphIsTrue(Of(source), column, top)
BY DEF GraphIsTrue, KnownOf, Kept, TakenBy, DotsShow

LEMMA HostGraph ==
  ASSUME ObservedOk, HistoriesOk
  PROVE  GraphIsTrue(Of("host"), draw_history_column(host.history, host.observed_at, time), 100)
<1> DEFINE column == draw_history_column(host.history, host.observed_at, time)
           known == KnownOf("host")
<1>1. Readings(observed, known, time) /\ Tracks(host.history, observed, known, time)
  BY KnownReadings DEF HistoriesOk, Sources
<1>2. /\ column.label = latest_history_value(host.history, host.observed_at, time)
      /\ column.dots = trend_lines_scaled(resample_history(host.history, time), 100)
      /\ DOMAIN column.dots = 0 .. (Width - 1)
  BY DEF draw_history_column, trend_lines_scaled, resample_history
<1>3. LET last == observed[Max(Of("host"))]
      IN  /\ column.label # None <=>
               Of("host") # {} /\ Finite(last.value) /\ time - last.at <= HISTORY_WINDOW
          /\ column.label # None => column.label = Shown(last)
  <2> HIDE DEF column
  <2> QED
    BY <1>2, LabelTells DEF HistoriesOk, Sources
<1>4. ASSUME NEW x \in DOMAIN column.dots
      PROVE  DotsShow(column.dots[x], observed, TakenBy(observed, known, time, x), 100, TRUE)
  <2> HIDE DEF column, known
  <2>1. 100 \in Nat \ {0}
    OBVIOUS
  <2>2. x \in 0 .. (Width - 1)
    BY <1>2, <1>4
  <2> QED
    BY <1>1, <1>2, <2>1, <2>2, DotsAreTrue
<1>5. 100 # None
  BY HistoryAssumption
<1> HIDE DEF column
<1>6. GraphIsTrue(Of("host"), column, 100)
  BY <1>3, <1>4, <1>5, GraphOfKept DEF known
<1> QED
  BY <1>6 DEF column

\* The scale of the rates is their largest, or 1.0.
LEMMA RateScale ==
  ASSUME ObservedOk, HistoriesOk
  PROVE  LET V == Visible(llm.rate, time)
             top == Max({history_max(llm.rate, time), UnitRate})
         IN  /\ V = {Shown(observed[i]) : i \in Kept(observed, KnownOf("llm"), time)}
             /\ top = Max(V \union {UnitRate}) /\ top \in Nat \ {0}
             /\ V \subseteq Nat /\ (\A v \in V : v <= top) /\ UnitRate <= top
<1>1. Readings(observed, KnownOf("llm"), time) /\ Tracks(llm.rate, observed, KnownOf("llm"), time)
  BY KnownReadings DEF HistoriesOk, Sources
<1>2. /\ Visible(llm.rate, time) = {Shown(observed[i]) : i \in Kept(observed, KnownOf("llm"), time)}
      /\ Visible(llm.rate, time) \subseteq Nat /\ IsFiniteSet(Visible(llm.rate, time))
  BY <1>1, VisibleAreKept
<1> DEFINE V == Visible(llm.rate, time)
<1>3. history_max(llm.rate, time) = Max(V \union {0})
  BY DEF history_max
<1> HIDE DEF V
<1>4. LET top == Max({Max(V \union {0}), UnitRate})
      IN  top = Max(V \union {UnitRate}) /\ top \in Nat \ {0} /\ UnitRate <= top
          /\ \A v \in V : v <= top
  BY <1>2, HighestVisible DEF V
<1> QED
  BY <1>2, <1>3, <1>4 DEF V

LEMMA RateGraph ==
  ASSUME ObservedOk, HistoriesOk
  PROVE  LET rate == draw_llm_rate_history_column(llm.rate, llm.last_observed_at, time)
         IN  /\ GraphIsTrue(Of("llm"), rate, None)
             /\ rate.label # None => rate.max >= rate.label
<1> DEFINE rate == draw_llm_rate_history_column(llm.rate, llm.last_observed_at, time)
           known == KnownOf("llm")
           V == Visible(llm.rate, time)
           top == Max({history_max(llm.rate, time), UnitRate})
           active == \E v \in V : v > Inactive
<1>1. Readings(observed, known, time) /\ Tracks(llm.rate, observed, known, time)
  BY KnownReadings DEF HistoriesOk, Sources
<1>2. /\ V = {Shown(observed[i]) : i \in Kept(observed, known, time)}
      /\ top = Max(V \union {UnitRate}) /\ top \in Nat \ {0}
      /\ V \subseteq Nat /\ \A v \in V : v <= top
  BY RateScale
<1>3. /\ rate.label = latest_history_value(llm.rate, llm.last_observed_at, time)
      /\ rate.max = IF rate.label = None THEN None ELSE top
      /\ rate.dots = IF active
                     THEN trend_lines_scaled(resample_history(llm.rate, time), top)
                     ELSE [x \in 0 .. (Width - 1) |-> 0]
      /\ DOMAIN rate.dots = 0 .. (Width - 1)
  BY DEF draw_llm_rate_history_column, draw_history_rate_column, trend_lines_scaled,
         resample_history, llm_rate_history_has_activity
<1>u. UnitRate <= top
  BY RateScale
<1> HIDE DEF rate, known, V, top
<1>4. LET last == observed[Max(Of("llm"))]
      IN  /\ rate.label # None <=>
               Of("llm") # {} /\ Finite(last.value) /\ time - last.at <= HISTORY_WINDOW
          /\ rate.label # None => rate.label = Shown(last) /\ rate.label \in V
  BY <1>3, LabelTells DEF HistoriesOk, Sources, V
<1>5. ASSUME NEW x \in DOMAIN rate.dots
      PROVE  DotsShow(rate.dots[x], observed, TakenBy(observed, known, time, x), top, active)
  <2> DEFINE by == TakenBy(observed, known, time, x)
  <2>1. x \in 0 .. (Width - 1)
    BY <1>3, <1>5
  <2>2. CASE active
    <3>1. rate.dots = trend_lines_scaled(resample_history(llm.rate, time), top)
      BY <1>3, <2>2
    <3>2. DotsShow(rate.dots[x], observed, by, top, TRUE)
      BY <1>1, <1>2, <2>1, <3>1, DotsAreTrue
    <3> HIDE DEF active
    <3> QED
      BY <2>2, <3>2 DEF DotsShow
  <2>3. CASE ~active
    <3>1. rate.dots[x] = 0
      BY <1>3, <2>1, <2>3
    <3>2. by # {} => Max(by) \in by
      BY <1>1, <2>1, ColumnTells DEF ColumnShows
    <3>3. by # {} => Shown(observed[Max(by)]) \in V
      BY <1>2, <3>2 DEF TakenBy
    <3> HIDE DEF by
    <3>4. by # {} => /\ Shown(observed[Max(by)]) \in Nat
                     /\ Shown(observed[Max(by)]) <= Inactive
      BY <1>2, <2>3, <3>3 DEF Inactive
    <3>5. Inactive < top
      BY <1>2, <1>u DEF Inactive, UnitRate
    <3>6. LET value == IF by = {} THEN 0 ELSE Shown(observed[Max(by)]) IN value # top
      BY <1>2, <3>4, <3>5 DEF Inactive
    <3> HIDE DEF active
    <3> QED
      BY <2>3, <3>1, <3>6 DEF DotsShow, by
  <2> QED
    BY <2>2, <2>3
<1>6. /\ top = Max({Shown(observed[i]) : i \in Kept(observed, KnownOf("llm"), time)}
                  \union {UnitRate})
      /\ active <=> \E i \in Kept(observed, KnownOf("llm"), time) : Shown(observed[i]) > Inactive
  BY <1>2 DEF known
<1> HIDE DEF active
<1>7. GraphIsTrue(Of("llm"), rate, None)
  BY <1>4, <1>5, <1>6, GraphOfKept DEF known
<1>8. rate.label # None => rate.max >= rate.label
  BY <1>2, <1>3, <1>4
<1> QED
  BY <1>7, <1>8 DEF rate

LEMMA HistoriesTell ==
  ASSUME ObservedOk, HistoriesOk
  PROVE  LabelIsCurrent
BY HostGraph, RateGraph DEF LabelIsCurrent

\* Without an observation of a source, its history stays right as time passes.
LEMMA UnmovedHistory ==
  ASSUME ObservedOk, NEW source \in Sources, Of(source)' = Of(source),
         \A i \in Of(source) : observed'[i] = observed[i], time' \in Nat, time' >= time,
         NEW h, Tracks(h, observed, KnownOf(source), time)
  PROVE  Tracks(h, observed', KnownOf(source)', time') /\ LastAt(source)' = LastAt(source)
<1>1. Readings(observed, KnownOf(source), time) /\ KnownOf(source) \subseteq Of(source)
  BY KnownReadings
<1>2. KnownOf(source)' = KnownOf(source)
  BY DEF KnownOf, Finite
<1>3. \A i \in KnownOf(source) : observed'[i] = observed[i]
  BY <1>1
<1>4. Tracks(h, observed', KnownOf(source), time')
  BY <1>1, <1>3, SameReadings
<1>5. LastAt(source)' = LastAt(source)
  <2>1. CASE Of(source) = {}
    BY <2>1 DEF LastAt
  <2>2. CASE Of(source) # {}
    <3>1. Max(Of(source)) \in Of(source)
      <4>1. IsFiniteSet(Of(source)) /\ Of(source) \subseteq Int
        BY Reported
      <4> QED
        BY <2>2, <4>1, MaxOfFinite
    <3> QED
      BY <2>2, <3>1 DEF LastAt
  <2> QED
    BY <2>1, <2>2
<1> QED
  BY <1>2, <1>4, <1>5

\* An observation with a reading adds its point, and one without adds none.
LEMMA MovedHistory ==
  ASSUME ObservedOk, NEW source \in Sources, NEW link \in Links,
         NEW value \in Int \union {None, NotFinite}, NEW n, Longer(n, source, link, value),
         time' = time, NEW h, Tracks(h, observed, KnownOf(source), time), NEW point,
         point = [at |-> time, value |-> Shown([of |-> source, at |-> time, link |-> link,
                                               value |-> value])]
  PROVE  /\ LastAt(source)' = time
         /\ Tracks(IF Finite(value) THEN Pruned(Append(h, point), time) ELSE h,
                   observed', KnownOf(source)', time')
<1> DEFINE o == [of |-> source, at |-> time, link |-> link, value |-> value]
           known == KnownOf(source)
<1>1. Readings(observed, known, time) /\ known \subseteq Of(source)
  BY KnownReadings
<1>2. /\ IsFiniteSet(Of(source)) /\ Of(source) \subseteq Nat /\ time \in Nat
      /\ \A i \in Of(source) : observed[i].at \in Nat /\ observed[i].at <= time
  BY Reported DEF ObservedOk
<1>3. /\ n \in Nat /\ Of(source)' = Of(source) \union {n} /\ observed'[n] = o
      /\ \A i \in Of(source) : i < n /\ observed'[i] = observed[i] /\ observed[i].at < time
  BY DEF Longer, Of
<1>4. LastAt(source)' = time
  <2>1. IsFiniteSet(Of(source) \union {n}) /\ Of(source) \union {n} \subseteq Int
    BY <1>2, <1>3, FS_AddElement
  <2>2. Max(Of(source) \union {n}) = n
    <3> DEFINE m == Max(Of(source) \union {n})
    <3>1. m \in Of(source) \union {n} /\ \A i \in Of(source) \union {n} : m >= i
      BY <2>1, MaxOfFinite
    <3> HIDE DEF m
    <3>2. m = n
      BY <1>2, <1>3, <3>1
    <3> QED
      BY <3>2 DEF m
  <2>3. Max(Of(source)') = n /\ Of(source)' # {}
    BY <1>3, <2>2
  <2> QED
    BY <1>3, <2>3 DEF LastAt
<1>5. KnownOf(source)' = IF Finite(value) THEN known \union {n} ELSE known
  BY <1>3 DEF KnownOf, Finite
<1>6. \A i \in known : i < n /\ observed'[i] = observed[i] /\ observed[i].at < time
  BY <1>1, <1>3
<1> HIDE DEF known
<1>7. CASE ~Finite(value)
  <2>1. Tracks(h, observed', known, time)
    BY <1>1, <1>2, <1>6, SameReadings DEF known
  <2> QED
    BY <1>4, <1>5, <1>7, <2>1
<1>8. CASE Finite(value)
  <2>1. value \in Int
    BY <1>8, FiniteIsInteger
  <2>2. Shown(o) \in Nat
    BY <2>1, ShownIsNatural
  <2>3. point \in Point /\ point.at = time /\ point.value = Shown(o) /\ observed'[n].at = time
    BY <1>2, <1>3, <2>2 DEF Point
  <2> HIDE DEF o
  <2>4. Joined(observed', n, observed, known, time, point)
    BY <1>1, <1>3, <1>6, <2>3 DEF Joined
  <2>5. Readings(observed', known \union {n}, time)
    <3>1. known \subseteq Nat /\ IsFiniteSet(known)
      BY <1>1 DEF Readings
    <3>2. IsFiniteSet(known \union {n}) /\ known \union {n} \subseteq Nat
      BY <1>3, <3>1, FS_AddElement
    <3>3. ASSUME NEW i \in known \union {n}
          PROVE  /\ observed'[i].at \in Nat /\ observed'[i].at <= time
                 /\ Shown(observed'[i]) \in Nat
      BY <1>1, <1>2, <1>3, <1>6, <2>2, <2>3 DEF Readings
    <3>4. ASSUME NEW i \in known \union {n}, NEW j \in known \union {n}, i < j
          PROVE  observed'[i].at < observed'[j].at
      <4>1. CASE j = n
        BY <1>3, <1>6, <2>3, <3>4, <4>1
      <4>2. CASE j # n
        <5>1. j \in known /\ j \in Nat
          BY <3>1, <4>2
        <5>2. i \in known
          BY <1>3, <1>6, <3>4, <5>1
        <5> QED
          BY <1>1, <1>6, <3>4, <5>1, <5>2 DEF Readings
      <4> QED
        BY <4>1, <4>2
    <3> QED
      BY <1>2, <3>2, <3>3, <3>4 DEF Readings
  <2>6. Tracks(Pruned(Append(h, point), time), observed', known \union {n}, time)
    BY <2>4, <2>5, PushTracks DEF known
  <2> QED
    BY <1>4, <1>5, <1>8, <2>6
<1> QED
  BY <1>7, <1>8

LEMMA HistoriesStep ==
  ASSUME ObservedOk, LinkOk, HistoriesOk, [HistoryNext]_historyVars
  PROVE  HistoriesOk'
<1>1. time \in Nat /\ "host" \in Sources /\ "llm" \in Sources
  BY DEF ObservedOk, Sources
<1>2. ASSUME observed' = observed, host' = host, llm' = llm, time' \in Nat, time' >= time
      PROVE  HistoriesOk'
  <2>1. \A s \in Sources : Of(s)' = Of(s)
    BY <1>2 DEF Of
  <2>2. /\ Tracks(host.history, observed', KnownOf("host")', time')
        /\ LastAt("host")' = LastAt("host")
    BY <1>1, <1>2, <2>1, UnmovedHistory DEF HistoriesOk
  <2>3. /\ Tracks(llm.rate, observed', KnownOf("llm")', time')
        /\ LastAt("llm")' = LastAt("llm")
    BY <1>1, <1>2, <2>1, UnmovedHistory DEF HistoriesOk
  <2> QED
    BY <1>2, <2>2, <2>3 DEF HistoriesOk
<1>3. CASE UNCHANGED historyVars
  BY <1>1, <1>2, <1>3 DEF historyVars
<1>4. CASE PassTime
  BY <1>1, <1>2, <1>4 DEF PassTime
<1>5. CASE push_sample
  <2>1. PICK value \in Percentages :
          /\ Note("host", "fresh", value) /\ time' = time /\ llm' = llm
          /\ host' = [history |-> push_history_at(host.history, value, time),
                      observed_at |-> time]
    BY <1>5 DEF push_sample
  <2>2. value \in Int \union {None, NotFinite}
    BY HistoryAssumption
  <2>3. PICK n : Longer(n, "host", "fresh", value)
    BY <2>1, <2>2, Noted DEF Sources, Links
  <2>4. Of("llm")' = Of("llm") /\ \A i \in Of("llm") : observed'[i] = observed[i]
    BY <2>3 DEF Longer, Sources, Of
  <2>5. /\ Tracks(llm.rate, observed', KnownOf("llm")', time')
        /\ LastAt("llm")' = LastAt("llm")
    BY <1>1, <2>1, <2>4, UnmovedHistory DEF HistoriesOk
  <2> DEFINE point == [at |-> time, value |-> clamp_percent(value)]
             pushed == push_history_at(host.history, value, time)
  <2>6. point = [at |-> time, value |-> Shown([of |-> "host", at |-> time, link |-> "fresh",
                                             value |-> value])]
    BY DEF Shown
  <2>7. pushed = IF Finite(value) THEN Pruned(Append(host.history, point), time)
                 ELSE host.history
    BY DEF push_history_at
  <2> HIDE DEF point, pushed
  <2>8. "fresh" \in Links
    BY DEF Links
  <2>9. Tracks(host.history, observed, KnownOf("host"), time)
    BY DEF HistoriesOk
  <2>10. /\ LastAt("host")' = time
         /\ Tracks(IF Finite(value) THEN Pruned(Append(host.history, point), time)
                   ELSE host.history, observed', KnownOf("host")', time')
    BY <1>1, <2>1, <2>2, <2>3, <2>6, <2>8, <2>9, MovedHistory
  <2>11. /\ Tracks(pushed, observed', KnownOf("host")', time')
         /\ host' = [history |-> pushed, observed_at |-> time]
    BY <2>1, <2>7, <2>10 DEF pushed
  <2> QED
    BY <2>1, <2>5, <2>10, <2>11 DEF HistoriesOk
<1>6. CASE record_sample
  <2>1. PICK link \in Links, value \in Rates, metrics \in BOOLEAN :
          /\ link # "fresh" => value = None /\ ~metrics
          /\ Note("llm", link, IF metrics THEN value ELSE None) /\ time' = time /\ host' = host
          /\ llm' = observe_llm_into(llm, [link |-> link, metrics_available |-> metrics,
                                          value |-> value], time)
    BY <1>6 DEF record_sample, Links
  <2> DEFINE shown == IF metrics THEN value ELSE None
             sample == [link |-> link, metrics_available |-> metrics, value |-> value]
             point == [at |-> time, value |-> IF shown > 0 THEN shown ELSE 0]
             seen == [of |-> "llm", at |-> time, link |-> link, value |-> shown]
             pushed == IF Finite(shown) THEN Pruned(Append(llm.rate, point), time)
                       ELSE llm.rate
  <2>2. shown \in Int \union {None, NotFinite}
    BY HistoryAssumption
  <2>3. llm'.rate = pushed /\ llm'.last_observed_at = time
    <3>1. LlmShape(llm) /\ sample.link \in Links
      BY DEF LinkOk
    <3>2. llm' = Told(llm, sample)
      BY <2>1, <3>1, ObserveTells
    <3>3. llm'.last_observed_at = time
      BY <3>2 DEF Told
    <3>4. llm'.rate = IF link = "fresh" /\ metrics
                      THEN push_metric_history_at(llm.rate, value, time) ELSE llm.rate
      BY <3>2 DEF Told
    <3>5. metrics => link = "fresh"
      BY <2>1
    <3>6. metrics => push_metric_history_at(llm.rate, value, time) = pushed
      BY DEF push_metric_history_at
    <3>7. ~metrics => pushed = llm.rate
      BY DEF Finite
    <3> QED
      BY <3>3, <3>4, <3>5, <3>6, <3>7
  <2>4. PICK n : Longer(n, "llm", link, shown)
    BY <1>1, <2>1, <2>2, Noted
  <2>5. Of("host")' = Of("host") /\ \A i \in Of("host") : observed'[i] = observed[i]
    BY <2>4 DEF Longer, Sources, Of
  <2>6. /\ Tracks(host.history, observed', KnownOf("host")', time')
        /\ LastAt("host")' = LastAt("host")
    BY <1>1, <2>1, <2>5, UnmovedHistory DEF HistoriesOk
  <2>7. Tracks(llm.rate, observed, KnownOf("llm"), time)
    BY DEF HistoriesOk
  <2> HIDE DEF shown, sample
  <2> DEFINE real == [at |-> time, value |-> Shown(seen)]
  <2>8. /\ LastAt("llm")' = time
        /\ Tracks(IF Finite(shown) THEN Pruned(Append(llm.rate, real), time) ELSE llm.rate,
                  observed', KnownOf("llm")', time')
    BY <1>1, <2>1, <2>2, <2>4, <2>7, MovedHistory
  <2>9. Finite(shown) => real = point
    <3> SUFFICES ASSUME Finite(shown) PROVE Shown(seen) = IF shown > 0 THEN shown ELSE 0
      OBVIOUS
    <3>1. shown \in Int
      BY <2>2, FiniteIsInteger
    <3>2. Max({shown, 0}) = IF shown >= 0 THEN shown ELSE 0
      BY <3>1, MaxOfTwo
    <3>3. Shown(seen) = Max({shown, 0})
      BY DEF Shown
    <3> QED
      BY <3>1, <3>2, <3>3
  <2>10. Tracks(pushed, observed', KnownOf("llm")', time')
    <3> HIDE DEF real, point
    <3> QED
      BY <2>8, <2>9
  <2> HIDE DEF pushed
  <2> QED
    BY <2>1, <2>3, <2>6, <2>8, <2>10 DEF HistoriesOk
<1> QED
  BY <1>3, <1>4, <1>5, <1>6 DEF HistoryNext

\* The label of a graph is the last observation of its source, and each of its columns the
\* newest reading of its time (latest_history_value, push_history_at, resample_history).
THEOREM LabelSafe == HistorySpec => []LabelIsCurrent
<1>1. HistoryInit => ObservedOk /\ LinkOk /\ HistoriesOk
  <2> SUFFICES ASSUME HistoryInit PROVE ObservedOk /\ LinkOk /\ HistoriesOk
    OBVIOUS
  <2>1. ObservedOk /\ LinkOk
    BY HistoryStarts
  <2>2. observed = <<>> /\ time = 0 /\ host.history = <<>> /\ llm.rate = <<>>
    BY DEF HistoryInit
  <2>3. \A s \in Sources : Of(s) = {} /\ KnownOf(s) = {} /\ LastAt(s) = None
    BY <2>2 DEF Of, KnownOf, LastAt
  <2>4. Tracks(<<>>, observed, {}, time)
    <3>1. Len(<<>>) = 0 /\ <<>> \in Seq(Point) /\ 1 .. Len(<<>>) = {}
      BY EmptySeq
    <3>2. Len(<<>>) <= HISTORY_MAX_SAMPLES
      BY <3>1, HistoryAssumption
    <3> DEFINE f == [k \in 1 .. Len(<<>>) |-> {}]
    <3>3. f \in [1 .. Len(<<>>) -> {}]
      BY <3>1
    <3> HIDE DEF f
    <3>4. TracksBy(<<>>, f, observed, {}, time)
      BY <3>1, <3>3 DEF TracksBy, Follows, Complete
    <3> QED
      BY <3>2, <3>4 DEF Tracks
  <2>5. /\ host = [history |-> host.history, observed_at |-> host.observed_at]
        /\ host.observed_at = None /\ llm.last_observed_at = None
    BY DEF HistoryInit
  <2> QED
    BY <2>1, <2>2, <2>3, <2>4, <2>5 DEF HistoriesOk, Sources
<1>2. ObservedOk /\ LinkOk /\ HistoriesOk /\ [HistoryNext]_historyVars =>
        (ObservedOk /\ LinkOk /\ HistoriesOk)'
  BY ObservedStep, LinkStep, HistoriesStep
<1>3. ObservedOk /\ HistoriesOk => LabelIsCurrent
  BY HistoriesTell
<1> QED
  BY <1>1, <1>2, <1>3, PTL DEF HistorySpec
-----------------------------------------------------------------------------
(* The rows of the process table.                                          *)

Process == [id : Identities, program : Nat, load : Nat \union {None}]

\* Different processes, as a scan finds them.
Apart(P) == \A p, q \in P : p.id.pid = q.id.pid => p = q

Collected(ps) ==
  /\ ps \in Seq(Process)
  /\ \A i, j \in DOMAIN ps : ps[i].id.pid = ps[j].id.pid => i = j

\* A finite, nonempty set of them.
Members(P) == IsFiniteSet(P) /\ P # {} /\ P \subseteq Process /\ Apart(P)

SortColumns == {"Pid", "Program", "Load"}

\* The rows that processes can have, of their own or as their group.
Heirs(S) == {ProcessT(p.id) : p \in S} \union {GroupT(p.program) : p \in S}

LEMMA HeirsAreRows ==
  ASSUME NEW P, P \subseteq Process
  PROVE  Heirs(P) \subseteq ProcessRowTarget
  BY DEF Heirs, Process, ProcessT, GroupT, ProcessRowTarget

LEMMA FoundProcesses ==
  ASSUME NEW ps, Collected(ps)
  PROVE  /\ IsFiniteSet(Range(ps)) /\ Range(ps) \subseteq Process /\ Apart(Range(ps))
         /\ Len(ps) \in Nat /\ DOMAIN ps = 1 .. Len(ps)
         /\ \A i \in DOMAIN ps : ps[i] \in Range(ps)
         /\ \A p \in Range(ps) : \E i \in DOMAIN ps : ps[i] = p
<1>1. Len(ps) \in Nat /\ DOMAIN ps = 1 .. Len(ps) /\ ps \in [1 .. Len(ps) -> Process]
  BY LenProperties DEF Collected
<1>2. Range(ps) \subseteq Process
  BY <1>1 DEF Range
<1>3. ps \in Surjection(1 .. Len(ps), Range(ps))
  BY <1>1 DEF Surjection, Range
<1>4. IsFiniteSet(1 .. Len(ps))
  BY <1>1, FS_Interval
<1>5. IsFiniteSet(Range(ps))
  BY <1>3, <1>4, FS_Surjection
<1>6. /\ \A i \in DOMAIN ps : ps[i] \in Range(ps)
      /\ \A p \in Range(ps) : \E i \in DOMAIN ps : ps[i] = p
  BY DEF Range
<1>7. Apart(Range(ps))
  BY <1>6 DEF Apart, Collected
<1> QED
  BY <1>1, <1>2, <1>5, <1>6, <1>7

LEMMA KnownLoad ==
  ASSUME NEW load \in Nat \union {None}
  PROVE  Known(load) \in Int
  BY DEF Known

LEMMA KeysOfProcess ==
  ASSUME NEW p \in Process, NEW key \in SortColumns
  PROVE  ProcessKeys(p)[key] \in Int
<1>1. p.id.pid \in Nat /\ p.program \in Nat /\ p.load \in Nat \union {None}
  BY DEF Process, Identities
<1>2. Known(p.load) \in Int
  BY <1>1, KnownLoad
<1> HIDE DEF Known
<1> QED
  BY <1>1, <1>2 DEF ProcessKeys, SortColumns

\* Sorting the processes of a group keeps each of them.
LEMMA SortedProcesses ==
  ASSUME NEW P, Members(P), NEW key \in SortColumns, NEW down \in BOOLEAN
  PROVE  LET s == sorted_processes(P, key, down)
         IN  /\ s \in Seq(P) /\ Len(s) = Cardinality(P)
             /\ \A p \in P : \E i \in 1 .. Len(s) : s[i] = p
<1> DEFINE s == sorted_processes(P, key, down)
           k == [p \in P |-> ProcessKeys(p)[key]]
           t == [p \in P |-> p.id.pid]
           R == {x \in P \X P : Ahead(k, t, down, x[1], x[2])}
<1>1. \A p \in P : k[p] \in Int /\ t[p] \in Int
  <2>1. \A p \in P : ProcessKeys(p)[key] \in Int
    BY KeysOfProcess DEF Members
  <2>2. \A p \in P : p.id.pid \in Int
    BY DEF Members, Process, Identities
  <2> QED
    BY <2>1, <2>2
<1>2. \A p, q \in P : t[p] = t[q] => p = q
  BY DEF Members, Apart
<1>3. \A p, q \in P : Precedes(ProcessKeys(p), ProcessKeys(q), key, down, p.id.pid < q.id.pid)
                        <=> <<p, q>> \in R
  BY DEF Precedes, Ahead
<1> HIDE DEF k, t
<1>4. StrictOrder(P, R)
  BY <1>1, <1>2, ByTwoKeys DEF Members
<1> HIDE DEF R
<1>5. s = InPlaces(P, R)
  <2>1. \A x \in P : {y \in P : Precedes(ProcessKeys(y), ProcessKeys(x), key, down, y.id.pid < x.id.pid)}
                       = {y \in P : <<y, x>> \in R}
    BY <1>3
  <2>2. \A x \in P :
          Cardinality({y \in P : Precedes(ProcessKeys(y), ProcessKeys(x), key, down, y.id.pid < x.id.pid)})
            = PlaceUnder(P, R, x)
    BY <2>1 DEF PlaceUnder
  <2> QED
    BY <2>2 DEF sorted_processes, Ordered, InPlaces
<1> HIDE DEF s
<1>6. /\ Cardinality(P) \in Nat /\ s \in [1 .. Cardinality(P) -> P]
      /\ \A p \in P : \E i \in 1 .. Cardinality(P) : s[i] = p
  BY <1>4, <1>5, SortedMembers
<1>7. s \in Seq(P) /\ DOMAIN s = 1 .. Cardinality(P)
  BY <1>6
<1>8. Len(s) = Cardinality(P)
  BY <1>6, <1>7, LenProperties
<1> QED
  BY <1>6, <1>7, <1>8 DEF s

\* What a group is made of.
Group(g) ==
  /\ Members(g.members) /\ g.program \in Nat /\ \A p \in g.members : p.program = g.program
  /\ \A key \in SortColumns : g.keys[key] \in Int

LEMMA LoadOfGroup ==
  ASSUME NEW P, Members(P)
  PROVE  Known(GroupLoad(P)) \in Int
<1>1. CASE \E p \in P : p.load = None
  <2>1. GroupLoad(P) = None
    BY <1>1 DEF GroupLoad
  <2> QED
    BY <2>1 DEF Known
<1>2. CASE ~\E p \in P : p.load = None
  <2> DEFINE w == [p \in P |-> p.load]
  <2>1. \A p \in P : w[p] \in Nat
    BY <1>2 DEF Members, Process
  <2>2. GroupLoad(P) = SumFunctionOnSet(w, P)
    BY <1>2 DEF GroupLoad
  <2> HIDE DEF w
  <2>3. GroupLoad(P) \in Nat
    BY <2>1, <2>2, SumIsNat DEF Members
  <2> QED
    BY <2>3 DEF Known
<1> QED
  BY <1>1, <1>2

LEMMA GroupOfMembers ==
  ASSUME NEW P, Members(P), NEW program \in Nat, \A p \in P : p.program = program
  PROVE  LET g == GroupOf(program, P)
         IN  Group(g) /\ g.members = P /\ g.program = program
<1> DEFINE pids == {p.id.pid : p \in P}
           first == Min(pids)
           total == Known(GroupLoad(P))
           keys == [Pid |-> first, Program |-> program, Load |-> total]
<1>1. pids \in SUBSET Nat /\ pids # {}
  BY DEF Members, Process, Identities
<1> HIDE DEF pids
<1>2. first \in Nat
  BY <1>1, MinMember
<1>3. total \in Int
  BY LoadOfGroup
<1>4. GroupOf(program, P) = [program |-> program, members |-> P, keys |-> keys]
  BY DEF GroupOf, pids
<1> HIDE DEF first, total
<1>5. \A key \in SortColumns : keys[key] \in Int
  BY <1>2, <1>3 DEF SortColumns
<1> HIDE DEF keys
<1> QED
  BY <1>4, <1>5 DEF Group

\* The groups of the processes that a search leaves.
LEMMA GroupsOfFound ==
  ASSUME NEW F, IsFiniteSet(F), F \subseteq Process, Apart(F)
  PROVE  /\ IsFiniteSet(GroupsOf(F))
         /\ \A g \in GroupsOf(F) :
              /\ Group(g)
              /\ g.members = {q \in F : q.program = g.program}
         /\ \A g, h \in GroupsOf(F) : g.program = h.program => g = h
         /\ \A p \in F : \E g \in GroupsOf(F) : g.program = p.program
<1> DEFINE same(program) == {q \in F : q.program = program}
           programs == {p.program : p \in F}
           G == GroupsOf(F)
           one == [p \in F |-> GroupOf(p.program, same(p.program))]
<1>1. ASSUME NEW p \in F
      PROVE  LET g == GroupOf(p.program, same(p.program))
             IN  Group(g) /\ g.members = same(p.program) /\ g.program = p.program
  <2>1. IsFiniteSet(same(p.program))
    BY FS_Subset
  <2>2. /\ Members(same(p.program)) /\ p.program \in Nat
        /\ \A q \in same(p.program) : q.program = p.program
    BY <2>1 DEF Members, Apart, Process
  <2> QED
    BY <2>2, GroupOfMembers
<1>2. G = {GroupOf(program, same(program)) : program \in programs}
  BY DEF GroupsOf
<1>3. \A g \in G : \E p \in F : g = GroupOf(p.program, same(p.program))
  BY <1>2
<1>4. \A p \in F : GroupOf(p.program, same(p.program)) \in G
  BY <1>2
<1> HIDE DEF G
<1>5. one \in Surjection(F, G)
  BY <1>3, <1>4 DEF Surjection
<1>6. IsFiniteSet(G)
  BY <1>5, FS_Surjection
<1>7. ASSUME NEW g \in G
      PROVE  \E p \in F : /\ g = GroupOf(g.program, same(g.program)) /\ g.program = p.program
                          /\ Group(g) /\ g.members = same(g.program)
  <2>1. PICK p \in F : g = GroupOf(p.program, same(p.program))
    BY <1>3
  <2>2. Group(g) /\ g.members = same(p.program) /\ g.program = p.program
    BY <1>1, <2>1
  <2> QED
    BY <2>1, <2>2
<1>8. ASSUME NEW g \in G, NEW h \in G, g.program = h.program PROVE g = h
  <2>1. g = GroupOf(g.program, same(g.program)) /\ h = GroupOf(h.program, same(h.program))
    BY <1>7
  <2> QED
    BY <1>8, <2>1
<1>9. \A p \in F : \E g \in G : g.program = p.program
  BY <1>1, <1>4
<1> QED
  BY <1>6, <1>7, <1>8, <1>9 DEF G

\* Sorting the groups keeps each of them.
LEMMA SortedAllGroups ==
  ASSUME NEW G, IsFiniteSet(G), \A g \in G : Group(g),
         \A g, h \in G : g.program = h.program => g = h,
         NEW key \in SortColumns, NEW down \in BOOLEAN
  PROVE  LET s == SortedGroups(G, key, down)
         IN  /\ s \in Seq(G) /\ Len(s) = Cardinality(G)
             /\ \A g \in G : \E i \in 1 .. Len(s) : s[i] = g
<1> DEFINE s == SortedGroups(G, key, down)
           k == [g \in G |-> g.keys[key]]
           t == [g \in G |-> g.program]
           R == {x \in G \X G : Ahead(k, t, down, x[1], x[2])}
<1>1. \A g \in G : k[g] \in Int /\ t[g] \in Int
  BY DEF Group
<1>2. \A g, h \in G : t[g] = t[h] => g = h
  OBVIOUS
<1>3. \A g, h \in G : Precedes(g.keys, h.keys, key, down, g.program < h.program) <=> <<g, h>> \in R
  BY DEF Precedes, Ahead
<1> HIDE DEF k, t
<1>4. StrictOrder(G, R)
  BY <1>1, <1>2, ByTwoKeys
<1> HIDE DEF R
<1>5. s = InPlaces(G, R)
  <2>1. \A x \in G : {y \in G : Precedes(y.keys, x.keys, key, down, y.program < x.program)}
                       = {y \in G : <<y, x>> \in R}
    BY <1>3
  <2>2. \A x \in G :
          Cardinality({y \in G : Precedes(y.keys, x.keys, key, down, y.program < x.program)})
            = PlaceUnder(G, R, x)
    BY <2>1 DEF PlaceUnder
  <2> QED
    BY <2>2 DEF SortedGroups, Ordered, InPlaces
<1> HIDE DEF s
<1>6. /\ Cardinality(G) \in Nat /\ s \in [1 .. Cardinality(G) -> G]
      /\ \A g \in G : \E i \in 1 .. Cardinality(G) : s[i] = g
  BY <1>4, <1>5, SortedMembers
<1>7. s \in Seq(G) /\ DOMAIN s = 1 .. Cardinality(G)
  BY <1>6
<1>8. Len(s) = Cardinality(G)
  BY <1>6, <1>7, LenProperties
<1> QED
  BY <1>6, <1>7, <1>8 DEF s

-----------------------------------------------------------------------------
(* The rows of the groups.                                                 *)

\* The fields of UiState that decide how the table is sorted.
Sorting(u) == u.sort_key \in SortColumns /\ u.sort_desc \in BOOLEAN

LEMMA RowsOfGroup ==
  ASSUME NEW u, Sorting(u), NEW g, Group(g)
  PROVE  LET rows == GroupRows(u, g)
         IN  /\ rows \in Seq(Heirs(g.members))
             /\ \/ GroupT(g.program) \in Range(rows)
                \/ \E p \in g.members : g.members = {p} /\ ProcessT(p.id) \in Range(rows)
<1> DEFINE s == sorted_processes(g.members, u.sort_key, u.sort_desc)
           children == [i \in DOMAIN s |-> ProcessT(s[i].id)]
           more == IF g.program \in u.expanded THEN children ELSE <<>>
           top == <<GroupT(g.program)>>
<1>1. /\ s \in Seq(g.members) /\ Len(s) = Cardinality(g.members)
      /\ \A p \in g.members : \E i \in 1 .. Len(s) : s[i] = p
  BY SortedProcesses DEF Group, Sorting
<1> HIDE DEF s
<1>2. Len(s) \in Nat /\ DOMAIN s = 1 .. Len(s) /\ \A i \in DOMAIN s : s[i] \in g.members
  BY <1>1, LenProperties, ElementOfSeq
<1>3. \A i \in DOMAIN s : ProcessT(s[i].id) \in Heirs(g.members)
  BY <1>2 DEF Heirs
<1>4. children \in Seq(Heirs(g.members)) /\ DOMAIN children = DOMAIN s
  BY <1>2, <1>3
<1>5. more \in Seq(Heirs(g.members))
  BY <1>4, EmptySeq
<1>6. top \in Seq(Heirs(g.members)) /\ GroupT(g.program) \in Range(top)
  BY DEF Group, Members, Heirs, Range
<1>7. GroupRows(u, g) = IF Len(s) = 1 THEN children ELSE top \o more
  BY DEF GroupRows, s
<1>8. CASE Len(s) = 1
  <2>1. IsFiniteSet(g.members) /\ Cardinality(g.members) = 1
    BY <1>1, <1>8 DEF Group, Members
  <2>2. PICK p : g.members = {p}
    BY <2>1, FS_Singleton
  <2>3. 1 \in DOMAIN s /\ s[1] = p
    BY <1>2, <1>8, <2>2
  <2>4. ProcessT(p.id) \in Range(children)
    BY <1>4, <2>3 DEF Range
  <2> HIDE DEF children
  <2> QED
    BY <1>4, <1>7, <1>8, <2>2, <2>4
<1>9. CASE Len(s) # 1
  <2> HIDE DEF children, more, top
  <2>1. top \o more \in Seq(Heirs(g.members)) /\ Range(top \o more) = Range(top) \union Range(more)
    BY <1>5, <1>6, ConcatProperties, RangeConcatenation
  <2> QED
    BY <1>6, <1>7, <1>9, <2>1
<1> QED
  BY <1>8, <1>9

\* A function on 1 .. n is a sequence of length n.
LEMMA FunctionIsSeq ==
  ASSUME NEW T, NEW n \in Nat, NEW f \in [1 .. n -> T]
  PROVE  f \in Seq(T) /\ Len(f) = n
<1>1. f \in Seq(T) /\ DOMAIN f = 1 .. n
  OBVIOUS
<1>2. Len(f) \in Nat /\ DOMAIN f = 1 .. Len(f)
  BY <1>1, LenProperties
<1> QED
  BY <1>1, <1>2

\* The rows that are taken of some groups are the rows of those groups.
LEMMA TakenRowsOf ==
  ASSUME NEW T, NEW groups \in Seq(Seq(T)), NEW taken
  PROVE  /\ TakenRows(groups, taken) \in Seq(T)
         /\ \A i \in DOMAIN groups : i \in taken => Range(groups[i]) \subseteq Range(TakenRows(groups, taken))
         /\ \A x \in Range(TakenRows(groups, taken)) :
              \E i \in DOMAIN groups : i \in taken /\ x \in Range(groups[i])
<1> DEFINE seqs == [i \in DOMAIN groups |-> IF i \in taken THEN groups[i] ELSE <<>>]
<1>1. Len(groups) \in Nat /\ DOMAIN groups = 1 .. Len(groups) /\ \A i \in DOMAIN groups : groups[i] \in Seq(T)
  BY LenProperties, ElementOfSeq
<1>2. \A i \in DOMAIN groups : seqs[i] \in Seq(T)
  BY <1>1, EmptySeq
<1>3. \A i \in DOMAIN groups : seqs[i] = IF i \in taken THEN groups[i] ELSE <<>>
  OBVIOUS
<1>4. seqs \in [1 .. Len(groups) -> Seq(T)]
  BY <1>1, <1>2
<1>5. TakenRows(groups, taken) = FlattenSeq(seqs)
  BY DEF TakenRows
<1> HIDE DEF seqs
<1>6. seqs \in Seq(Seq(T)) /\ Len(seqs) = Len(groups)
  BY <1>1, <1>4, FunctionIsSeq
<1>7. ASSUME NEW i \in DOMAIN groups
      PROVE  Range(seqs[i]) = IF i \in taken THEN Range(groups[i]) ELSE {}
  <2>1. Range(<<>>) = {}
    BY DEF Range
  <2> QED
    BY <1>3, <2>1
<1>8. /\ FlattenSeq(seqs) \in Seq(T)
      /\ \A i \in 1 .. Len(seqs) : Range(seqs[i]) \subseteq Range(FlattenSeq(seqs))
      /\ \A x \in Range(FlattenSeq(seqs)) : \E i \in 1 .. Len(seqs) : x \in Range(seqs[i])
  BY <1>6, Flattened
<1> QED
  BY <1>1, <1>5, <1>6, <1>7, <1>8

\* The groups, as lists of rows.
LEMMA GroupedRows ==
  ASSUME NEW u, Sorting(u), NEW ps, Collected(ps)
  PROVE  LET groups == grouped_process_rows_filtered(u, ps)
         IN  /\ groups \in Seq(Seq(Heirs(Range(ps))))
             /\ \A i \in DOMAIN groups : groups[i] # <<>>
             /\ \A p \in Unpinned(u, ps) : \E i \in DOMAIN groups :
                  GroupT(p.program) \in Range(groups[i]) \/ ProcessT(p.id) \in Range(groups[i])
<1> DEFINE F == Unpinned(u, ps)
           G == GroupsOf(F)
           s == SortedGroups(G, u.sort_key, u.sort_desc)
           groups == [i \in DOMAIN s |-> GroupRows(u, s[i])]
<1>1. IsFiniteSet(F) /\ F \subseteq Process /\ Apart(F) /\ F \subseteq Range(ps)
  <2>1. IsFiniteSet(Range(ps)) /\ Range(ps) \subseteq Process /\ Apart(Range(ps))
    BY FoundProcesses
  <2>2. F \subseteq Range(ps)
    BY DEF Unpinned
  <2> HIDE DEF F
  <2> QED
    BY <2>1, <2>2, FS_Subset DEF Apart
<1> HIDE DEF F
<1>2. /\ IsFiniteSet(G)
      /\ \A g \in G : Group(g) /\ g.members = {q \in F : q.program = g.program}
      /\ \A g, h \in G : g.program = h.program => g = h
      /\ \A p \in F : \E g \in G : g.program = p.program
  BY <1>1, GroupsOfFound
<1> HIDE DEF G
<1>3. /\ s \in Seq(G) /\ Len(s) = Cardinality(G)
      /\ \A g \in G : \E i \in 1 .. Len(s) : s[i] = g
  BY <1>2, SortedAllGroups DEF Sorting
<1> HIDE DEF s
<1>4. Len(s) \in Nat /\ DOMAIN s = 1 .. Len(s) /\ \A i \in DOMAIN s : s[i] \in G
  BY <1>3, LenProperties, ElementOfSeq
<1>5. ASSUME NEW i \in DOMAIN s
      PROVE  GroupRows(u, s[i]) \in Seq(Heirs(Range(ps))) /\ GroupRows(u, s[i]) # <<>>
  <2> DEFINE g == s[i]
             rows == GroupRows(u, g)
  <2>1. Group(g) /\ g.members \subseteq Range(ps)
    BY <1>1, <1>2, <1>4
  <2> HIDE DEF g
  <2>2. rows \in Seq(Heirs(g.members)) /\ Range(rows) # {}
    BY <2>1, RowsOfGroup
  <2> HIDE DEF rows
  <2>3. Heirs(g.members) \subseteq Heirs(Range(ps))
    BY <2>1 DEF Heirs
  <2>4. rows \in Seq(Heirs(Range(ps)))
    BY <2>2, <2>3
  <2>5. rows # <<>>
    BY <2>2 DEF Range
  <2> QED
    BY <2>4, <2>5 DEF rows, g
<1>6. /\ groups \in Seq(Seq(Heirs(Range(ps)))) /\ DOMAIN groups = DOMAIN s
      /\ \A i \in DOMAIN groups : groups[i] # <<>>
  <2>1. groups \in [1 .. Len(s) -> Seq(Heirs(Range(ps)))]
    BY <1>4, <1>5
  <2> QED
    BY <1>4, <1>5, <2>1, FunctionIsSeq
<1>7. ASSUME NEW p \in F
      PROVE  \E i \in DOMAIN s :
                  GroupT(p.program) \in Range(groups[i]) \/ ProcessT(p.id) \in Range(groups[i])
  <2>1. PICK g \in G : g.program = p.program
    BY <1>2
  <2>2. PICK i \in DOMAIN s : s[i] = g
    BY <1>3, <1>4
  <2>3. /\ groups[i] = GroupRows(u, g) /\ Group(g)
        /\ g.members = {q \in F : q.program = p.program}
    BY <1>2, <2>1, <2>2
  <2>4. \/ GroupT(g.program) \in Range(GroupRows(u, g))
        \/ \E q \in g.members : g.members = {q} /\ ProcessT(q.id) \in Range(GroupRows(u, g))
    BY <2>3, RowsOfGroup
  <2> HIDE DEF groups
  <2>5. p \in g.members
    BY <2>3
  <2> QED
    BY <2>1, <2>2, <2>3, <2>4, <2>5
<1>8. grouped_process_rows_filtered(u, ps) = <<>> \o groups
  BY DEF grouped_process_rows_filtered, F, G, s
<1> HIDE DEF groups
<1>9. <<>> \o groups = groups
  BY <1>6
<1> QED
  BY <1>6, <1>7, <1>8, <1>9 DEF F

-----------------------------------------------------------------------------
(* What the keys move over.                                                *)

LEMMA PinnedProcess ==
  ASSUME NEW u, NEW ps, Collected(ps)
  PROVE  /\ PinnedRow(u, ps) \in Seq(Heirs(Range(ps)))
         /\ \A p \in Range(ps) : p.id = u.pinned_pid /\ process_matches_search(p, u.query)
                                   => ProcessT(p.id) \in Range(PinnedRow(u, ps))
<1> DEFINE pinned == {p \in Range(ps) : p.id = u.pinned_pid /\ process_matches_search(p, u.query)}
           n == Cardinality(pinned)
           rows == [i \in 1 .. n |-> ProcessT(u.pinned_pid)]
<1>1. PinnedRow(u, ps) = rows
  BY DEF PinnedRow
<1>2. IsFiniteSet(pinned) /\ pinned \subseteq Range(ps)
  BY FoundProcesses, FS_Subset
<1>3. \A p \in pinned : p.id = u.pinned_pid
  OBVIOUS
<1>4. \A p \in Range(ps) : p.id = u.pinned_pid /\ process_matches_search(p, u.query) => p \in pinned
  OBVIOUS
<1> HIDE DEF pinned
<1>5. n \in Nat /\ (n = 0 <=> pinned = {})
  BY <1>2, FS_CardinalityType, FS_EmptySet
<1> HIDE DEF n
<1>6. ASSUME NEW i \in 1 .. n PROVE ProcessT(u.pinned_pid) \in Heirs(Range(ps))
  <2>1. n # 0
    BY <1>5
  <2>2. PICK p : p \in pinned
    BY <1>5, <2>1
  <2> QED
    BY <1>2, <1>3, <2>2 DEF Heirs
<1>7. rows \in Seq(Heirs(Range(ps)))
  BY <1>5, <1>6
<1>8. ASSUME NEW p \in pinned PROVE ProcessT(p.id) \in Range(rows)
  <2>1. 1 \in 1 .. n
    BY <1>5
  <2> QED
    BY <1>3, <2>1 DEF Range
<1> HIDE DEF rows
<1> QED
  BY <1>1, <1>4, <1>7, <1>8

\* The rows in three parts, and what is in them when nothing is searched for: of each
\* process itself or its group.
LEMMA Navigation ==
  ASSUME NEW u, Sorting(u), NEW ps, Collected(ps)
  PROVE  LET groups == grouped_process_rows_filtered(u, ps)
             first == PinnedRow(u, ps)
             fixed == take_pinned_group_rows(u, groups)
             left == LeftRows(u, groups)
             all == process_navigation_targets(u, ps)
         IN  /\ first \in Seq(Heirs(Range(ps))) /\ fixed \in Seq(Heirs(Range(ps))) /\ left \in Seq(Heirs(Range(ps)))
             /\ all \in Seq(Heirs(Range(ps))) /\ all \in Seq(ProcessRowTarget)
             /\ left \in Seq(ProcessRowTarget)
             /\ all = first \o fixed \o left /\ process_scroll_targets(u, ps) = left
             /\ Range(all) = Range(first) \union Range(fixed) \union Range(left)
             /\ u.query = None => \A p \in Range(ps) :
                  GroupT(p.program) \in Range(all) \/ ProcessT(p.id) \in Range(all)
<1> DEFINE groups == grouped_process_rows_filtered(u, ps)
           first == PinnedRow(u, ps)
           at == PinnedAt(u, groups)
           fixed == take_pinned_group_rows(u, groups)
           left == LeftRows(u, groups)
           two == first \o fixed
           all == process_navigation_targets(u, ps)
<1>1. /\ groups \in Seq(Seq(Heirs(Range(ps))))
      /\ \A p \in Unpinned(u, ps) : \E i \in DOMAIN groups :
           GroupT(p.program) \in Range(groups[i]) \/ ProcessT(p.id) \in Range(groups[i])
  BY GroupedRows
<1>2. /\ first \in Seq(Heirs(Range(ps)))
      /\ \A p \in Range(ps) : p.id = u.pinned_pid /\ process_matches_search(p, u.query)
                                => ProcessT(p.id) \in Range(first)
  BY PinnedProcess
<1>3. all = two \o left /\ process_scroll_targets(u, ps) = left
  BY DEF process_navigation_targets, process_scroll_targets
<1>4. fixed = TakenRows(groups, at) /\ left = TakenRows(groups, DOMAIN groups \ at)
  BY DEF take_pinned_group_rows, LeftRows
<1> HIDE DEF groups, first, at, fixed, left, all
<1>5. /\ fixed \in Seq(Heirs(Range(ps)))
      /\ \A i \in DOMAIN groups : i \in at => Range(groups[i]) \subseteq Range(fixed)
  BY <1>1, <1>4, TakenRowsOf
<1>6. /\ left \in Seq(Heirs(Range(ps)))
      /\ \A i \in DOMAIN groups : i \notin at => Range(groups[i]) \subseteq Range(left)
  BY <1>1, <1>4, TakenRowsOf
<1>7. two \in Seq(Heirs(Range(ps))) /\ Range(two) = Range(first) \union Range(fixed)
  BY <1>2, <1>5, ConcatProperties, RangeConcatenation
<1> HIDE DEF two
<1>8. all \in Seq(Heirs(Range(ps))) /\ Range(all) = Range(first) \union Range(fixed) \union Range(left)
  BY <1>3, <1>6, <1>7, ConcatProperties, RangeConcatenation
<1>9. ASSUME u.query = None, NEW p \in Range(ps)
      PROVE  GroupT(p.program) \in Range(all) \/ ProcessT(p.id) \in Range(all)
  <2>1. process_matches_search(p, u.query)
    BY <1>9 DEF process_matches_search
  <2>2. CASE p.id = u.pinned_pid
    BY <1>2, <1>8, <2>1, <2>2
  <2>3. CASE p.id # u.pinned_pid
    <3>1. p \in Unpinned(u, ps)
      BY <2>1, <2>3 DEF Unpinned
    <3>2. PICK i \in DOMAIN groups :
            GroupT(p.program) \in Range(groups[i]) \/ ProcessT(p.id) \in Range(groups[i])
      BY <1>1, <3>1
    <3> QED
      BY <1>5, <1>6, <1>8, <3>2
  <2> QED
    BY <2>2, <2>3
<1>10. Heirs(Range(ps)) \subseteq ProcessRowTarget
  BY HeirsAreRows, FoundProcesses
<1>11. all \in Seq(ProcessRowTarget) /\ left \in Seq(ProcessRowTarget)
  BY <1>6, <1>8, <1>10
<1> QED
  BY <1>2, <1>3, <1>5, <1>6, <1>8, <1>9, <1>11 DEF groups, first, fixed, left, two, all

\* The fields of UiState on which the rows depend.
SameView(u, v) ==
  /\ u.pinned_pid = v.pinned_pid /\ u.pinned_group = v.pinned_group
  /\ u.query = v.query /\ u.expanded = v.expanded
  /\ u.sort_key = v.sort_key /\ u.sort_desc = v.sort_desc

LEMMA SameRows ==
  ASSUME NEW u, NEW v, SameView(u, v), NEW ps
  PROVE  /\ PinnedRow(u, ps) = PinnedRow(v, ps)
         /\ grouped_process_rows_filtered(u, ps) = grouped_process_rows_filtered(v, ps)
         /\ \A groups : /\ take_pinned_group_rows(u, groups) = take_pinned_group_rows(v, groups)
                        /\ LeftRows(u, groups) = LeftRows(v, groups)
         /\ process_scroll_targets(u, ps) = process_scroll_targets(v, ps)
         /\ process_navigation_targets(u, ps) = process_navigation_targets(v, ps)
<1>1. \A p : process_matches_search(p, u.query) = process_matches_search(p, v.query)
  BY DEF SameView
<1>2. {p \in Range(ps) : p.id = u.pinned_pid /\ process_matches_search(p, u.query)}
        = {p \in Range(ps) : p.id = v.pinned_pid /\ process_matches_search(p, v.query)}
  BY DEF SameView
<1>3. PinnedRow(u, ps) = PinnedRow(v, ps)
  BY <1>2 DEF PinnedRow, SameView
<1>4. Unpinned(u, ps) = Unpinned(v, ps)
  BY DEF Unpinned, SameView
<1>5. \A g : GroupRows(u, g) = GroupRows(v, g)
  BY DEF GroupRows, SameView
<1>6. grouped_process_rows_filtered(u, ps) = grouped_process_rows_filtered(v, ps)
  <2>1. SortedGroups(GroupsOf(Unpinned(u, ps)), u.sort_key, u.sort_desc)
          = SortedGroups(GroupsOf(Unpinned(v, ps)), v.sort_key, v.sort_desc)
    BY <1>4 DEF SameView
  <2> QED
    BY <1>5, <2>1 DEF grouped_process_rows_filtered
<1>7. ASSUME NEW groups
      PROVE  /\ take_pinned_group_rows(u, groups) = take_pinned_group_rows(v, groups)
             /\ LeftRows(u, groups) = LeftRows(v, groups)
  <2>1. PinnedAt(u, groups) = PinnedAt(v, groups)
    BY DEF PinnedAt, SameView
  <2> QED
    BY <2>1 DEF take_pinned_group_rows, LeftRows
<1> QED
  BY <1>3, <1>6, <1>7 DEF process_scroll_targets, process_navigation_targets

-----------------------------------------------------------------------------
(* Selecting.                                                              *)

UiFields ==
  {"selected_pid", "pinned_pid", "selected_group", "pinned_group", "last_click", "expanded",
   "sort_key", "sort_desc", "search_open", "query", "scroll", "display_total",
   "scroll_visible", "rows", "header"}

Scrolling(u) == u.scroll \in Nat /\ u.display_total \in Nat /\ u.scroll_visible \in Nat

\* One thing at most is selected.
UiOk(u) ==
  /\ DOMAIN u = UiFields
  /\ Sorting(u) /\ Scrolling(u)
  /\ u.selected_pid = None \/ u.selected_group = None

SameSelection(u, v) == u.selected_pid = v.selected_pid /\ u.selected_group = v.selected_group
SameScrolling(u, v) ==
  u.scroll = v.scroll /\ u.display_total = v.display_total /\ u.scroll_visible = v.scroll_visible

\* The same but for the position in the list.
Moved(u, v) == UiOk(v) /\ SameView(u, v) /\ SameSelection(u, v) /\ u.scroll_visible = v.scroll_visible

LEMMA Selects ==
  ASSUME NEW u, UiOk(u), NEW target \in ProcessRowTarget
  PROVE  LET v == select_process_target(u, target)
         IN  /\ UiOk(v) /\ SameView(u, v) /\ SameScrolling(u, v)
             /\ current_process_target(v) = target /\ target # None
<1> DEFINE v == select_process_target(u, target)
<1>0. None \notin Nat \union Identities \union ProcessRowTarget
  BY TableAssumption
<1>1. CASE target \in {"process"} \X Identities
  <2>1. target[1] = "process" /\ target[2] \in Identities /\ target = ProcessT(target[2])
    BY <1>1 DEF ProcessT
  <2>2. v = [u EXCEPT !.selected_pid = target[2], !.selected_group = None]
    BY <2>1 DEF select_process_target
  <2> HIDE DEF v
  <2>3. UiOk(v) /\ SameView(u, v) /\ SameScrolling(u, v)
    BY <2>2 DEF UiOk, UiFields, SameView, SameScrolling, Sorting, Scrolling
  <2>4. v.selected_pid = target[2] /\ target[2] # None
    BY <1>0, <2>1, <2>2 DEF UiOk, UiFields
  <2>5. current_process_target(v) = target
    BY <2>1, <2>4 DEF current_process_target
  <2> QED
    BY <1>0, <2>3, <2>5 DEF v
<1>2. CASE target \in {"group"} \X Nat
  <2>1. target[1] # "process" /\ target[2] \in Nat /\ target = GroupT(target[2])
    BY <1>2 DEF GroupT
  <2>2. v = [u EXCEPT !.selected_pid = None, !.selected_group = target[2]]
    BY <2>1 DEF select_process_target
  <2> HIDE DEF v
  <2>3. UiOk(v) /\ SameView(u, v) /\ SameScrolling(u, v)
    BY <2>2 DEF UiOk, UiFields, SameView, SameScrolling, Sorting, Scrolling
  <2>4. v.selected_pid = None /\ v.selected_group = target[2] /\ target[2] # None
    BY <1>0, <2>1, <2>2 DEF UiOk, UiFields
  <2>5. current_process_target(v) = target
    BY <2>1, <2>4 DEF current_process_target
  <2> QED
    BY <1>0, <2>3, <2>5 DEF v
<1> QED
  BY <1>1, <1>2 DEF ProcessRowTarget

LEMMA Unselects ==
  ASSUME NEW u, UiOk(u)
  PROVE  LET v == Unselected(u)
         IN  /\ UiOk(v) /\ SameView(u, v) /\ SameScrolling(u, v)
             /\ current_process_target(v) = None
<1> DEFINE v == Unselected(u)
<1>1. v = [u EXCEPT !.selected_pid = None, !.selected_group = None]
  BY DEF Unselected
<1> HIDE DEF v
<1>2. UiOk(v) /\ SameView(u, v) /\ SameScrolling(u, v)
  BY <1>1 DEF UiOk, UiFields, SameView, SameScrolling, Sorting, Scrolling
<1>3. v.selected_pid = None /\ v.selected_group = None
  BY <1>1 DEF UiOk, UiFields
<1> QED
  BY <1>2, <1>3 DEF v, current_process_target

\* What the code looks for when the selection has no row: the heir of one process that
\* has the identity or the program of the selection.
Same(u, ps) ==
  {p \in Range(ps) : IF u.selected_pid # None THEN p.id = u.selected_pid
                     ELSE p.program = u.selected_group}

LEMMA SubstituteOf ==
  ASSUME NEW u, current_process_target(u) # None, NEW ps, Collected(ps), Same(u, ps) # {}
  PROVE  LET target == current_process_target(u)
             other == Substitute(target, ps)
         IN  \E p \in Same(u, ps) :
               \/ target = ProcessT(p.id) /\ other = GroupT(p.program)
               \/ target = GroupT(p.program) /\ other = ProcessT(p.id)
<1> DEFINE target == current_process_target(u)
           same == {i \in DOMAIN ps : IF target[1] = "process" THEN ps[i].id = target[2]
                                      ELSE ps[i].program = target[2]}
           first == Min(same)
<1>1. \/ u.selected_pid # None /\ target = ProcessT(u.selected_pid)
      \/ u.selected_pid = None /\ target = GroupT(u.selected_group)
  BY DEF current_process_target
<1> HIDE DEF target
<1>2. /\ u.selected_pid # None => target[1] = "process" /\ target[2] = u.selected_pid
      /\ u.selected_pid = None => target[1] # "process" /\ target[2] = u.selected_group
  BY <1>1 DEF ProcessT, GroupT
<1>3. /\ DOMAIN ps = 1 .. Len(ps) /\ Len(ps) \in Nat
      /\ \A i \in DOMAIN ps : ps[i] \in Range(ps)
      /\ \A p \in Range(ps) : \E i \in DOMAIN ps : ps[i] = p
  BY FoundProcesses
<1>4. \A i \in DOMAIN ps : i \in same <=> ps[i] \in Same(u, ps)
  BY <1>2, <1>3 DEF Same
<1>5. same \in SUBSET Nat
  BY <1>3
<1>6. Substitute(target, ps) =
        IF same = {} THEN None
        ELSE IF target[1] = "process" THEN GroupT(ps[first].program) ELSE ProcessT(ps[first].id)
  BY DEF Substitute
<1>7. PICK p : p \in Same(u, ps)
  OBVIOUS
<1>8. p \in Range(ps)
  BY <1>7 DEF Same
<1>9. same # {}
  BY <1>3, <1>4, <1>7, <1>8
<1>10. same \subseteq DOMAIN ps
  OBVIOUS
<1> HIDE DEF same
<1>11. first \in same
  BY <1>5, <1>9, MinMember
<1> HIDE DEF first
<1>12. ps[first] \in Same(u, ps)
  BY <1>4, <1>10, <1>11
<1>13. IF u.selected_pid # None THEN ps[first].id = u.selected_pid
       ELSE ps[first].program = u.selected_group
  BY <1>12 DEF Same
<1>14. CASE u.selected_pid # None
  <2>1. target = ProcessT(ps[first].id) /\ Substitute(target, ps) = GroupT(ps[first].program)
    BY <1>1, <1>2, <1>6, <1>9, <1>13, <1>14
  <2> QED
    BY <1>12, <2>1 DEF target
<1>15. CASE u.selected_pid = None
  <2>1. target = GroupT(ps[first].program) /\ Substitute(target, ps) = ProcessT(ps[first].id)
    BY <1>1, <1>2, <1>6, <1>9, <1>13, <1>15
  <2> QED
    BY <1>12, <2>1 DEF target
<1> QED
  BY <1>14, <1>15

\* A selection keeps its row, or is replaced by its heir; it is lost only behind a search.
LEMMA Normalizes ==
  ASSUME NEW u, UiOk(u), NEW ps, Collected(ps)
  PROVE  LET v == normalize_process_selection(u, ps)
             now == current_process_target(v)
         IN  /\ UiOk(v) /\ SameView(u, v) /\ SameScrolling(u, v)
             /\ now # None => now \in Range(process_navigation_targets(v, ps))
             /\ current_process_target(u) = None => now = None
             /\ current_process_target(u) # None /\ Same(u, ps) # {} =>
                  IF now = None THEN u.query # None ELSE now \in Heirs(Same(u, ps))
<1> DEFINE nav == process_navigation_targets(u, ps)
           target == current_process_target(u)
           other == Substitute(target, ps)
           v == normalize_process_selection(u, ps)
           now == current_process_target(v)
           Goal == /\ UiOk(v) /\ SameView(u, v) /\ SameScrolling(u, v)
                   /\ now # None => now \in Range(nav)
                   /\ target = None => now = None
                   /\ target # None /\ Same(u, ps) # {} =>
                        IF now = None THEN u.query # None ELSE now \in Heirs(Same(u, ps))
<1>1. /\ nav \in Seq(ProcessRowTarget)
      /\ u.query = None => \A p \in Range(ps) :
           GroupT(p.program) \in Range(nav) \/ ProcessT(p.id) \in Range(nav)
  BY Navigation DEF UiOk
<1>2. Range(nav) \subseteq ProcessRowTarget
  BY <1>1, RangeOfSeq
<1>3. target # None /\ Same(u, ps) # {} =>
        \E p \in Same(u, ps) :
               \/ target = ProcessT(p.id) /\ other = GroupT(p.program)
               \/ target = GroupT(p.program) /\ other = ProcessT(p.id)
  BY SubstituteOf
<1>4. v = IF target = None THEN u ELSE IF target \in Range(nav) THEN u
          ELSE IF other \in Range(nav) THEN select_process_target(u, other) ELSE Unselected(u)
  BY DEF normalize_process_selection
<1>5. SameView(u, u) /\ SameScrolling(u, u)
  BY DEF SameView, SameScrolling
<1> HIDE DEF nav, other, v
<1>6. ASSUME target = None PROVE Goal
  <2>1. v = u
    BY <1>4, <1>6
  <2> QED
    BY <1>5, <1>6, <2>1
<1>7. ASSUME target # None /\ target \in Range(nav) PROVE Goal
  <2>1. v = u
    BY <1>4, <1>7
  <2>2. Same(u, ps) # {} => target \in Heirs(Same(u, ps))
    BY <1>3, <1>7 DEF Heirs
  <2> QED
    BY <1>5, <1>7, <2>1, <2>2
<1>8. ASSUME target # None /\ target \notin Range(nav) /\ other \in Range(nav) PROVE Goal
  <2>1. v = select_process_target(u, other) /\ other \in ProcessRowTarget
    BY <1>2, <1>4, <1>8
  <2>2. UiOk(v) /\ SameView(u, v) /\ SameScrolling(u, v) /\ now = other /\ other # None
    BY <2>1, Selects
  <2>3. Same(u, ps) # {} => other \in Heirs(Same(u, ps))
    BY <1>3, <1>8 DEF Heirs
  <2> QED
    BY <1>8, <2>2, <2>3
<1>9. ASSUME target # None /\ target \notin Range(nav) /\ other \notin Range(nav) PROVE Goal
  <2>1. v = Unselected(u)
    BY <1>4, <1>9
  <2>2. UiOk(v) /\ SameView(u, v) /\ SameScrolling(u, v) /\ now = None
    BY <2>1, Unselects
  <2>3. ASSUME Same(u, ps) # {}, u.query = None PROVE FALSE
    <3>1. PICK p \in Same(u, ps) :
            \/ target = ProcessT(p.id) /\ other = GroupT(p.program)
            \/ target = GroupT(p.program) /\ other = ProcessT(p.id)
      BY <1>3, <1>9, <2>3
    <3>2. p \in Range(ps)
      BY DEF Same
    <3> QED
      BY <1>1, <1>9, <2>3, <3>1, <3>2
  <2> QED
    BY <1>9, <2>2, <2>3
<1>10. Goal
  BY <1>6, <1>7, <1>8, <1>9
<1>11. process_navigation_targets(v, ps) = nav
  BY <1>10, SameRows DEF nav
<1> HIDE DEF target, now
<1> QED
  BY <1>10, <1>11 DEF v, now, target

-----------------------------------------------------------------------------
(* Scrolling.                                                              *)

LEMMA Shows ==
  ASSUME NEW index \in Nat, NEW scroll \in Nat, NEW visible \in Nat, NEW total \in Nat,
         index < total
  PROVE  LET s == StartShowing(index, scroll, visible, total)
         IN  /\ s \in Nat /\ s <= index
             /\ visible > 0 => index < s + visible
             /\ visible = 0 => s = index
  BY DEF StartShowing, Minus, Lower

LEMMA RowFound ==
  ASSUME NEW T, NEW targets \in Seq(T), NEW target
  PROVE  LET row == RowOf(targets, target)
         IN  /\ row \in 0 .. Len(targets) /\ Len(targets) \in Nat
             /\ target \in Range(targets) => row # 0 /\ targets[row] = target
             /\ target \notin Range(targets) => row = 0
<1>1. Len(targets) \in Nat /\ DOMAIN targets = 1 .. Len(targets)
  BY LenProperties
<1>2. CASE target \in Range(targets)
  <2>1. \E i \in DOMAIN targets : targets[i] = target
    BY <1>2 DEF Range
  <2>2. RowOf(targets, target) = CHOOSE i \in DOMAIN targets : targets[i] = target
    BY <1>2 DEF RowOf
  <2>3. RowOf(targets, target) \in DOMAIN targets /\ targets[RowOf(targets, target)] = target
    BY <2>1, <2>2
  <2> QED
    BY <1>1, <1>2, <2>3
<1>3. CASE target \notin Range(targets)
  BY <1>1, <1>3 DEF RowOf
<1> QED
  BY <1>2, <1>3

\* The rows a frame showed, or one: a selection that scrolls is put first when none fits.
RowsShown(u) == IF u.scroll_visible = 0 THEN 1 ELSE u.scroll_visible

\* The selection is among the rows that show, as far as it is among those that scroll.
InView(u, targets) ==
  current_process_target(u) \in Range(targets) =>
    \E i \in DOMAIN targets : /\ targets[i] = current_process_target(u)
                              /\ u.scroll < i /\ i <= u.scroll + RowsShown(u)

\* The position is one of a row.
OnRow(u) == u.scroll <= Minus(u.display_total, 1)

LEMMA MakesVisible ==
  ASSUME NEW u, UiOk(u), NEW T, NEW targets \in Seq(T)
  PROVE  LET v == VisibleAmong(u, targets)
         IN  Moved(u, v) /\ InView(v, targets) /\ OnRow(v)
<1> DEFINE v == VisibleAmong(u, targets)
           target == current_process_target(u)
           row == RowOf(targets, target)
           total == Len(targets)
           shown == StartShowing(row - 1, u.scroll, u.scroll_visible, total)
           scroll == IF targets = <<>> THEN 0
                     ELSE IF row = 0 THEN Lower(u.scroll, total - 1) ELSE shown
<1>1. /\ row \in 0 .. total /\ total \in Nat
      /\ target \in Range(targets) => row # 0 /\ targets[row] = target
      /\ target \notin Range(targets) => row = 0
  BY RowFound
<1>2. DOMAIN targets = 1 .. total /\ (targets = <<>> <=> total = 0)
  BY LenProperties, EmptySeq
<1>3. v = [u EXCEPT !.display_total = total, !.scroll = scroll]
  BY DEF VisibleAmong
<1>4. u.scroll \in Nat /\ u.scroll_visible \in Nat
  BY DEF UiOk, Scrolling
<1> HIDE DEF row
<1>5. row # 0 => /\ shown \in Nat /\ shown <= row - 1
                 /\ u.scroll_visible > 0 => row - 1 < shown + u.scroll_visible
                 /\ u.scroll_visible = 0 => shown = row - 1
  <2>1. row # 0 => row - 1 \in Nat /\ row - 1 < total
    BY <1>1
  <2> HIDE DEF total
  <2> QED
    BY <1>1, <1>4, <2>1, Shows
<1> HIDE DEF v, total, shown, target
<1>6. scroll \in Nat /\ scroll <= Minus(total, 1)
  BY <1>1, <1>2, <1>4, <1>5 DEF Minus, Lower
<1>7. row # 0 => scroll = shown
  BY <1>1, <1>2
<1> HIDE DEF scroll
<1>8. Moved(u, v)
  BY <1>1, <1>3, <1>6 DEF Moved, UiOk, UiFields, Sorting, Scrolling, SameView, SameSelection
<1>9. v.scroll = scroll /\ v.display_total = total /\ v.scroll_visible = u.scroll_visible
  BY <1>3 DEF UiOk, UiFields
<1>10. current_process_target(v) = target
  BY <1>8 DEF Moved, SameSelection, current_process_target, target
<1>11. ASSUME target \in Range(targets)
       PROVE  \E i \in DOMAIN targets : /\ targets[i] = target
                                        /\ v.scroll < i /\ i <= v.scroll + RowsShown(v)
  <2>1. row \in DOMAIN targets /\ targets[row] = target /\ scroll = shown /\ row # 0
    BY <1>1, <1>2, <1>7, <1>11
  <2>2. v.scroll < row /\ row <= v.scroll + RowsShown(v)
    BY <1>1, <1>4, <1>5, <1>9, <2>1 DEF RowsShown
  <2> QED
    BY <2>1, <2>2
<1>12. OnRow(v)
  BY <1>6, <1>9 DEF OnRow
<1> QED
  BY <1>8, <1>10, <1>11, <1>12 DEF v, InView

LEMMA Ensures ==
  ASSUME NEW u, UiOk(u), NEW ps, Collected(ps)
  PROVE  LET v == ensure_selected_process_visible(u, ps)
         IN  /\ Moved(u, v)
             /\ current_process_target(u) = None => v = u
             /\ current_process_target(u) # None =>
                  InView(v, process_scroll_targets(v, ps)) /\ OnRow(v)
<1> DEFINE v == ensure_selected_process_visible(u, ps)
           targets == process_scroll_targets(u, ps)
<1>1. targets \in Seq(ProcessRowTarget)
  BY Navigation DEF UiOk
<1>2. CASE current_process_target(u) = None
  <2>1. v = u
    BY <1>2 DEF ensure_selected_process_visible
  <2> QED
    BY <1>2, <2>1 DEF Moved, SameView, SameSelection
<1>3. CASE current_process_target(u) # None
  <2>1. v = VisibleAmong(u, targets)
    BY <1>3 DEF ensure_selected_process_visible
  <2> HIDE DEF v, targets
  <2>2. Moved(u, v) /\ InView(v, targets) /\ OnRow(v)
    BY <1>1, <2>1, MakesVisible
  <2>3. process_scroll_targets(v, ps) = targets
    BY <2>2, SameRows DEF Moved, targets
  <2> QED
    BY <1>3, <2>2, <2>3 DEF v
<1> QED
  BY <1>2, <1>3

-----------------------------------------------------------------------------
(* A new snapshot.                                                         *)

Remaining(u, ps) ==
  WithoutTheGone(u, {p.id : p \in Range(ps)}, {p.program : p \in Range(ps)})

LEMMA ForgottenFields ==
  ASSUME NEW u, UiOk(u), NEW ids, NEW programs
  PROVE  LET w == WithoutTheGone(u, ids, programs)
             kept(value, there) == IF value \in there THEN value ELSE None
         IN  /\ UiOk(w) /\ SameScrolling(u, w)
             /\ w.selected_pid = kept(u.selected_pid, ids)
             /\ w.pinned_pid = kept(u.pinned_pid, ids)
             /\ w.selected_group = kept(u.selected_group, programs)
             /\ w.pinned_group = kept(u.pinned_group, programs)
             /\ w.expanded = u.expanded \intersect programs
             /\ w.query = u.query /\ w.sort_key = u.sort_key /\ w.sort_desc = u.sort_desc
<1> DEFINE w == WithoutTheGone(u, ids, programs)
           kept(value, there) == IF value \in there THEN value ELSE None
<1>1. w = [u EXCEPT !.selected_pid = kept(@, ids), !.pinned_pid = kept(@, ids),
                    !.selected_group = kept(@, programs), !.pinned_group = kept(@, programs),
                    !.expanded = @ \intersect programs]
  BY DEF WithoutTheGone
<1>2. \A there : kept(None, there) = None
  OBVIOUS
<1> HIDE DEF w, kept
<1>3. UiOk(w) /\ SameScrolling(u, w)
  BY <1>1, <1>2 DEF UiOk, UiFields, Sorting, Scrolling, SameScrolling
<1>4. /\ w.selected_pid = kept(u.selected_pid, ids)
      /\ w.pinned_pid = kept(u.pinned_pid, ids)
      /\ w.selected_group = kept(u.selected_group, programs)
      /\ w.pinned_group = kept(u.pinned_group, programs)
      /\ w.expanded = u.expanded \intersect programs
      /\ w.query = u.query /\ w.sort_key = u.sort_key /\ w.sort_desc = u.sort_desc
  BY <1>1 DEF UiOk, UiFields
<1> QED
  BY <1>3, <1>4 DEF w, kept

\* Forgetting what is gone keeps a selection that is still there.
LEMMA Forgets ==
  ASSUME NEW u, UiOk(u), NEW ps, Collected(ps)
  PROVE  LET w == Remaining(u, ps)
         IN  /\ UiOk(w) /\ SameScrolling(u, w) /\ w.query = u.query
             /\ current_process_target(u) # None =>
                  IF Same(u, ps) = {} THEN current_process_target(w) = None
                  ELSE current_process_target(w) # None /\ Same(w, ps) = Same(u, ps)
<1> DEFINE ids == {p.id : p \in Range(ps)}
           programs == {p.program : p \in Range(ps)}
           kept(value, there) == IF value \in there THEN value ELSE None
           w == Remaining(u, ps)
<1>0. None \notin Nat \union Identities \union ProcessRowTarget
  BY TableAssumption
<1>p. Range(ps) \subseteq Process
  BY FoundProcesses
<1>n. None \notin ids /\ None \notin programs
  BY <1>0, <1>p DEF Process
<1>1. /\ UiOk(w) /\ SameScrolling(u, w)
      /\ w.selected_pid = kept(u.selected_pid, ids)
      /\ w.pinned_pid = kept(u.pinned_pid, ids)
      /\ w.selected_group = kept(u.selected_group, programs)
      /\ w.pinned_group = kept(u.pinned_group, programs)
      /\ w.expanded = u.expanded \intersect programs
      /\ w.query = u.query /\ w.sort_key = u.sort_key /\ w.sort_desc = u.sort_desc
  BY ForgottenFields DEF Remaining
<1> HIDE DEF w
<1>2. \A p \in Range(ps) : p.id \in ids /\ p.program \in programs
  OBVIOUS
<1>s. /\ \A id \in ids : \E p \in Range(ps) : p.id = id
      /\ \A program \in programs : \E p \in Range(ps) : p.program = program
  OBVIOUS
<1> HIDE DEF ids, programs
<1>t. \A id \in Identities : ProcessT(id) # None
  BY <1>0 DEF ProcessT, ProcessRowTarget
<1>i. \A program \in Nat : GroupT(program) # None
  BY <1>0 DEF GroupT, ProcessRowTarget
<1>3. ASSUME current_process_target(u) # None
      PROVE  IF Same(u, ps) = {} THEN current_process_target(w) = None
             ELSE current_process_target(w) # None /\ Same(w, ps) = Same(u, ps)
  <2>1. CASE u.selected_pid # None
    <3>1. u.selected_group = None
      BY <2>1 DEF UiOk
    <3>2. Same(u, ps) = {p \in Range(ps) : p.id = u.selected_pid}
      BY <2>1 DEF Same
    <3>3. CASE u.selected_pid \in ids
      <4>1. w.selected_pid = u.selected_pid
        BY <1>1, <3>3
      <4>2. Same(w, ps) = Same(u, ps) /\ Same(u, ps) # {}
        BY <1>s, <2>1, <3>2, <3>3, <4>1 DEF Same
      <4>3. u.selected_pid \in Identities
        BY <1>p, <1>s, <3>3 DEF Process
      <4>4. current_process_target(w) # None
        BY <1>t, <2>1, <4>1, <4>3 DEF current_process_target
      <4> QED
        BY <4>2, <4>4
    <3>4. CASE u.selected_pid \notin ids
      <4>1. w.selected_pid = None /\ w.selected_group = None
        BY <1>1, <3>1, <3>4
      <4>2. Same(u, ps) = {}
        BY <1>2, <3>2, <3>4
      <4> QED
        BY <4>1, <4>2 DEF current_process_target
    <3> QED
      BY <3>3, <3>4
  <2>2. CASE u.selected_pid = None
    <3>1. w.selected_pid = None
      BY <1>1, <2>2
    <3>2. /\ Same(u, ps) = {p \in Range(ps) : p.program = u.selected_group}
          /\ Same(w, ps) = {p \in Range(ps) : p.program = w.selected_group}
      BY <2>2, <3>1 DEF Same
    <3>3. CASE u.selected_group \in programs
      <4>1. w.selected_group = u.selected_group
        BY <1>1, <3>3
      <4>2. Same(w, ps) = Same(u, ps) /\ Same(u, ps) # {}
        BY <1>s, <3>2, <3>3, <4>1
      <4>3. u.selected_group \in Nat
        BY <1>p, <1>s, <3>3 DEF Process
      <4>4. current_process_target(w) = GroupT(w.selected_group)
        <5>1. w.selected_group # None
          BY <1>0, <4>1, <4>3
        <5> QED
          BY <3>1, <5>1 DEF current_process_target
      <4> QED
        BY <1>i, <4>1, <4>2, <4>3, <4>4
    <3>4. CASE u.selected_group \notin programs
      <4>1. w.selected_group = None
        BY <1>1, <3>4
      <4>2. Same(u, ps) = {}
        BY <1>2, <3>2, <3>4
      <4> QED
        BY <3>1, <4>1, <4>2 DEF current_process_target
    <3> QED
      BY <3>3, <3>4
  <2> QED
    BY <2>1, <2>2
<1> QED
  BY <1>1, <1>3 DEF w

\* Where the selection is: a row that a key can reach, in view.
Followed(u, ps) ==
  current_process_target(u) # None =>
    /\ current_process_target(u) \in Range(process_navigation_targets(u, ps))
    /\ InView(u, process_scroll_targets(u, ps))

LEMMA SameTargets ==
  ASSUME NEW u, NEW v, SameSelection(u, v)
  PROVE  current_process_target(u) = current_process_target(v)
  BY DEF SameSelection, current_process_target

\* What moves neither rows nor the selection keeps it followed.
LEMMA StillFollowed ==
  ASSUME NEW u, NEW v, NEW ps, SameView(u, v), SameSelection(u, v), SameScrolling(u, v),
         Followed(u, ps)
  PROVE  Followed(v, ps)
<1>1. /\ process_navigation_targets(v, ps) = process_navigation_targets(u, ps)
      /\ process_scroll_targets(v, ps) = process_scroll_targets(u, ps)
  BY SameRows
<1>2. current_process_target(v) = current_process_target(u)
  BY SameTargets
<1> QED
  BY <1>1, <1>2 DEF Followed, InView, RowsShown, SameScrolling

\* A row that is chosen is followed once it has been made visible.
LEMMA ChosenIsFollowed ==
  ASSUME NEW u, UiOk(u), NEW ps, Collected(ps),
         current_process_target(u) # None =>
           current_process_target(u) \in Range(process_navigation_targets(u, ps))
  PROVE  LET v == ensure_selected_process_visible(u, ps)
         IN  /\ Moved(u, v) /\ Followed(v, ps)
             /\ current_process_target(u) # None => OnRow(v)
<1> DEFINE v == ensure_selected_process_visible(u, ps)
<1>1. /\ Moved(u, v)
      /\ current_process_target(u) = None => v = u
      /\ current_process_target(u) # None =>
           InView(v, process_scroll_targets(v, ps)) /\ OnRow(v)
  BY Ensures
<1> HIDE DEF v
<1>2. current_process_target(u) = current_process_target(v)
  BY <1>1, SameTargets DEF Moved
<1>3. process_navigation_targets(u, ps) = process_navigation_targets(v, ps)
  BY <1>1, SameRows DEF Moved
<1> QED
  BY <1>1, <1>2, <1>3 DEF Followed, v

LEMMA Clamps ==
  ASSUME NEW u, UiOk(u), NEW ps, Collected(ps)
  PROVE  LET v == clamp_process_selection(u, ps)
             now == current_process_target(v)
         IN  /\ UiOk(v) /\ Followed(v, ps)
             /\ current_process_target(u) # None =>
                  IF now = None THEN Same(u, ps) = {} \/ u.query # None
                  ELSE now \in Heirs(Same(u, ps))
<1> DEFINE w == Remaining(u, ps)
           n == normalize_process_selection(w, ps)
           e == ensure_selected_process_visible(n, ps)
           v == clamp_process_selection(u, ps)
           now == current_process_target(v)
<1>1. v = [e EXCEPT !.scroll = Lower(@, Minus(e.display_total, 1))]
  BY DEF clamp_process_selection, Remaining
<1>2. /\ UiOk(w) /\ SameScrolling(u, w) /\ w.query = u.query
      /\ current_process_target(u) # None =>
           IF Same(u, ps) = {} THEN current_process_target(w) = None
           ELSE current_process_target(w) # None /\ Same(w, ps) = Same(u, ps)
  BY Forgets
<1> HIDE DEF w
<1>3. /\ UiOk(n) /\ SameView(w, n) /\ SameScrolling(w, n)
      /\ current_process_target(n) # None =>
           current_process_target(n) \in Range(process_navigation_targets(n, ps))
      /\ current_process_target(w) = None => current_process_target(n) = None
      /\ current_process_target(w) # None /\ Same(w, ps) # {} =>
           IF current_process_target(n) = None THEN w.query # None
           ELSE current_process_target(n) \in Heirs(Same(w, ps))
  BY <1>2, Normalizes
<1> HIDE DEF n
<1>4. Moved(n, e) /\ Followed(e, ps) /\ (current_process_target(n) # None => OnRow(e))
  BY <1>3, ChosenIsFollowed
<1> HIDE DEF e, v
<1>5. Moved(e, v)
  <2>1. e.scroll \in Nat /\ e.display_total \in Nat
    BY <1>4 DEF Moved, UiOk, Scrolling
  <2>2. Lower(e.scroll, Minus(e.display_total, 1)) \in Nat
    BY <2>1 DEF Lower, Minus
  <2> QED
    BY <1>1, <1>4, <2>2 DEF Moved, UiOk, UiFields, Sorting, Scrolling, SameView, SameSelection
<1>6. /\ current_process_target(n) = current_process_target(e)
      /\ current_process_target(e) = current_process_target(v)
  BY <1>4, <1>5, SameTargets DEF Moved
<1>7. Followed(v, ps)
  <2> SUFFICES ASSUME current_process_target(v) # None
               PROVE  /\ current_process_target(v) \in Range(process_navigation_targets(v, ps))
                      /\ InView(v, process_scroll_targets(v, ps))
    BY DEF Followed
  <2>1. /\ process_navigation_targets(e, ps) = process_navigation_targets(v, ps)
        /\ process_scroll_targets(e, ps) = process_scroll_targets(v, ps)
    BY <1>5, SameRows DEF Moved
  <2>2. /\ current_process_target(e) \in Range(process_navigation_targets(e, ps))
        /\ InView(e, process_scroll_targets(e, ps))
    BY <1>4, <1>6 DEF Followed
  <2>3. e.scroll \in Nat /\ e.display_total \in Nat /\ e.scroll <= Minus(e.display_total, 1)
    BY <1>4, <1>6 DEF Moved, UiOk, Scrolling, OnRow
  <2>4. v.scroll = Lower(e.scroll, Minus(e.display_total, 1)) /\ v.display_total = e.display_total
    BY <1>1, <1>4 DEF Moved, UiOk, UiFields
  <2>5. v.scroll = e.scroll
    BY <2>3, <2>4 DEF Lower, Minus
  <2>6. v.scroll_visible = e.scroll_visible
    BY <1>5 DEF Moved
  <2> QED
    BY <1>6, <2>1, <2>2, <2>5, <2>6 DEF InView, RowsShown
<1>8. UiOk(v)
  BY <1>5 DEF Moved
<1>9. ASSUME current_process_target(u) # None
       PROVE  IF now = None THEN Same(u, ps) = {} \/ u.query # None
              ELSE now \in Heirs(Same(u, ps))
  <2>1. now = current_process_target(n)
    BY <1>6
  <2>2. CASE Same(u, ps) = {}
    BY <1>2, <1>3, <1>9, <2>1, <2>2
  <2>3. CASE Same(u, ps) # {}
    BY <1>2, <1>3, <1>9, <2>1, <2>3
  <2> QED
    BY <2>2, <2>3
<1> QED
  BY <1>7, <1>8, <1>9 DEF v

-----------------------------------------------------------------------------
(* The keys.                                                               *)

\* What a key of the table does: it chooses a row, and only that changes.
Chooses(u, v, ps) ==
  /\ UiOk(v) /\ SameView(u, v) /\ v.scroll_visible = u.scroll_visible
  /\ Followed(v, ps)

\* A row is selected, or none, and made visible from some position.
LEMMA ChoiceIsFollowed ==
  ASSUME NEW u, NEW c, UiOk(c), SameView(u, c), c.scroll_visible = u.scroll_visible,
         NEW ps, Collected(ps),
         current_process_target(c) # None =>
           current_process_target(c) \in Range(process_navigation_targets(c, ps))
  PROVE  Chooses(u, ensure_selected_process_visible(c, ps), ps)
<1> DEFINE v == ensure_selected_process_visible(c, ps)
<1>1. Moved(c, v) /\ Followed(v, ps)
  BY ChosenIsFollowed
<1> HIDE DEF v
<1>2. UiOk(v) /\ SameView(u, v) /\ v.scroll_visible = u.scroll_visible
  BY <1>1 DEF Moved, SameView
<1> QED
  BY <1>1, <1>2 DEF Chooses, v

\* The list of a key, and a choice from it with another position.
LEMMA Placing ==
  ASSUME NEW u, UiOk(u), NEW scroll \in Nat
  PROVE  LET v == [u EXCEPT !.scroll = scroll]
         IN  /\ UiOk(v) /\ SameView(u, v) /\ v.scroll_visible = u.scroll_visible
             /\ current_process_target(v) = current_process_target(u)
<1> DEFINE v == [u EXCEPT !.scroll = scroll]
<1>1. /\ UiOk(v) /\ SameView(u, v) /\ v.scroll_visible = u.scroll_visible /\ SameSelection(u, v)
  BY DEF UiOk, UiFields, Sorting, Scrolling, SameView, SameSelection
<1> HIDE DEF v
<1>2. current_process_target(v) = current_process_target(u)
  BY <1>1, SameTargets
<1> QED
  BY <1>1, <1>2 DEF v

LEMMA Jumps ==
  ASSUME NEW u, UiOk(u), NEW ps, Collected(ps), NEW scroll \in Nat, NEW target,
         NEW chosen,
         \/ chosen = Unselected(u)
         \/ /\ target \in Range(process_navigation_targets(u, ps))
            /\ chosen = select_process_target(u, target)
  PROVE  Chooses(u, ensure_selected_process_visible([chosen EXCEPT !.scroll = scroll], ps), ps)
<1> DEFINE c == [chosen EXCEPT !.scroll = scroll]
<1>1. Range(process_navigation_targets(u, ps)) \subseteq ProcessRowTarget
  BY Navigation, RangeOfSeq DEF UiOk
<1>2. /\ UiOk(chosen) /\ SameView(u, chosen) /\ SameScrolling(u, chosen)
      /\ current_process_target(chosen) # None =>
           current_process_target(chosen) \in Range(process_navigation_targets(u, ps))
  <2>1. CASE chosen = Unselected(u)
    BY <2>1, Unselects
  <2>2. CASE /\ target \in Range(process_navigation_targets(u, ps))
             /\ chosen = select_process_target(u, target)
    BY <1>1, <2>2, Selects
  <2> QED
    BY <2>1, <2>2
<1>3. /\ UiOk(c) /\ SameView(chosen, c) /\ c.scroll_visible = chosen.scroll_visible
      /\ current_process_target(c) = current_process_target(chosen)
  BY <1>2, Placing
<1> HIDE DEF c
<1>4. SameView(u, c) /\ c.scroll_visible = u.scroll_visible
  BY <1>2, <1>3 DEF SameView, SameScrolling
<1>5. process_navigation_targets(c, ps) = process_navigation_targets(u, ps)
  BY <1>4, SameRows
<1> QED
  BY <1>2, <1>3, <1>4, <1>5, ChoiceIsFollowed DEF c

LEMMA HomeAndEnd ==
  ASSUME NEW u, UiOk(u), NEW ps, Collected(ps)
  PROVE  Chooses(u, process_home(u, ps), ps) /\ Chooses(u, process_end(u, ps), ps)
<1> DEFINE targets == process_navigation_targets(u, ps)
           first == IF targets = <<>> THEN Unselected(u) ELSE select_process_target(u, targets[1])
           last == IF targets = <<>> THEN Unselected(u) ELSE select_process_target(u, Last(targets))
           scroll == Minus(Len(targets), 1)
<1>1. targets \in Seq(ProcessRowTarget)
  BY Navigation DEF UiOk
<1>2. /\ process_home(u, ps) = ensure_selected_process_visible([first EXCEPT !.scroll = 0], ps)
      /\ process_end(u, ps) = ensure_selected_process_visible([last EXCEPT !.scroll = scroll], ps)
  BY DEF process_home, process_end
<1>3. targets # <<>> => targets[1] \in Range(targets) /\ Last(targets) \in Range(targets)
  <2> SUFFICES ASSUME targets # <<>> PROVE targets[1] \in Range(targets) /\ Last(targets) \in Range(targets)
    OBVIOUS
  <2> HIDE DEF targets
  <2>1. Len(targets) \in Nat \ {0} /\ DOMAIN targets = 1 .. Len(targets)
    BY <1>1, EmptySeq, LenProperties
  <2>2. 1 \in DOMAIN targets /\ Len(targets) \in DOMAIN targets
    BY <2>1
  <2> QED
    BY <2>2 DEF Last, Range
<1>4. scroll \in Nat
  <2> HIDE DEF targets
  <2>1. Len(targets) \in Nat
    BY <1>1, LenProperties
  <2> QED
    BY <2>1 DEF Minus
<1>5. \/ first = Unselected(u)
      \/ targets[1] \in Range(targets) /\ first = select_process_target(u, targets[1])
  BY <1>3
<1>6. \/ last = Unselected(u)
      \/ Last(targets) \in Range(targets) /\ last = select_process_target(u, Last(targets))
  BY <1>3
<1> HIDE DEF first, last, scroll
<1>7. Chooses(u, process_home(u, ps), ps)
  BY <1>2, <1>5, Jumps
<1>8. Chooses(u, process_end(u, ps), ps)
  BY <1>2, <1>4, <1>6, Jumps
<1> QED
  BY <1>7, <1>8

LEMMA Moves ==
  ASSUME NEW u, UiOk(u), NEW ps, Collected(ps), NEW delta \in Int
  PROVE  Chooses(u, move_process_selection(u, ps, delta), ps)
<1> DEFINE f == normalize_process_selection(u, ps)
           targets == process_navigation_targets(f, ps)
           row == RowOf(targets, current_process_target(f))
           index == IF row = 0 THEN Lower(f.scroll, Len(targets) - 1)
                    ELSE IF delta < 0 THEN Minus(row - 1, -delta)
                    ELSE Lower(row - 1 + delta, Len(targets) - 1)
           v == move_process_selection(u, ps, delta)
<1>1. UiOk(f) /\ SameView(u, f) /\ SameScrolling(u, f)
  BY Normalizes
<1>2. v = IF targets = <<>> THEN [Unselected(f) EXCEPT !.scroll = 0]
          ELSE ensure_selected_process_visible(select_process_target(f, targets[index + 1]), ps)
  BY DEF move_process_selection, MovedAmong
<1> HIDE DEF f, v
<1>3. targets \in Seq(ProcessRowTarget)
  BY <1>1, Navigation DEF UiOk
<1> HIDE DEF targets
<1>4. Len(targets) \in Nat /\ DOMAIN targets = 1 .. Len(targets) /\ (targets # <<>> => Len(targets) # 0)
  BY <1>3, LenProperties, EmptySeq
<1>5. row \in 0 .. Len(targets)
  BY <1>3, RowFound
<1> HIDE DEF row
<1>6. CASE targets = <<>>
  <2>1. v = [Unselected(f) EXCEPT !.scroll = 0]
    BY <1>2, <1>6
  <2> DEFINE c == Unselected(f)
  <2>2. UiOk(c) /\ SameView(f, c) /\ SameScrolling(f, c) /\ current_process_target(c) = None
    BY <1>1, Unselects
  <2> HIDE DEF c
  <2>3. /\ UiOk(v) /\ SameView(c, v) /\ v.scroll_visible = c.scroll_visible
        /\ current_process_target(v) = None
    BY <2>1, <2>2, Placing DEF c
  <2> QED
    BY <1>1, <2>2, <2>3 DEF Chooses, Followed, SameView, SameScrolling, v
<1>7. CASE targets # <<>>
  <2>1. index \in Nat /\ index < Len(targets)
    <3>1. f.scroll \in Nat
      BY <1>1 DEF UiOk, Scrolling
    <3> QED
      BY <1>4, <1>5, <1>7, <3>1 DEF Lower, Minus
  <2> HIDE DEF index
  <2> DEFINE target == targets[index + 1]
             c == select_process_target(f, target)
  <2>2. index + 1 \in DOMAIN targets
    BY <1>4, <2>1
  <2>3. target \in Range(targets) /\ target \in ProcessRowTarget
    BY <1>3, <1>4, <2>2, ElementOfSeq DEF Range
  <2>4. v = ensure_selected_process_visible(c, ps)
    BY <1>2, <1>7
  <2> HIDE DEF target
  <2>5. UiOk(c) /\ SameView(f, c) /\ SameScrolling(f, c) /\ current_process_target(c) = target
    BY <1>1, <2>3, Selects
  <2> HIDE DEF c
  <2>6. SameView(u, c) /\ c.scroll_visible = u.scroll_visible
    BY <1>1, <2>5 DEF SameView, SameScrolling
  <2>7. process_navigation_targets(c, ps) = targets
    BY <2>5, SameRows DEF targets
  <2>8. Chooses(u, v, ps)
    BY <2>3, <2>4, <2>5, <2>6, <2>7, ChoiceIsFollowed
  <2> QED
    BY <2>8 DEF v
<1> QED
  BY <1>6, <1>7

-----------------------------------------------------------------------------
(* The frame.                                                              *)

\* What a frame leaves behind, and that one with no fewer scrolled rows than the last
\* has the row of a selection that is followed, and keeps it in view.
LEMMA Draws ==
  ASSUME NEW u, UiOk(u), NEW ps, Collected(ps), NEW size \in Nat
  PROVE  LET v == draw_processes(u, ps, size)
         IN  /\ UiOk(v) /\ SameView(u, v) /\ SameSelection(u, v)
             /\ Followed(u, ps) /\ v.scroll_visible >= u.scroll_visible =>
                  /\ Followed(v, ps)
                  /\ v.scroll_visible > 0 /\ current_process_target(u) # None =>
                       \E i \in 1 .. Len(v.rows) : v.rows[i] = current_process_target(u)
<1> DEFINE groups == grouped_process_rows_filtered(u, ps)
           fixed == take_pinned_group_rows(u, groups)
           targets == LeftRows(u, groups)
           all == PinnedRow(u, ps)
           pinned == IF size = 0 THEN <<>> ELSE all
           visible == Minus(size, Len(pinned) + Len(fixed))
           start == Lower(u.scroll, Minus(Len(targets), visible))
           end == Lower(start + visible, Len(targets))
           top == pinned \o fixed
           part == SubSeq(targets, start + 1, end)
           rows == top \o part
           painted == SubSeq(rows, 1, Lower(size, Len(rows)))
           v == draw_processes(u, ps, size)
           target == current_process_target(u)
           T == ProcessRowTarget
           H == Heirs(Range(ps))
<1>1. v = [u EXCEPT !.display_total = Len(targets), !.scroll_visible = visible, !.scroll = start,
                    !.rows = painted, !.header = size > 0]
  BY DEF draw_processes
<1>2. /\ all \in Seq(H) /\ fixed \in Seq(H) /\ targets \in Seq(H)
      /\ process_scroll_targets(u, ps) = targets
      /\ Range(process_navigation_targets(u, ps)) = Range(all) \union Range(fixed) \union Range(targets)
  BY Navigation DEF UiOk
<1> HIDE DEF H, all, fixed, targets, v
<1>3. pinned \in Seq(H)
  BY <1>2, EmptySeq
<1>4. Len(<<>>) = 0
  BY EmptySeq
<1>5. visible = Minus(size, Len(all) + Len(fixed)) /\ (visible > 0 => pinned = all)
  <2>1. Len(all) \in Nat /\ Len(fixed) \in Nat
    BY <1>2, LenProperties
  <2> QED
    BY <1>4, <2>1 DEF Minus
<1> HIDE DEF pinned
<1>6. Len(pinned) \in Nat /\ Len(fixed) \in Nat /\ Len(targets) \in Nat /\ DOMAIN targets = 1 .. Len(targets)
  BY <1>2, <1>3, LenProperties
<1>7. /\ visible \in Nat /\ visible <= size
      /\ visible > 0 => Len(pinned) + Len(fixed) + visible = size
  BY <1>6 DEF Minus
<1> HIDE DEF visible
<1>8. u.scroll \in Nat
  BY DEF UiOk, Scrolling
<1>9. /\ start \in Nat /\ end \in Nat /\ end <= Len(targets) /\ end <= start + visible
      /\ start <= u.scroll
  BY <1>6, <1>7, <1>8 DEF Lower, Minus
<1>f. start = u.scroll \/ Len(targets) <= start + visible
  <2> DEFINE room == Minus(Len(targets), visible)
  <2>1. room \in Nat /\ Len(targets) <= room + visible
    BY <1>6, <1>7 DEF Minus
  <2>2. start = u.scroll \/ start = room
    BY DEF Lower
  <2> HIDE DEF room, start
  <2> QED
    BY <2>1, <2>2
<1>e. end = Lower(start + visible, Len(targets))
  OBVIOUS
<1> HIDE DEF start, end
<1>10. /\ top \in Seq(H) /\ Len(top) = Len(pinned) + Len(fixed)
       /\ Range(top) = Range(pinned) \union Range(fixed)
  BY <1>2, <1>3, ConcatProperties, RangeConcatenation
<1>11. /\ part \in Seq(H) /\ Len(part) = (IF start + 1 <= end THEN end - start ELSE 0)
       /\ \A i \in 1 .. end - start : part[i] = targets[start + i]
  <2> DEFINE m == start + 1
  <2>1. m \in Int /\ end \in Int /\ m = start + 1
    BY <1>9
  <2>2. \A i \in m .. end : i \in 1 .. Len(targets)
    BY <1>6, <1>9, <2>1
  <2> HIDE DEF m
  <2>3. \A i \in m .. end : targets[i] \in H
    BY <1>2, <2>2, ElementOfSeq
  <2>4. /\ SubSeq(targets, m, end) \in Seq(H)
        /\ Len(SubSeq(targets, m, end)) = IF m <= end THEN end - m + 1 ELSE 0
        /\ \A i \in 1 .. end - m + 1 : SubSeq(targets, m, end)[i] = targets[m + i - 1]
    BY <2>1, <2>3, SubSeqProperties
  <2>5. end - m + 1 = end - start /\ \A i \in Int : m + i - 1 = start + i
    BY <1>9, <2>1
  <2>6. \A i \in 1 .. end - start : i \in Int
    OBVIOUS
  <2> QED
    BY <2>1, <2>4, <2>5, <2>6 DEF m
<1> HIDE DEF top, part
<1>12. /\ rows \in Seq(H) /\ Len(rows) = Len(top) + Len(part)
       /\ Range(rows) = Range(top) \union Range(part)
       /\ Len(rows) \in Nat /\ DOMAIN rows = 1 .. Len(rows) /\ Len(part) \in Nat
  <2>0. top \in Seq(H) /\ part \in Seq(H)
    BY <1>10, <1>11
  <2>1. /\ rows \in Seq(H) /\ Len(rows) = Len(top) + Len(part)
        /\ Range(rows) = Range(top) \union Range(part)
    BY <2>0, ConcatProperties, RangeConcatenation
  <2> HIDE DEF rows
  <2>2. Len(rows) \in Nat /\ DOMAIN rows = 1 .. Len(rows) /\ Len(part) \in Nat
    BY <1>11, <2>1, LenProperties
  <2> QED
    BY <2>1, <2>2
<1> HIDE DEF rows
<1>13. Len(rows) <= size /\ visible > 0 => painted = rows
  <2>1. Len(rows) <= size => Lower(size, Len(rows)) = Len(rows)
    BY <1>12 DEF Lower
  <2>2. SubSeq(rows, 1, Len(rows)) = rows
    BY <1>12, SubSeqFull
  <2> QED
    BY <2>1, <2>2
<1>14. visible > 0 => painted = rows
  <2>1. visible > 0 => Len(rows) <= size
    BY <1>6, <1>7, <1>9, <1>10, <1>11, <1>12
  <2> QED
    BY <1>13, <2>1
<1> HIDE DEF painted
<1>15. UiOk(v) /\ SameView(u, v) /\ SameSelection(u, v)
  BY <1>1, <1>6, <1>7, <1>9 DEF UiOk, UiFields, Sorting, Scrolling, SameView, SameSelection
<1>16. v.scroll_visible = visible /\ v.rows = painted /\ v.scroll = start
  BY <1>1 DEF UiOk, UiFields
<1>17. /\ current_process_target(v) = target
       /\ process_scroll_targets(v, ps) = targets
       /\ process_navigation_targets(v, ps) = process_navigation_targets(u, ps)
  BY <1>2, <1>15, SameRows, SameTargets
<1>18. ASSUME Followed(u, ps), visible >= u.scroll_visible, target \in Range(targets)
       PROVE  \E i \in DOMAIN targets : targets[i] = target /\ start < i /\ i <= start + RowsShown(v)
  <2>1. target # None
    <3>1. Range(targets) \subseteq H
      BY <1>2, RangeOfSeq
    <3>2. H \subseteq ProcessRowTarget
      BY FoundProcesses, HeirsAreRows DEF H
    <3> QED
      BY <1>18, <3>1, <3>2, TableAssumption
  <2>2. PICK i \in DOMAIN targets :
          targets[i] = target /\ u.scroll < i /\ i <= u.scroll + RowsShown(u)
    BY <1>2, <1>18, <2>1 DEF Followed, InView
  <2>3. u.scroll_visible \in Nat
    BY DEF UiOk, Scrolling
  <2>4. i \in Nat /\ i <= Len(targets)
    BY <1>6
  <2>5. start < i /\ i <= start + RowsShown(v)
    <3>1. RowsShown(u) \in Nat /\ RowsShown(v) \in Nat /\ RowsShown(u) <= RowsShown(v)
      BY <1>7, <1>16, <1>18, <2>3 DEF RowsShown
    <3>2. visible <= RowsShown(v)
      BY <1>7, <1>16 DEF RowsShown
    <3> QED
      BY <1>6, <1>7, <1>8, <1>9, <1>f, <2>2, <2>4, <3>1, <3>2
  <2> QED
    BY <2>2, <2>5
<1>19. ASSUME Followed(u, ps), visible >= u.scroll_visible
       PROVE  Followed(v, ps)
  BY <1>2, <1>16, <1>17, <1>18, <1>19 DEF Followed, InView
<1>20. ASSUME Followed(u, ps), visible >= u.scroll_visible, visible > 0, target # None
       PROVE  \E i \in 1 .. Len(v.rows) : v.rows[i] = target
  <2>1. v.rows = rows /\ pinned = all
    BY <1>5, <1>14, <1>16, <1>20
  <2>2. target \in Range(all) \union Range(fixed) \union Range(targets)
    BY <1>2, <1>20 DEF Followed
  <2>3. target \in Range(rows)
    <3>1. CASE target \in Range(all) \union Range(fixed)
      BY <1>10, <1>12, <2>1, <3>1
    <3>2. CASE target \in Range(targets)
      <4>1. PICK i \in DOMAIN targets : targets[i] = target /\ start < i /\ i <= start + RowsShown(v)
        BY <1>18, <1>20, <3>2
      <4> DEFINE k == i - start
      <4>2. k \in 1 .. end - start /\ start + k = i /\ k \in 1 .. Len(part)
        <5>1. i \in Nat /\ i <= Len(targets) /\ start < i /\ i <= start + visible
          BY <1>6, <1>16, <1>20, <4>1 DEF RowsShown
        <5>2. i <= end
          BY <1>6, <1>7, <1>9, <1>e, <5>1 DEF Lower
        <5>3. k \in 1 .. end - start /\ start + k = i
          BY <1>9, <5>1, <5>2
        <5> HIDE DEF k
        <5> QED
          BY <1>9, <1>11, <5>3
      <4> HIDE DEF k
      <4>3. part[k] = target /\ k \in DOMAIN part
        BY <1>11, <4>1, <4>2, LenProperties
      <4> QED
        BY <1>12, <4>3 DEF Range
    <3> QED
      BY <2>2, <3>1, <3>2
  <2> QED
    BY <1>12, <2>1, <2>3 DEF Range
<1> HIDE DEF target
<1> QED
  BY <1>15, <1>16, <1>19, <1>20 DEF v, target

-----------------------------------------------------------------------------
(* The collector.                                                          *)

CacheOk(cache) == \A id \in DOMAIN cache : cache[id] \in Nat

LEMMA Collects ==
  ASSUME NEW cache, CacheOk(cache), NEW reads, Scanned(reads)
  PROVE  LET stats == collect_process_stats(cache, reads)
         IN  Collected(stats) /\ CacheOk(retain(stats))
<1> DEFINE stats == collect_process_stats(cache, reads)
           P == [id : Identities, name : Nat, load : Nat \union {None}]
           of(i) == [id |-> reads[i].id, program |-> stable(cache, reads[i]), load |-> reads[i].load]
<1>1. /\ Len(reads) \in Nat /\ DOMAIN reads = 1 .. Len(reads)
      /\ \A i \in DOMAIN reads : reads[i] \in P
  <2>1. reads \in Seq(P)
    BY DEF Scanned
  <2> HIDE DEF P
  <2> QED
    BY <2>1, LenProperties, ElementOfSeq
<1>2. ASSUME NEW i \in DOMAIN reads PROVE of(i) \in Process
  <2>1. reads[i].id \in Identities /\ reads[i].name \in Nat /\ reads[i].load \in Nat \union {None}
    BY <1>1
  <2>2. stable(cache, reads[i]) \in Nat
    BY <2>1 DEF stable, CacheOk
  <2> QED
    BY <2>1, <2>2 DEF Process
<1>3. stats = [i \in 1 .. Len(reads) |-> of(i)]
  BY <1>1 DEF collect_process_stats
<1>4. \A i \in DOMAIN reads : stats[i].id = reads[i].id
  BY <1>1, <1>3
<1> HIDE DEF stats
<1>5. stats \in [1 .. Len(reads) -> Process]
  BY <1>1, <1>2, <1>3
<1>6. stats \in Seq(Process) /\ DOMAIN stats = DOMAIN reads
  BY <1>1, <1>5, FunctionIsSeq
<1>7. Collected(stats)
  BY <1>4, <1>6 DEF Collected, Scanned
<1>8. ASSUME NEW id \in DOMAIN retain(stats) PROVE retain(stats)[id] \in Nat
  <2>1. Range(stats) \subseteq Process
    BY <1>7, FoundProcesses
  <2>2. \E p \in Range(stats) : p.id = id
    BY DEF retain
  <2>3. retain(stats)[id] = (CHOOSE p \in Range(stats) : p.id = id).program
    BY DEF retain
  <2>4. (CHOOSE p \in Range(stats) : p.id = id) \in Range(stats)
    BY <2>2
  <2> QED
    BY <2>1, <2>3, <2>4 DEF Process
<1> QED
  BY <1>7, <1>8 DEF CacheOk, stats

-----------------------------------------------------------------------------
(* The invariant.                                                          *)

TableSpec == TableInit /\ [][TableNext]_tableVars

\* What the table keeps is of its type; and until the rows move for another reason or a
\* frame has fewer, the selection that a key or a snapshot scrolled to is in view of the
\* number of rows of the last frame.
TableInv ==
  /\ CacheOk(proc_cache) /\ Collected(processes) /\ UiOk(ui)
  /\ pane \in Panes /\ due \in BOOLEAN /\ followed \in BOOLEAN
  /\ followed => Followed(ui, processes)

LEMMA TableStarts == TableInit => TableInv
<1> SUFFICES ASSUME TableInit PROVE TableInv
  OBVIOUS
<1>1. proc_cache = <<>> /\ processes = <<>> /\ due = TRUE /\ followed = FALSE /\ pane \in Panes
  BY DEF TableInit
<1>2. CacheOk(proc_cache)
  BY <1>1 DEF CacheOk
<1>3. Collected(processes)
  BY <1>1, EmptySeq DEF Collected
<1>4. UiOk(ui)
  BY DEF TableInit, UiOk, UiFields, Sorting, SortColumns, Scrolling
<1> QED
  BY <1>1, <1>2, <1>3, <1>4 DEF TableInv

\* Keys and clicks that do not choose a row keep the record as it should be.
LEMMA OtherInputs ==
  ASSUME NEW u, UiOk(u), NEW ps, Collected(ps)
  PROVE  /\ UiOk([u EXCEPT !.search_open = TRUE, !.scroll = 0])
         /\ UiOk([u EXCEPT !.search_open = FALSE])
         /\ UiOk([u EXCEPT !.search_open = FALSE, !.query = None, !.scroll = 0])
         /\ \A term : UiOk([u EXCEPT !.query = term, !.scroll = 0])
         /\ UiOk(clear_process_selection(u))
         /\ \A key \in SortKeys : UiOk(click_process_sort(clear_process_selection(u), key))
         /\ \A target : \A recent \in BOOLEAN : UiOk(click_process_row(u, target, recent))
         /\ \A program : UiOk(right_click_process_group(u, program))
         /\ \A delta \in Int : UiOk(scroll_processes(u, delta))
<1>1. /\ UiOk([u EXCEPT !.search_open = TRUE, !.scroll = 0])
      /\ UiOk([u EXCEPT !.search_open = FALSE])
      /\ UiOk([u EXCEPT !.search_open = FALSE, !.query = None, !.scroll = 0])
      /\ \A term : UiOk([u EXCEPT !.query = term, !.scroll = 0])
      /\ \A program : UiOk(right_click_process_group(u, program))
  BY DEF UiOk, UiFields, Sorting, Scrolling, right_click_process_group
<1>2. UiOk(clear_process_selection(u))
  BY DEF UiOk, UiFields, Sorting, Scrolling, clear_process_selection, Unselected
<1>3. ASSUME NEW c, UiOk(c), NEW key \in SortKeys PROVE UiOk(click_process_sort(c, key))
  <2> DEFINE down == IF c.sort_key = key THEN ~c.sort_desc ELSE key = "Load"
             scroll == IF c.selected_pid = None THEN 0 ELSE c.scroll
  <2>1. click_process_sort(c, key) = [c EXCEPT !.sort_desc = down, !.sort_key = key, !.scroll = scroll]
    BY DEF click_process_sort
  <2>2. down \in BOOLEAN /\ scroll \in Nat /\ key \in SortColumns
    BY <1>3, TableAssumption DEF UiOk, Sorting, Scrolling, SortColumns
  <2> HIDE DEF down, scroll
  <2> QED
    BY <1>3, <2>1, <2>2 DEF UiOk, UiFields, Sorting, Scrolling
<1>4. ASSUME NEW target, NEW recent \in BOOLEAN PROVE UiOk(click_process_row(u, target, recent))
  <2> DEFINE double == recent /\ u.last_click = target
             s == select_process_target(u, target)
             chosen == [s EXCEPT !.last_click = IF double THEN None ELSE target]
             pin(old) == IF double \/ old = target[2] THEN target[2] ELSE None
  <2>1. UiOk(s)
    BY DEF UiOk, UiFields, Sorting, Scrolling, select_process_target
  <2> HIDE DEF s
  <2>2. UiOk(chosen)
    BY <2>1 DEF UiOk, UiFields, Sorting, Scrolling
  <2>3. click_process_row(u, target, recent) =
          IF target[1] = "process"
          THEN [chosen EXCEPT !.pinned_group = None, !.pinned_pid = pin(@)]
          ELSE [chosen EXCEPT !.pinned_pid = None, !.pinned_group = pin(@)]
    BY DEF click_process_row, s
  <2> HIDE DEF chosen, pin
  <2> QED
    BY <2>2, <2>3 DEF UiOk, UiFields, Sorting, Scrolling
<1>5. ASSUME NEW delta \in Int PROVE UiOk(scroll_processes(u, delta))
  <2> DEFINE scroll == IF u.display_total = 0 THEN 0
                       ELSE IF delta < 0 THEN Minus(u.scroll, -delta)
                       ELSE Lower(u.scroll + delta, Minus(u.display_total, 1))
  <2>1. scroll_processes(u, delta) = [u EXCEPT !.scroll = scroll]
    BY DEF scroll_processes
  <2>2. scroll \in Nat
    BY DEF UiOk, Scrolling, Minus, Lower
  <2> HIDE DEF scroll
  <2> QED
    BY <2>1, <2>2, Placing
<1> QED
  BY <1>1, <1>2, <1>3, <1>4, <1>5

\* An event that is not followed.
LEMMA OtherInputStep ==
  ASSUME TableInv, NEW u, UiOk(u), Input(u, FALSE)
  PROVE  TableInv'
  BY DEF TableInv, Input

LEMMA KeyStep ==
  ASSUME TableInv, NEW u, UiOk(u), Followed(u, processes), Input(u, TRUE)
  PROVE  TableInv'
<1>1. /\ ~due /\ ui' = u /\ followed' = TRUE /\ due' = TRUE
      /\ proc_cache' = proc_cache /\ processes' = processes /\ pane' = pane
  BY DEF Input
<1> QED
  BY <1>1 DEF TableInv

\* Leaving the search with its query moves no row.
LEMMA AcceptStep ==
  ASSUME TableInv, AcceptSearchKey
  PROVE  TableInv'
<1> DEFINE u == [ui EXCEPT !.search_open = FALSE]
<1>1. /\ ui' = u /\ followed' = followed /\ due' = TRUE
      /\ proc_cache' = proc_cache /\ processes' = processes /\ pane' = pane
  BY DEF AcceptSearchKey, Input
<1>2. UiOk(ui) /\ UiOk(u)
  BY OtherInputs DEF TableInv
<1>3. SameView(ui, u) /\ SameSelection(ui, u) /\ SameScrolling(ui, u)
  BY <1>2 DEF UiOk, UiFields, SameView, SameSelection, SameScrolling
<1> HIDE DEF u
<1>4. Followed(ui, processes) => Followed(u, processes)
  BY <1>3, StillFollowed
<1> QED
  BY <1>1, <1>2, <1>4 DEF TableInv

LEMMA PaintStep ==
  ASSUME TableInv, Paint
  PROVE  /\ TableInv'
         /\ /\ followed /\ pane # Absent
            /\ ui'.scroll_visible > 0 /\ ui'.scroll_visible >= ui.scroll_visible
            /\ current_process_target(ui) # None
            => Contains(ui'.rows, current_process_target(ui'))
<1>1. /\ due /\ ui' = Painted(ui, processes, pane) /\ due' = FALSE
      /\ proc_cache' = proc_cache /\ processes' = processes /\ pane' = pane
      /\ followed' = (followed /\ ui'.scroll_visible >= ui.scroll_visible)
  BY DEF Paint
<1>2. /\ CacheOk(proc_cache) /\ Collected(processes) /\ UiOk(ui) /\ pane \in Panes
      /\ followed \in BOOLEAN /\ (followed => Followed(ui, processes))
  BY DEF TableInv
<1>3. CASE pane = Absent
  <2>1. ui' = [ui EXCEPT !.rows = <<>>, !.header = FALSE]
    BY <1>1, <1>3 DEF Painted
  <2>2. UiOk(ui') /\ SameView(ui, ui') /\ SameSelection(ui, ui') /\ SameScrolling(ui, ui')
    BY <1>2, <2>1 DEF UiOk, UiFields, Sorting, Scrolling, SameView, SameSelection, SameScrolling
  <2>3. Followed(ui, processes) => Followed(ui', processes)
    BY <2>2, StillFollowed
  <2> QED
    BY <1>1, <1>2, <1>3, <2>2, <2>3 DEF TableInv
<1>4. CASE pane # Absent
  <2> DEFINE v == draw_processes(ui, processes, pane)
  <2>1. ui' = v
    BY <1>1, <1>4 DEF Painted
  <2>2. pane \in Nat
    BY <1>2, <1>4, TableAssumption
  <2>3. /\ UiOk(v) /\ SameView(ui, v) /\ SameSelection(ui, v)
        /\ Followed(ui, processes) /\ v.scroll_visible >= ui.scroll_visible =>
             /\ Followed(v, processes)
             /\ v.scroll_visible > 0 /\ current_process_target(ui) # None =>
                  \E i \in 1 .. Len(v.rows) : v.rows[i] = current_process_target(ui)
    BY <1>2, <2>2, Draws
  <2> HIDE DEF v
  <2>4. TableInv'
    BY <1>1, <1>2, <2>1, <2>3 DEF TableInv
  <2>5. ASSUME followed, ui'.scroll_visible > 0, ui'.scroll_visible >= ui.scroll_visible,
               current_process_target(ui) # None
        PROVE  Contains(ui'.rows, current_process_target(ui'))
    <3>1. \E i \in 1 .. Len(v.rows) : v.rows[i] = current_process_target(ui)
      BY <1>2, <2>1, <2>3, <2>5
    <3>2. current_process_target(v) = current_process_target(ui)
      BY <2>3, SameTargets
    <3> QED
      BY <2>1, <3>1, <3>2 DEF Contains
  <2> QED
    BY <2>4, <2>5
<1> QED
  BY <1>3, <1>4

LEMMA CollectStep ==
  ASSUME TableInv, CollectAndApply
  PROVE  /\ TableInv'
         /\ current_process_target(ui) # None =>
              LET now == current_process_target(ui')
              IN  IF now = None THEN Same(ui, processes') = {} \/ ui.query # None
                  ELSE /\ now \in Heirs(Same(ui, processes'))
                       /\ Contains(process_navigation_targets(ui', processes'), now)
<1> DEFINE caches == {proc_cache} \union
                       {retain(collect_process_stats(proc_cache, lost)) : lost \in Tables}
           now == current_process_target(ui')
<1>1. PICK cache \in caches, reads \in Tables :
        /\ proc_cache' = retain(collect_process_stats(cache, reads))
        /\ processes' = collect_process_stats(cache, reads)
        /\ ui' = clamp_process_selection(ui, collect_process_stats(cache, reads))
        /\ followed' = TRUE
        /\ due' = TRUE
        /\ pane' \in Panes
  BY DEF CollectAndApply
<1>2. CacheOk(proc_cache) /\ UiOk(ui)
  BY DEF TableInv
<1>3. \A table \in Tables : Scanned(table)
  BY TableAssumption
<1>4. CacheOk(cache)
  BY <1>2, <1>3, Collects
<1> HIDE DEF caches
<1>5. Collected(processes') /\ CacheOk(proc_cache')
  BY <1>1, <1>3, <1>4, Collects
<1>6. ui' = clamp_process_selection(ui, processes')
  BY <1>1
<1> DEFINE ps == processes'
           v == clamp_process_selection(ui, ps)
<1>7. /\ UiOk(v) /\ Followed(v, ps)
      /\ current_process_target(ui) # None =>
           IF current_process_target(v) = None THEN Same(ui, ps) = {} \/ ui.query # None
           ELSE current_process_target(v) \in Heirs(Same(ui, ps))
  <2> HIDE DEF ps
  <2>1. Collected(ps)
    BY <1>5 DEF ps
  <2> QED
    BY <1>2, <2>1, Clamps
<1> HIDE DEF v
<1>8. ui' = v /\ pane' \in Panes /\ due' = TRUE /\ followed' = TRUE
  BY <1>1, <1>6 DEF v
<1>9. TableInv'
  BY <1>5, <1>7, <1>8 DEF TableInv
<1>10. ASSUME current_process_target(v) # None
       PROVE  Contains(process_navigation_targets(v, ps), current_process_target(v))
  <2> DEFINE nav == process_navigation_targets(v, ps)
  <2>1. nav \in Seq(ProcessRowTarget)
    BY <1>5, <1>7, Navigation DEF UiOk
  <2>2. current_process_target(v) \in Range(nav)
    BY <1>7, <1>10 DEF Followed
  <2> HIDE DEF nav, ps
  <2>3. DOMAIN nav = 1 .. Len(nav)
    BY <2>1, LenProperties
  <2>4. Contains(nav, current_process_target(v))
    BY <2>2, <2>3 DEF Range, Contains
  <2> QED
    BY <2>4 DEF nav
<1> QED
  BY <1>7, <1>8, <1>9, <1>10

LEMMA TableStep ==
  ASSUME TableInv, [TableNext]_tableVars
  PROVE  TableInv'
<1>1. CollectAndApply => TableInv'
  BY CollectStep
<1>2. Paint => TableInv'
  BY PaintStep
<1>3. UiOk(ui) /\ Collected(processes)
  BY DEF TableInv
<1>4. MoveKey => TableInv'
  <2> SUFFICES ASSUME NEW delta \in {-10, -1, 1, 10},
                      Input(move_process_selection(ui, processes, delta), TRUE)
               PROVE  TableInv'
    BY DEF MoveKey
  <2>1. Chooses(ui, move_process_selection(ui, processes, delta), processes)
    BY <1>3, Moves
  <2> QED
    BY <2>1, KeyStep DEF Chooses
<1>5. HomeKey \/ EndKey => TableInv'
  BY <1>3, HomeAndEnd, KeyStep DEF HomeKey, EndKey, Chooses
<1>6. OpenSearchKey \/ AcceptSearchKey => TableInv'
  <2>1. OpenSearchKey => TableInv'
    BY <1>3, OtherInputs, OtherInputStep DEF OpenSearchKey
  <2>2. AcceptSearchKey => TableInv'
    BY AcceptStep
  <2> QED
    BY <2>1, <2>2
<1>7. ASSUME NEW u, UiOk(u), Input(clamp_process_selection(u, processes), TRUE) PROVE TableInv'
  <2>1. /\ UiOk(clamp_process_selection(u, processes))
        /\ Followed(clamp_process_selection(u, processes), processes)
    BY <1>3, <1>7, Clamps
  <2> QED
    BY <1>7, <2>1, KeyStep
<1>8. ClearSearchKey \/ EditSearchKey => TableInv'
  BY <1>3, <1>7, OtherInputs DEF ClearSearchKey, EditSearchKey
<1>9. ClickRow \/ RightClickRow => TableInv'
  <2>1. ASSUME NEW row, NEW recent \in BOOLEAN, Input(click_process_row(ui, ui.rows[row], recent), FALSE)
        PROVE  TableInv'
    <3>1. UiOk(click_process_row(ui, ui.rows[row], recent))
      BY <1>3, OtherInputs
    <3> QED
      BY <2>1, <3>1, OtherInputStep
  <2>2. ASSUME NEW program, Input(right_click_process_group(ui, program), FALSE)
        PROVE  TableInv'
    <3>1. UiOk(right_click_process_group(ui, program))
      BY <1>3, OtherInputs
    <3> QED
      BY <2>2, <3>1, OtherInputStep
  <2> QED
    BY <2>1, <2>2 DEF ClickRow, RightClickRow
<1>10. ClickAway => TableInv'
  BY <1>3, OtherInputs, OtherInputStep DEF ClickAway
<1>11. Wheel => TableInv'
  <2>1. ASSUME NEW delta \in Int, Input(scroll_processes(ui, delta), FALSE) PROVE TableInv'
    <3>1. UiOk(scroll_processes(ui, delta))
      BY <1>3, OtherInputs
    <3> QED
      BY <2>1, <3>1, OtherInputStep
  <2>2. {-3, 3} \subseteq Int
    OBVIOUS
  <2> QED
    BY <2>1, <2>2 DEF Wheel
<1>12. Resize => TableInv'
  BY DEF Resize, TableInv
<1>13. UNCHANGED tableVars => TableInv'
  BY DEF tableVars, TableInv
<1> QED
  BY <1>1, <1>2, <1>4, <1>5, <1>6, <1>8, <1>9, <1>10, <1>11, <1>12, <1>13 DEF TableNext

\* A new snapshot never moves the selection to another process, and loses it only with its
\* process or behind a search (clamp_process_selection, normalize_process_selection).
THEOREM SelectionSafe == TableSpec => SelectionSurvives
<1>1. TableInv /\ [TableNext]_tableVars => [processes' # processes /\ current_process_target(ui) # None =>
       LET same == {p \in Range(processes') :
                      IF ui.selected_pid # None THEN p.id = ui.selected_pid
                      ELSE p.program = ui.selected_group}
           heirs == {ProcessT(p.id) : p \in same} \union {GroupT(p.program) : p \in same}
           now == current_process_target(ui')
       IN  IF now = None THEN heirs = {} \/ ui.query # None
           ELSE /\ now \in heirs
                /\ Contains(process_navigation_targets(ui', processes'), now)]_tableVars
  <2> SUFFICES ASSUME TableInv, [TableNext]_tableVars, processes' # processes,
                      current_process_target(ui) # None
               PROVE  LET now == current_process_target(ui')
                      IN  IF now = None THEN Heirs(Same(ui, processes')) = {} \/ ui.query # None
                          ELSE /\ now \in Heirs(Same(ui, processes'))
                               /\ Contains(process_navigation_targets(ui', processes'), now)
    BY DEF Heirs, Same
  <2>1. CollectAndApply
    BY DEF TableNext, tableVars, Paint, MoveKey, HomeKey, EndKey, OpenSearchKey, AcceptSearchKey,
           ClearSearchKey, EditSearchKey, ClickRow, ClickAway, RightClickRow, Wheel, Resize, Input
  <2>2. Heirs({}) = {}
    BY DEF Heirs
  <2> QED
    BY <2>1, <2>2, CollectStep
<1> QED
  BY <1>1, TableStarts, TableStep, PTL DEF TableSpec, SelectionSurvives

\* The row of the selection that a key, a search or a snapshot has scrolled to is painted by
\* the next frame that shows no fewer scrolled rows than the last, whatever sizes the table
\* has been given in between (ensure_selected_process_visible, draw_processes).
THEOREM PaintedSafe == TableSpec => SelectedRowIsPainted
<1>1. TableInv /\ [TableNext]_tableVars =>
        [/\ due /\ ~due' /\ followed
         /\ pane # Absent /\ ui'.scroll_visible > 0 /\ ui'.scroll_visible >= ui.scroll_visible
         /\ current_process_target(ui) # None
         => Contains(ui'.rows, current_process_target(ui'))]_tableVars
  <2> SUFFICES ASSUME TableInv, [TableNext]_tableVars, due, ~due', followed,
                      pane # Absent, ui'.scroll_visible > 0,
                      ui'.scroll_visible >= ui.scroll_visible, current_process_target(ui) # None
               PROVE  Contains(ui'.rows, current_process_target(ui'))
    OBVIOUS
  <2>1. ~CollectAndApply /\ ~Resize
    <3>1. Resize => due' = TRUE
      BY DEF Resize
    <3>2. CollectAndApply => due' = TRUE
      BY DEF CollectAndApply
    <3> QED
      BY <3>1, <3>2
  <2>2. \A u, follows : ~Input(u, follows)
    BY DEF Input
  <2>3. /\ ~MoveKey /\ ~HomeKey /\ ~EndKey /\ ~OpenSearchKey /\ ~AcceptSearchKey
        /\ ~ClearSearchKey /\ ~EditSearchKey /\ ~ClickRow /\ ~ClickAway /\ ~RightClickRow /\ ~Wheel
    BY <2>2 DEF MoveKey, HomeKey, EndKey, OpenSearchKey, AcceptSearchKey, ClearSearchKey,
                EditSearchKey, ClickRow, ClickAway, RightClickRow, Wheel
  <2>4. ~UNCHANGED tableVars
    BY DEF tableVars
  <2>5. Paint
    BY <2>1, <2>3, <2>4 DEF TableNext
  <2> QED
    BY <2>5, PaintStep
<1> QED
  BY <1>1, TableStarts, TableStep, PTL DEF TableSpec, SelectedRowIsPainted
==============================================================================

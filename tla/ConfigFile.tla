------------------------------ MODULE ConfigFile -----------------------------
(***************************************************************************)
(* The configuration and its text (src/config.rs): AppConfig, sanitized,   *)
(* render_config and parse_config.  A file is the sequence of its lines,   *)
(* each a pair of key and value; a torn write leaves a prefix of them.     *)
(* The three intervals are treated alike by the code; refresh_ms stands    *)
(* for them.                                                               *)
(***************************************************************************)
EXTENDS Integers, Sequences, SequencesExt

CONSTANTS
  Urls,        \* endpoints a user may configure
  server_key,  \* domain::server_key: several endpoints may share a key
  Blank,       \* an endpoint of white space only
  NoUrl,       \* Option::None
  MaxIndex,    \* bound: the highest GPU index
  uuid_form,   \* texts that are GPU uuids, with the vendor prefix in capitals
  normalize_pci_bdf \* texts that are PCI bus ids, and their canonical form

\* GpuSelector
AutoSelector == [kind |-> "auto"]
Index(n) == [kind |-> "index", n |-> n]
Uuid(text) == [kind |-> "uuid", text |-> text]
PciBusId(text) == [kind |-> "pci", text |-> text]

DEFAULT_REFRESH_MS == 1000

\* AppConfig::default
DefaultConfig ==
  [server |-> NoUrl, servers |-> <<>>, gpu_selector |-> AutoSelector,
   refresh_ms |-> DEFAULT_REFRESH_MS, auto_discovery |-> TRUE]

ASSUME NormalizeAssumption ==
  \A form \in {normalize_pci_bdf, uuid_form} : \A text \in DOMAIN form :
    form[text] \in DOMAIN form /\ form[form[text]] = form[text]

ASSUME UrlAssumption ==
  /\ DOMAIN server_key = Urls
  /\ Blank \notin Urls
  /\ NoUrl \notin Urls \union {Blank}

-----------------------------------------------------------------------------
\* GpuSelector::parse: empty, a number, a uuid, or else a bus id.
parse_selector(text) ==
  CASE text = "" -> AutoSelector
    [] \E n \in 0 .. MaxIndex : text = ToString(n) ->
         Index(CHOOSE n \in 0 .. MaxIndex : text = ToString(n))
    [] text \in DOMAIN uuid_form -> Uuid(uuid_form[text])
    [] OTHER -> PciBusId(text)

\* GpuSelector::as_string
as_string(selector) ==
  CASE selector.kind = "auto" -> ""
    [] selector.kind = "index" -> ToString(selector.n)
    [] OTHER -> selector.text

clamp(n, lo, hi) == IF n < lo THEN lo ELSE IF n > hi THEN hi ELSE n

\* GpuSelector::sanitized
sanitized_selector(selector) ==
  IF selector.kind = "pci" THEN PciBusId(normalize_pci_bdf[selector.text])
  ELSE selector

\* The endpoints without blanks, the first of each key.
distinct_servers(list) ==
  LET first(i) ==
        /\ list[i] # Blank
        /\ \A j \in 1 .. i - 1 :
             list[j] # Blank => server_key[list[j]] # server_key[list[i]]
  IN  FoldLeftDomain(LAMBDA kept, i : IF first(i) THEN Append(kept, list[i]) ELSE kept,
                     <<>>, list)

\* AppConfig::sanitized
sanitized(config) ==
  [server |-> IF config.server = Blank THEN NoUrl ELSE config.server,
   servers |-> distinct_servers(config.servers),
   gpu_selector |-> sanitized_selector(config.gpu_selector),
   refresh_ms |-> clamp(config.refresh_ms, 100, 10000),
   auto_discovery |-> config.auto_discovery]

-----------------------------------------------------------------------------
\* render_config: an absent server, an empty list and the automatic selector
\* have no line.
render_config(raw) ==
  LET config == sanitized(raw)
      line(present, key, value) == IF present THEN <<(<<key, value>>)>> ELSE <<>>
  IN  line(config.server # NoUrl, "server", config.server)
      \o line(config.servers # <<>>, "servers", config.servers)
      \o line(config.gpu_selector # AutoSelector, "gpu", as_string(config.gpu_selector))
      \o line(TRUE, "refresh_ms", config.refresh_ms)
      \o line(TRUE, "auto_discovery", config.auto_discovery)

\* The values a key has in a file, in order; an empty server is no value.
values_of(lines, key) ==
  LET of_key == SelectSeq(lines, LAMBDA line : line[1] = key
                                               /\ (key = "server" => line[2] # Blank))
  IN  [i \in DOMAIN of_key |-> of_key[i][2]]

\* The last value of a key, or what holds without one.
last_value(lines, key, default) ==
  LET values == values_of(lines, key)
  IN  IF values = <<>> THEN default ELSE Last(values)

\* parse_config: later lines win, lists accumulate; a file that names a server
\* and says nothing of auto-discovery is an old one, in which the server was
\* authoritative; gpu_index counts only without a gpu line.
parse_config(lines) ==
  sanitized(
    [server |-> last_value(lines, "server", NoUrl),
     servers |-> FlattenSeq(values_of(lines, "servers")),
     gpu_selector |-> parse_selector(
       last_value(lines, "gpu", last_value(lines, "gpu_index", ""))),
     refresh_ms |-> last_value(lines, "refresh_ms", DefaultConfig.refresh_ms),
     auto_discovery |-> last_value(lines, "auto_discovery",
                          values_of(lines, "server") = <<>>)])
==============================================================================

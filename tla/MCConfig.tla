------------------------------- MODULE MCConfig ------------------------------
(***************************************************************************)
(* A small instance of ConfigStore.                                        *)
(***************************************************************************)
EXTENDS ConfigStore

CONSTANTS u1, u2, v2, p1, p2, i1, i2

\* Two servers; the second one is written in two ways.
KeyOf == [u \in {u1, u2, v2} |-> IF u = u1 THEN "one" ELSE "two"]

\* A bus id as lspci prints it and as a user may type it.
BusIdForms == [text \in {"0000:ab:00.0", "0000:AB:00.0"} |-> "0000:ab:00.0"]
UuidForms == [text \in {"GPU-1a", "gpu-1a"} |-> "GPU-1a"]

\* The dialog always names a primary server.
DialogConfigs ==
  {[server |-> u1, servers |-> <<u2, v2>>,
    gpu_selector |-> parse_selector("0000:AB:00.0"), refresh_ms |-> 500,
    auto_discovery |-> TRUE],
   [server |-> u2, servers |-> <<>>, gpu_selector |-> parse_selector(""),
    refresh_ms |-> 10000, auto_discovery |-> FALSE]}

\* Nothing on the command line; a server, an interval and a uuid; an index.
CommandLines ==
  {[server |-> NoUrl, interval_ms |-> None, gpu |-> None, gpu_index |-> None],
   [server |-> u2, interval_ms |-> 20, gpu |-> "gpu-1a", gpu_index |-> 1],
   [server |-> Blank, interval_ms |-> None, gpu |-> None, gpu_index |-> 1]}

\* A file of an earlier version: a server and no word of auto-discovery, two
\* lists, an index, an interval out of range and an empty server.
OldConfigs ==
  {<< <<"server", u1>>, <<"gpu_index", "1">>, <<"servers", <<u1, Blank>> >>,
      <<"servers", <<u2, u1>> >>, <<"refresh_ms", 20>>, <<"server", Blank>> >>}

Symmetry == Permutations({p1, p2}) \union Permutations({i1, i2})

\* No step and no property of the run depends on the settings in use.
WithoutSettings == <<pid, counter, saveVars, fileVars, failures>>
==============================================================================

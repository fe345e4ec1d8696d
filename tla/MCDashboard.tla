----------------------------- MODULE MCDashboard -----------------------------
(***************************************************************************)
(* Small instances of Dashboard.                                           *)
(***************************************************************************)
EXTENDS Dashboard, TLC

CONSTANTS k1, k2, e1, e2

Server(key, endpoint, identity) ==
  [key |-> key, endpoint |-> endpoint, identity |-> identity]

Process(pid, start_time) == [pid |-> pid, start_time |-> start_time]

Monitor(list) == [monitored |-> list, overflow |-> <<>>]

\* A local server with the lowest port, and one that is remote or whose start
\* time could not be read.
Local(start_time) == Server(k1, e1, Process(1, start_time))
Remote == Server(k2, e2, None)

\* One server at a time: it restarts, is replaced by another, comes back.
OneServer == {Monitor(<<Local(1)>>), Monitor(<<Local(2)>>), Monitor(<<Remote>>)}

\* A local server beside a remote one: it restarts or disappears.
LocalAndRemote ==
  {Monitor(<<Local(1), Remote>>), Monitor(<<Local(2), Remote>>),
   Monitor(<<Remote>>)}

\* The local server restarts; nothing else changes.
Restart == {Monitor(<<Local(1), Remote>>), Monitor(<<Local(2), Remote>>)}

\* The local server comes and goes; without it a remote one is monitored.
LocalOrRemote == {Monitor(<<Local(1)>>), Monitor(<<Remote>>)}

\* A single server that never changes.
Fixed == {Monitor(<<Remote>>)}
==============================================================================

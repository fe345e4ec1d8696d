------------------------------ MODULE MCContract -----------------------------
(***************************************************************************)
(* Small instances of WorkerContract: the application loop against every   *)
(* behaviour its workers are allowed.                                      *)
(***************************************************************************)
EXTENDS WorkerContract, TLC

CONSTANTS k1, k2, k3, e1, e2, e3

Server(key, endpoint, identity) ==
  [key |-> key, endpoint |-> endpoint, identity |-> identity]

Process(start_time) == [pid |-> 1, start_time |-> start_time]

\* A local server with the lowest port; one that is remote, or whose start time
\* could not be read; one that is past the cap.
Local(start_time) == Server(k1, e1, Process(start_time))
Remote == Server(k2, e2, None)
Extra == Server(k3, e3, None)

Monitor(list) == [monitored |-> list, overflow |-> <<>>]

\* The local server restarts, disappears and comes back before the other one;
\* either may be the only one left; a third fills the list.
TwoServers ==
  {Monitor(<<Local(1), Remote>>), Monitor(<<Local(2), Remote>>),
   Monitor(<<Remote>>), Monitor(<<Local(1)>>),
   [monitored |-> <<Local(1), Remote>>, overflow |-> <<Extra>>]}
==============================================================================

----------------------------- MODULE ServerScan ------------------------------
(***************************************************************************)
(* Finding the servers to monitor: the scan of /proc (discovery_llm.rs)    *)
(* and what is made of it.                                                 *)
(*                                                                         *)
(* The scan is not atomic.  For every process it reads the start time, the *)
(* command line and the start time again, and meanwhile processes exit and *)
(* their pids are given to others.  An endpoint stands for the host and    *)
(* the port of a command line.                                             *)
(***************************************************************************)
EXTENDS ServerList

CONSTANTS
  ScanPids,       \* pids, in any order
  MaxStarts,      \* bound: how many processes are started
  Local,          \* the endpoints a command line can name
  NoServer,       \* a command line of another program, or with a malformed port
  Settings        \* configurations: server (or None), servers, auto_discovery

ASSUME ScanAssumption ==
  /\ Local \subseteq DOMAIN Rank
  /\ MaxStarts \in Nat
  /\ \A settings \in Settings : settings.servers \in Seq(DOMAIN Key)

VARIABLES
  procs,     \* pid -> [start, args] of the process that holds it, or None
  starts,    \* start times given so far
  ran,       \* auxiliary: which process was ever seen to serve which endpoint
  config,    \* settings
  scan,      \* the scan that is under way
  listed,    \* what collect_server_list has made of the last scan, or None
  resolved   \* what resolve_monitor_target has made of it, or None

scanVars == <<procs, starts, ran, config, scan, listed, resolved>>

-----------------------------------------------------------------------------
(* The processes.                                                          *)

ScanInit ==
  /\ procs = [pid \in ScanPids |-> None]
  /\ starts = 0
  /\ ran = {}
  /\ config \in Settings
  /\ scan = None
  /\ listed = None /\ resolved = None

Serves(pid, process) == {<<pid, process.start, process.args>>}

\* A process is started; the pid is free.
StartProcess(pid) == \E args \in Local \union {NoServer} :
  /\ procs[pid] = None /\ starts < MaxStarts
  /\ starts' = starts + 1
  /\ procs' = [procs EXCEPT ![pid] = [start |-> starts + 1, args |-> args]]
  /\ ran' = ran \union Serves(pid, procs'[pid])
  /\ UNCHANGED <<config, scan, listed, resolved>>

ExitProcess(pid) ==
  /\ procs[pid] # None
  /\ procs' = [procs EXCEPT ![pid] = None]
  /\ UNCHANGED <<starts, ran, config, scan, listed, resolved>>

-----------------------------------------------------------------------------
(* The scan.                                                               *)

\* read_dir of /proc; without auto-discovery there is no scan.
BeginScan ==
  /\ scan = None
  /\ scan' = [todo |-> IF config.auto_discovery THEN {p \in ScanPids : procs[p] # None} ELSE {},
              pid |-> None, read |-> 0, before |-> None, args |-> NoServer, found |-> <<>>]
  /\ listed' = None /\ resolved' = None
  /\ UNCHANGED <<procs, starts, ran, config>>

\* read_process_start_time: None when the process is gone or unreadable.
read_process_start_time(pid) ==
  IF procs[pid] = None THEN {None} ELSE {None, procs[pid].start}

ReadStartBefore ==
  /\ scan # None /\ scan.pid = None
  /\ \E pid \in scan.todo : \E start \in read_process_start_time(pid) :
       scan' = [scan EXCEPT !.todo = @ \ {pid}, !.pid = pid, !.before = start, !.read = 1]
  /\ UNCHANGED <<procs, starts, ran, config, listed, resolved>>

\* A process that is gone, another program or a malformed port is skipped.
ReadCommandLine ==
  /\ scan # None /\ scan.pid # None /\ scan.read = 1
  /\ LET args == IF procs[scan.pid] = None THEN NoServer ELSE procs[scan.pid].args
     IN  scan' = IF args = NoServer THEN [scan EXCEPT !.pid = None, !.read = 0, !.before = None]
                 ELSE [scan EXCEPT !.args = args, !.read = 2]
  /\ UNCHANGED <<procs, starts, ran, config, listed, resolved>>

\* Mutant: the start time is read once, after the command line.
WithCandidate_unchecked(found, pid, endpoint, before, after) ==
  Append(found, [endpoint |-> endpoint, pid |-> pid, start |-> after])

\* A pid that changed hands in between is skipped.
WithCandidate(found, pid, endpoint, before, after) ==
  IF before # after THEN found
  ELSE Append(found, [endpoint |-> endpoint, pid |-> pid, start |-> after])

ReadStartAfter ==
  /\ scan # None /\ scan.pid # None /\ scan.read = 2
  /\ \E after \in read_process_start_time(scan.pid) :
       scan' = [scan EXCEPT !.found = WithCandidate(@, scan.pid, scan.args, scan.before, after),
                            !.pid = None, !.read = 0, !.before = None, !.args = NoServer]
  /\ UNCHANGED <<procs, starts, ran, config, listed, resolved>>

\* The scan is used for the target of the header or for the list.
EndScan ==
  /\ scan # None /\ scan.pid = None /\ scan.todo = {}
  /\ \/ resolved' = resolve_monitor_target(config, scan.found) /\ UNCHANGED listed
     \/ listed' = collect_server_list(config, scan.found) /\ UNCHANGED resolved
  /\ scan' = None
  /\ UNCHANGED <<procs, starts, ran, config>>

ScanNext ==
  \/ \E pid \in ScanPids : StartProcess(pid) \/ ExitProcess(pid)
  \/ BeginScan \/ ReadStartBefore \/ ReadCommandLine \/ ReadStartAfter \/ EndScan

ScanSpec == ScanInit /\ [][ScanNext]_scanVars

-----------------------------------------------------------------------------
(* Properties.                                                             *)

\* A listed server and the target of the header carry the identity of a process
\* only if that very process was started to serve that endpoint: neither a pid
\* that changed hands during the scan nor the merge with a configured entry
\* attributes a server, and with it a GPU, to another process
\* (discover_processes, push_server).
IdentityServesEndpoint ==
  LET served(identity, key) ==
        \/ identity = None
        \/ \E endpoint \in Local : /\ Key[endpoint] = key
                                   /\ <<identity.pid, identity.start_time, endpoint>> \in ran
  IN  /\ resolved # None => served(resolved.identity, Key[resolved.endpoint])
      /\ listed # None => \A spec \in Range(listed.monitored) \union Range(listed.overflow) :
                           served(spec.identity, spec.key)
==============================================================================

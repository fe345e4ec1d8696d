----------------------------- MODULE FastWorker ------------------------------
(***************************************************************************)
(* The fast worker (spawn_fast_worker in src/app/workers.rs) and the local *)
(* processes it looks at.  Each cycle adopts the saved GPU selector,       *)
(* drains the identity of the selected server, on the process cadence      *)
(* recomputes which GPU that process uses, and sends one FastSnapshot.     *)
(*                                                                         *)
(* Attribution reads the process table twice: first the start time of the  *)
(* pid, then the evidence (open render nodes, NVML compute processes).     *)
(* Processes exit and pids are reused between the two.                     *)
(*                                                                         *)
(* Sensor values are left out; `gpu` records which selector's provider     *)
(* produced the sample.                                                    *)
(***************************************************************************)
EXTENDS Channels

VARIABLES
  fastPc,            \* where the worker is in its cycle
  current_selector,  \* the selector the GPU provider was built for
  server_generation, \* mapping generation of server_identity
  server_identity,   \* whose GPUs are being resolved
  current_start,     \* start time read for the pid, None when unreadable
  gpu_map,           \* the worker's current mapping
  start_of,          \* start time of the last process each pid was given to
  running            \* pids of processes that are running

fastVars == <<fastPc, current_selector, server_generation, server_identity,
              current_start, gpu_map>>
processVars == <<start_of, running>>

FastPcs == {"top", "idents", "evidence", "send", "done"}

\* The process that holds a pid now; None when the pid is free.
process_at(pid) ==
  IF pid \in running THEN [pid |-> pid, start_time |-> start_of[pid]] ELSE None

\* Mutant: an unreadable start time is zero.
read_process_start_time_or_zero(pid) ==
  IF pid \in running THEN start_of[pid] ELSE 0

\* read_process_start_time: field 22 of /proc/<pid>/stat, None when unreadable.
read_process_start_time(pid) == IF pid \in running THEN start_of[pid] ELSE None

ProcessesInit ==
  /\ start_of = [pid \in Pids |-> 1]
  /\ running = Pids

FastInit ==
  /\ fastPc = "top"
  /\ current_selector = gpu_selector
  /\ server_generation = 0
  /\ server_identity = None
  /\ current_start = None
  /\ gpu_map = NoMapping

-----------------------------------------------------------------------------
\* A local process exits.
ProcessExit(pid) ==
  /\ pid \in running
  /\ running' = running \ {pid}
  /\ UNCHANGED start_of

\* A free pid is given to another process.
ProcessStart(pid) ==
  /\ pid \notin running
  /\ start_of[pid] < MaxStart
  /\ running' = running \union {pid}
  /\ start_of' = [start_of EXCEPT ![pid] = @ + 1]

ProcessNext == \E pid \in Pids : ProcessExit(pid) \/ ProcessStart(pid)

-----------------------------------------------------------------------------
\* Mutant: the selector read at start is used for ever.
FastTopFixedSelector ==
  /\ fastPc = "top"
  /\ IF stop
     THEN fastPc' = "done" /\ fast_thread' = "finished"
     ELSE fastPc' = "idents" /\ UNCHANGED fast_thread
  /\ UNCHANGED <<current_selector, server_generation, server_identity,
                 current_start, gpu_map, fastChannel, stop, receiving, llm_thread>>

\* The head of the cycle: leave on stop, else adopt the requested selector.
FastTop ==
  /\ fastPc = "top"
  /\ IF stop
     THEN /\ fastPc' = "done"
          /\ fast_thread' = "finished"
          /\ UNCHANGED current_selector
     ELSE /\ fastPc' = "idents"
          /\ current_selector' = gpu_selector
          /\ UNCHANGED fast_thread
  /\ UNCHANGED <<server_generation, server_identity, current_start, gpu_map,
                 fastChannel, stop, receiving, llm_thread>>

\* Mutant: the mapping of the previous identity is kept until the next refresh.
FastIdentityKeepsMapping ==
  /\ fastPc = "idents"
  /\ server_identity_rx # <<>>
  /\ server_generation' = Head(server_identity_rx).generation
  /\ server_identity' = Head(server_identity_rx).identity
  /\ server_identity_rx' = Tail(server_identity_rx)
  /\ UNCHANGED <<fastPc, current_selector, current_start, gpu_map, fast_rx,
                 fast_drops, gpu_selector, signalVars>>

\* One queued identity: whatever was mapped before belongs to another server.
FastIdentity ==
  /\ fastPc = "idents"
  /\ server_identity_rx # <<>>
  /\ server_generation' = Head(server_identity_rx).generation
  /\ server_identity' = Head(server_identity_rx).identity
  /\ gpu_map' = NoMapping
  /\ server_identity_rx' = Tail(server_identity_rx)
  /\ UNCHANGED <<fastPc, current_selector, current_start, fast_rx, fast_drops,
                 gpu_selector, signalVars>>

\* The process interval has not elapsed: the mapping is reused as it is.
FastSkip ==
  /\ "fast" \notin Quiet
  /\ fastPc = "idents"
  /\ server_identity_rx = <<>>
  /\ fastPc' = "send"
  /\ UNCHANGED <<current_selector, server_generation, server_identity,
                 current_start, gpu_map, fastChannel, signalVars>>

\* The process interval has elapsed: without a local process the mapping is
\* empty, otherwise the start time is read first.
FastRefresh ==
  /\ "fast" \notin Quiet
  /\ fastPc = "idents"
  /\ server_identity_rx = <<>>
  /\ IF server_identity = None
     THEN /\ gpu_map' = NoMapping
          /\ fastPc' = "send"
          /\ UNCHANGED current_start
     ELSE /\ current_start' = read_process_start_time(server_identity.pid)
          /\ fastPc' = "evidence"
          /\ UNCHANGED gpu_map
  /\ UNCHANGED <<current_selector, server_generation, server_identity,
                 fastChannel, signalVars>>

\* What map_server_identity can return for the start time read before and the
\* evidence read now: a process may hold no GPU that can be attributed.
map_server_identity(expected, start, found) ==
  IF start # expected.start_time THEN {UnknownMapping}
  ELSE {UnknownMapping} \union
       (IF found = None THEN {} ELSE {Gpus(expected, found)})

\* The evidence is read and the mapping computed.
FastEvidence ==
  /\ fastPc = "evidence"
  /\ gpu_map' \in map_server_identity(server_identity, current_start,
                                      process_at(server_identity.pid))
  /\ current_start' = None
  /\ fastPc' = "send"
  /\ UNCHANGED <<current_selector, server_generation, server_identity,
                 fastChannel, signalVars>>

\* The snapshot is stamped with the generation of the identity it maps and
\* sent; a full channel drops it, then the worker sleeps.
FastSend ==
  /\ fastPc = "send"
  /\ receiving
  /\ LET snapshot == [gpu |-> current_selector, gpu_map |-> gpu_map,
                      mapping_generation |-> server_generation]
     IN  fast_rx' = try_send(fast_rx, snapshot, FastCapacity)
  /\ fast_drops' = count_drop(fast_rx, fast_drops, FastCapacity)
  /\ fastPc' = "top"
  /\ UNCHANGED <<current_selector, server_generation, server_identity,
                 current_start, gpu_map, server_identity_rx, gpu_selector,
                 signalVars>>

\* app::run dropped fast_rx: the worker returns.
FastLeave ==
  /\ fastPc = "send"
  /\ ~receiving
  /\ fastPc' = "done"
  /\ fast_thread' = "finished"
  /\ UNCHANGED <<current_selector, server_generation, server_identity,
                 current_start, gpu_map, fastChannel, stop, receiving,
                 llm_thread>>

\* A panic while sampling: the worker unwinds and drops fast_tx.
FastPanic ==
  /\ "fast" \notin Quiet
  /\ fastPc = "idents"
  /\ server_identity_rx = <<>>
  /\ fastPc' = "done"
  /\ fast_thread' = "panicked"
  /\ UNCHANGED <<current_selector, server_generation, server_identity,
                 current_start, gpu_map, fastChannel, stop, receiving,
                 llm_thread>>

FastStep ==
  \/ FastTop \/ FastIdentity \/ FastSkip \/ FastRefresh
  \/ FastEvidence \/ FastSend \/ FastLeave
==============================================================================

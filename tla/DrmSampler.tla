----------------------------- MODULE DrmSampler ------------------------------
(***************************************************************************)
(* The use of GPUs by processes, from the DRM fdinfo files (drm.rs), as    *)
(* the collector of processes drives it (app/process.rs).                  *)
(*                                                                         *)
(* A DRM client is opened by a process and may be reached through several  *)
(* descriptors.  The kernel counts the work of each client on an engine;   *)
(* the sampler sums the clients of a process and compares with its last    *)
(* sample.  Every device has one engine here: the others are counted in    *)
(* the same way.  Memory is summed over the same clients and left out.     *)
(*                                                                         *)
(* A collection is not atomic: the list of processes is read first, then   *)
(* the files of one process after the other, by pid.                       *)
(***************************************************************************)
EXTENDS Options, FiniteSets, FiniteSetsExt, Functions

CONSTANTS
  GpuPids,
  Clients,      \* DRM clients, each of the process with a certain pid
  pid_of,       \* client -> pid
  bdf_of,       \* client -> device
  has_id,       \* clients whose file names a drm-client-id
  Uptime,       \* cycles of an engine before the first sample
  MaxNow,       \* bound: the clock
  MaxWork,      \* bound: work of all processes
  MaxFds,       \* bound: open descriptors
  MaxRuns       \* bound: processes started with one pid

ASSUME DrmAssumption ==
  /\ IsFiniteSet(Clients) /\ pid_of \in [Clients -> GpuPids] /\ DOMAIN bdf_of = Clients
  /\ Uptime \in Nat /\ MaxNow \in Nat
  /\ None \notin Nat /\ None \notin Clients

VARIABLES
  now,          \* the clock
  driver,       \* bdf -> whether its driver counts "busy_ns" or "cycles"; constant
  runs,         \* pid -> start time of its process
  fds,          \* client -> its descriptors
  busy,         \* client -> the kernel's counter
  cycles,       \* bdf -> the cycles of its engine in all
  counters,     \* DrmSamplerState: <<identity, bdf>> -> EngineCounter
  collection,   \* the collection under way: its time and the processes to do, or None
  gpus,         \* what the samples of this collection report, by identity
  work,         \* auxiliary: <<pid, bdf>> -> work ever done by the processes of the pid
  sampled       \* auxiliary: <<identity, bdf>> -> the work, the time (by the clock that the
                \* code uses for the device) and the cycles of the engine at its last
                \* sample, and whether all clients have stayed open and all counters been
                \* kept since; absent if a client was counted twice

drmVars == <<now, driver, runs, fds, busy, cycles, counters, collection, gpus, work, sampled>>

Devices == Range(bdf_of)
Identity(pid) == [pid |-> pid, start_time |-> runs[pid]]
OpenClients(pid) == {c \in Clients : pid_of[c] = pid /\ fds[c] # {}}

-----------------------------------------------------------------------------
(* The sampler.                                                            *)

\* parse_fdinfo of one file: either the nanoseconds or the two cycle counters.  The
\* descriptors are numbered by client, which tells those of unnamed clients apart.
parse_fdinfo(fd, c) ==
  LET ns == driver[bdf_of[c]] = "busy_ns"
  IN  [fd |-> <<c, fd>>, bdf |-> bdf_of[c], client_id |-> IF c \in has_id THEN c ELSE None,
       busy_ns |-> IF ns THEN busy[c] ELSE None,
       cycles_busy |-> IF ns THEN None ELSE busy[c],
       cycles_total |-> IF ns THEN None ELSE cycles[bdf_of[c]]]

Parsed(pid) == UNION {{parse_fdinfo(fd, c) : fd \in fds[c]} : c \in OpenClients(pid)}

\* Mutant: every descriptor counts.
Deduped_not(files) == files

\* One descriptor of each client; one that names no client cannot be told apart.
Deduped(files) ==
  {f \in files : f.client_id # None =>
     \A g \in files : g.bdf = f.bdf /\ g.client_id = f.client_id => f.fd[2] <= g.fd[2]}

Total(files, counter) ==
  IF \A f \in files : f[counter] = None THEN None
  ELSE SumFunction([f \in files |-> Or(f[counter], 0)])

\* merge_engine, over the files of one device
merge_engine(files) ==
  [busy_ns |-> Total(files, "busy_ns"), cycles_busy |-> Total(files, "cycles_busy"),
   cycles_total |-> Total(files, "cycles_total")]

\* A utilisation is kept as the fraction that the code divides.
utilization_ns(busy_now, busy_prev, elapsed) ==
  IF elapsed = 0 \/ busy_now < busy_prev THEN None
  ELSE [part |-> busy_now - busy_prev, whole |-> elapsed]

utilization_cycles(busy_now, busy_prev, total_now, total_prev) ==
  IF busy_now < busy_prev \/ total_now <= total_prev THEN None
  ELSE [part |-> busy_now - busy_prev, whole |-> total_now - total_prev]

engine_utilization(prev, engine, at) ==
  IF prev = None THEN None
  ELSE IF engine.busy_ns # None /\ prev.busy_ns # None
  THEN utilization_ns(engine.busy_ns, prev.busy_ns, at - prev.sampled_at)
  ELSE IF engine.busy_ns = None /\ engine.cycles_busy # None /\ prev.cycles_busy # None
  THEN utilization_cycles(engine.cycles_busy, prev.cycles_busy,
                          engine.cycles_total, prev.cycles_total)
  ELSE None

\* What one process reports, by device; the baselines are replaced in any case.
sample_process_gpus(identity, at) ==
  LET kept == Deduped(Parsed(identity.pid))
      of(bdf) == {f \in kept : f.bdf = bdf}
      used == {f.bdf : f \in kept}
      prev(bdf) == IF <<identity, bdf>> \in DOMAIN counters THEN counters[<<identity, bdf>>]
                   ELSE None
  IN  [engines |-> [bdf \in used |-> engine_utilization(prev(bdf), merge_engine(of(bdf)), at)],
       client_count |-> [bdf \in used |-> Cardinality(of(bdf))],
       baselines |-> [key \in {identity} \X used |->
                        [busy_ns |-> merge_engine(of(key[2])).busy_ns,
                         cycles_busy |-> merge_engine(of(key[2])).cycles_busy,
                         cycles_total |-> merge_engine(of(key[2])).cycles_total,
                         sampled_at |-> at]]]

\* HashMap::insert of every new entry
Extended(old, new) ==
  [k \in DOMAIN old \union DOMAIN new |-> IF k \in DOMAIN new THEN new[k] ELSE old[k]]

retain_drm(old, live) == Restrict(old, {key \in DOMAIN old : key[1] \in live})

-----------------------------------------------------------------------------
(* The processes and the kernel.                                           *)

DrmInit ==
  /\ now = 0
  /\ driver \in [Devices -> {"busy_ns", "cycles"}]
  /\ runs = [pid \in GpuPids |-> 1]
  /\ fds = [c \in Clients |-> {}]
  /\ busy = [c \in Clients |-> 0] /\ cycles = [bdf \in Devices |-> Uptime]
  /\ counters = <<>> /\ collection = None /\ gpus = <<>>
  /\ work = [key \in GpuPids \X Devices |-> 0]
  /\ sampled = <<>>

\* The samples of a process and a device since when a client has gone or started
\* again are not exact.
Disturbed(cs) ==
  sampled' = [key \in DOMAIN sampled |->
                [sampled[key] EXCEPT !.steady =
                   @ /\ \A c \in cs : <<pid_of[c], bdf_of[c]>> # <<key[1].pid, key[2]>>]]

Unsampled == UNCHANGED <<counters, collection, gpus>>

Tick ==
  /\ now < MaxNow
  /\ now' = now + 1 /\ cycles' = [bdf \in Devices |-> cycles[bdf] + 1]
  /\ Unsampled /\ UNCHANGED <<driver, runs, fds, busy, work, sampled>>

\* open, and dup of an open descriptor
OpenFd(c) ==
  /\ fds[c] # {1, 2} /\ MapThenSumSet(LAMBDA d : Cardinality(fds[d]), Clients) < MaxFds
  /\ fds' = [fds EXCEPT ![c] = @ \union {IF 1 \in @ THEN 2 ELSE 1}]
  /\ Unsampled /\ UNCHANGED <<now, driver, runs, busy, cycles, work, sampled>>

\* A client and its counter go with its last descriptor.
CloseFd(c) == \E fd \in fds[c] :
  /\ fds' = [fds EXCEPT ![c] = @ \ {fd}]
  /\ IF fds[c] = {fd} THEN busy' = [busy EXCEPT ![c] = 0] /\ Disturbed({c})
     ELSE UNCHANGED <<busy, sampled>>
  /\ Unsampled /\ UNCHANGED <<now, driver, runs, cycles, work>>

Work(c) ==
  LET key == <<pid_of[c], bdf_of[c]>>
  IN  /\ fds[c] # {} /\ MapThenSumSet(LAMBDA k : work[k], DOMAIN work) < MaxWork
      /\ busy' = [busy EXCEPT ![c] = @ + 1]
      /\ work' = [work EXCEPT ![key] = @ + 1]
      /\ Unsampled /\ UNCHANGED <<now, driver, runs, fds, cycles, sampled>>

\* The driver resets the counters of the clients of a device, the cycles of its
\* engine, or both.
ResetDevice(bdf) ==
  LET cs == {c \in Clients : bdf_of[c] = bdf}
  IN  /\ busy' \in {busy, [c \in Clients |-> IF c \in cs THEN 0 ELSE busy[c]]}
      /\ cycles' \in {cycles, [cycles EXCEPT ![bdf] = IF driver[bdf] = "cycles" THEN 0 ELSE @]}
      /\ <<busy', cycles'>> # <<busy, cycles>>
      /\ Disturbed(cs)
      /\ Unsampled /\ UNCHANGED <<now, driver, runs, fds, work>>

\* The process exits and its pid is given to another one.
Replace(pid) ==
  /\ runs[pid] < MaxRuns
  /\ runs' = [runs EXCEPT ![pid] = @ + 1]
  /\ fds' = [c \in Clients |-> IF pid_of[c] = pid THEN {} ELSE fds[c]]
  /\ busy' = [c \in Clients |-> IF pid_of[c] = pid THEN 0 ELSE busy[c]]
  /\ Unsampled /\ UNCHANGED <<now, driver, cycles, work, sampled>>

-----------------------------------------------------------------------------
(* The collection.                                                         *)

\* The list of processes, and the time that all samples carry.
BeginCollection ==
  /\ collection = None
  /\ collection' = [at |-> now, todo |-> {Identity(pid) : pid \in GpuPids},
                    live |-> {Identity(pid) : pid \in GpuPids}]
  /\ UNCHANGED <<now, driver, runs, fds, busy, cycles, counters, gpus, work, sampled>>

\* No client of a process on a device is counted twice: one that names no id is, by
\* each descriptor that it has.
CountedOnce(pid, bdf) ==
  \A c \in Clients \ has_id : pid_of[c] = pid /\ bdf_of[c] = bdf => Cardinality(fds[c]) <= 1

\* The files of one process, found by its pid; the property is about the samples
\* of the process that was listed.
SampleProcess ==
  /\ collection # None
  /\ \E identity \in collection.todo :
       LET result == sample_process_gpus(identity, collection.at)
           done(key) == work[<<identity.pid, key[2]>>]
           clock(key) == IF driver[key[2]] = "busy_ns" THEN collection.at ELSE now
           once(key) == CountedOnce(identity.pid, key[2])
           true(key) == IF \/ key \notin DOMAIN sampled \/ ~once(key)
                           \/ Identity(identity.pid) # identity
                        THEN None
                        ELSE [work |-> done(key) - sampled[key].work,
                              time |-> clock(key) - sampled[key].at,
                              cycles |-> sampled[key].cycles, steady |-> sampled[key].steady]
           report == [bdf \in DOMAIN result.engines |->
                        [utilization |-> result.engines[bdf],
                         client_count |-> result.client_count[bdf],
                         truth |-> true(<<identity, bdf>>)]]
           kept == Restrict(sampled, DOMAIN sampled \ DOMAIN result.baselines)
           fresh == [key \in {k \in DOMAIN result.baselines : once(k)} |->
                       [work |-> done(key), at |-> clock(key), cycles |-> cycles[key[2]],
                        steady |-> TRUE]]
       IN  /\ gpus' = Extended(gpus, [id \in {identity} |-> report])
           /\ counters' = Extended(counters, result.baselines)
           /\ sampled' = Extended(kept, fresh)
           /\ collection' = [collection EXCEPT !.todo = @ \ {identity}]
  /\ UNCHANGED <<now, driver, runs, fds, busy, cycles, work>>

\* The directory of the process is gone or cannot be read: nothing is reported
\* and the baselines stay.
SkipProcess ==
  /\ collection # None
  /\ \E identity \in collection.todo :
       collection' = [collection EXCEPT !.todo = @ \ {identity}]
  /\ UNCHANGED <<now, driver, runs, fds, busy, cycles, counters, gpus, work, sampled>>

\* The samples go into the snapshot.
EndCollection ==
  /\ collection # None /\ collection.todo = {}
  /\ counters' = retain_drm(counters, collection.live)
  /\ sampled' = Restrict(sampled, {key \in DOMAIN sampled : key[1] \in collection.live})
  /\ collection' = None /\ gpus' = <<>>
  /\ UNCHANGED <<now, driver, runs, fds, busy, cycles, work>>

DrmNext ==
  \/ Tick
  \/ \E c \in Clients : OpenFd(c) \/ CloseFd(c) \/ Work(c)
  \/ \E bdf \in Devices : ResetDevice(bdf)
  \/ \E pid \in GpuPids : Replace(pid)
  \/ BeginCollection \/ SampleProcess \/ SkipProcess \/ EndCollection

-----------------------------------------------------------------------------
(* Properties.                                                             *)

\* A utilisation is never higher than the work that this very process has done
\* on the device since its last sample, through descriptors that are opened,
\* duplicated and closed, driver resets, unreadable samples and a pid that is
\* used again; where busy time is counted and no client was closed or reset it
\* is exactly that work (Deduped, engine_utilization, DrmSamplerState::retain).
\* Nothing is claimed of a sample that counts a client twice.  After clients have
\* gone or counters been reset the sum of the cycles must be smaller than before,
\* so that it is refused: true of an engine that had run, at the last sample, for
\* the time since then as often as the process has clients.
UtilizationIsReal ==
  \A identity \in DOMAIN gpus : \A bdf \in DOMAIN gpus[identity] :
    LET use == gpus[identity][bdf].utilization
        clients == gpus[identity][bdf].client_count
        truth == gpus[identity][bdf].truth
    IN  use # None /\ truth # None =>
          /\ \/ driver[bdf] = "busy_ns" \/ truth.steady
             \/ clients * truth.time <= truth.cycles
             => use.part * truth.time <= truth.work * use.whole
          /\ driver[bdf] = "busy_ns" /\ truth.steady =>
               use = [part |-> truth.work, whole |-> truth.time]
==============================================================================

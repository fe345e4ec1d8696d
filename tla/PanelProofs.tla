---------------------------- MODULE PanelProofs ------------------------------
(***************************************************************************)
(* What the GPU sampler of processes, the GPU panel, the CPU sensors and   *)
(* the view of the cores promise, for every machine and every value of the *)
(* constants.                                                              *)
(***************************************************************************)
EXTENDS DrmSampler, GpuDevices, CpuSensors, CpuTopology, DataInduction, TLAPS

-----------------------------------------------------------------------------
(* The DRM sampler: what the files of one process add up to.               *)

DrmSpec == DrmInit /\ [][DrmNext]_drmVars

DrmTyped ==
  /\ now \in Nat /\ now <= MaxNow
  /\ driver \in [Devices -> {"busy_ns", "cycles"}]
  /\ runs \in [GpuPids -> Nat]
  /\ fds \in [Clients -> SUBSET {1, 2}]
  /\ busy \in [Clients -> Nat]
  /\ cycles \in [Devices -> Nat]
  /\ work \in [GpuPids \X Devices -> Nat]
  /\ \A c \in Clients : fds[c] = {} => busy[c] = 0

\* The clients of a process on a device and what the kernel has counted for them.
ClientsOf(pid, bdf) == {c \in Clients : pid_of[c] = pid /\ bdf_of[c] = bdf}
Load(pid, bdf) == SumFunctionOnSet(busy, ClientsOf(pid, bdf))

OpenOn(pid, bdf) == {c \in OpenClients(pid) : bdf_of[c] = bdf}

\* The file that counts for a client: that of its first descriptor.
FileOf == [c \in Clients |-> parse_fdinfo(Min(fds[c]), c)]

LEMMA ParseReads ==
  ASSUME NEW fd, NEW c
  PROVE  LET f == parse_fdinfo(fd, c)
         IN  /\ f.fd = <<c, fd>> /\ f.bdf = bdf_of[c]
             /\ f.client_id = IF c \in has_id THEN c ELSE None
             /\ driver[bdf_of[c]] = "busy_ns" =>
                  f.busy_ns = busy[c] /\ f.cycles_busy = None /\ f.cycles_total = None
             /\ driver[bdf_of[c]] # "busy_ns" =>
                  /\ f.busy_ns = None /\ f.cycles_busy = busy[c]
                  /\ f.cycles_total = cycles[bdf_of[c]]
BY DEF parse_fdinfo

LEMMA DeviceOf ==
  ASSUME NEW c \in Clients
  PROVE  bdf_of[c] \in Devices
BY DrmAssumption DEF Devices, Range

LEMMA FirstFd ==
  ASSUME DrmTyped, NEW c \in Clients, fds[c] # {}
  PROVE  Min(fds[c]) \in fds[c] /\ \A fd \in fds[c] : Min(fds[c]) <= fd
<1>1. fds[c] \in SUBSET Nat
  BY DEF DrmTyped
<1> QED
  BY <1>1, MinMember

LEMMA ParsedIs ==
  ASSUME NEW pid, NEW f
  PROVE  f \in Parsed(pid) <=> \E c \in OpenClients(pid) : \E fd \in fds[c] : f = parse_fdinfo(fd, c)
BY DEF Parsed

\* A client that is counted once has one descriptor at most if it is not named.
LEMMA OneFd ==
  ASSUME DrmTyped, NEW c \in Clients \ has_id, CountedOnce(pid_of[c], bdf_of[c]),
         NEW fd \in fds[c], NEW other \in fds[c]
  PROVE  fd = other
<1>1. fds[c] \in SUBSET {1, 2} /\ Cardinality(fds[c]) <= 1
  BY DEF CountedOnce, DrmTyped
<1>2. Cardinality({1, 2}) = 2
  <2>1. IsFiniteSet({1}) /\ Cardinality({1}) = 1
    BY FS_Singleton
  <2>2. Cardinality({1} \union {2}) = 2
    <3>1. \A S : IsFiniteSet(S) /\ 2 \notin S => Cardinality(S \union {2}) = Cardinality(S) + 1
      BY FS_AddElement
    <3>2. 2 \notin {1}
      OBVIOUS
    <3>3. Cardinality({1} \union {2}) = Cardinality({1}) + 1
      BY <2>1, <3>1, <3>2, Zenon
    <3> QED
      BY <2>1, <3>3
  <2>3. {1, 2} = {1} \union {2}
    OBVIOUS
  <2> QED
    BY <2>2, <2>3
<1>3. fds[c] # {1, 2}
  BY <1>1, <1>2
<1> QED
  BY <1>1, <1>3

\* The sampler keeps one file of each client of a device that the process has open.
LEMMA KeptFiles ==
  ASSUME DrmTyped, NEW pid, NEW bdf, CountedOnce(pid, bdf)
  PROVE  {f \in Deduped(Parsed(pid)) : f.bdf = bdf} = {FileOf[c] : c \in OpenOn(pid, bdf)}
<1>1. \A c \in OpenClients(pid) : c \in Clients /\ c # None /\ fds[c] # {} /\ pid_of[c] = pid
  BY DrmAssumption DEF OpenClients
<1>2. ASSUME NEW f \in Deduped(Parsed(pid)), f.bdf = bdf
      PROVE  \E c \in OpenOn(pid, bdf) : f = FileOf[c]
  <2>1. f \in Parsed(pid)
    BY DEF Deduped
  <2>2. PICK c \in OpenClients(pid) : \E fd \in fds[c] : f = parse_fdinfo(fd, c)
    BY <2>1, ParsedIs
  <2>3. PICK fd \in fds[c] : f = parse_fdinfo(fd, c)
    BY <2>2
  <2>4. c \in Clients /\ c # None /\ fds[c] # {} /\ pid_of[c] = pid
    BY <1>1
  <2> DEFINE m == Min(fds[c])
             g == parse_fdinfo(m, c)
  <2>5. m \in fds[c] /\ m <= fd
    BY <2>4, FirstFd
  <2>6. g \in Parsed(pid)
    BY <2>5, ParsedIs
  <2>7. f.fd = <<c, fd>> /\ f.bdf = bdf_of[c] /\ f.client_id = IF c \in has_id THEN c ELSE None
    BY <2>3, ParseReads
  <2>8. g.fd = <<c, m>> /\ g.bdf = bdf_of[c] /\ g.client_id = IF c \in has_id THEN c ELSE None
    BY ParseReads
  <2> HIDE DEF g
  <2>9. m = fd
    <3>1. CASE c \in has_id
      <4>1. f.fd[2] <= g.fd[2]
        BY <2>4, <2>6, <2>7, <2>8, <3>1 DEF Deduped
      <4>2. m \in Nat /\ fd \in Nat
        BY <2>4, <2>5 DEF DrmTyped
      <4> QED
        BY <2>5, <2>7, <2>8, <4>1, <4>2
    <3>2. CASE c \notin has_id
      <4>1. CountedOnce(pid_of[c], bdf_of[c])
        BY <1>2, <2>4, <2>7
      <4> QED
        BY <2>4, <2>5, <3>2, <4>1, OneFd
    <3> QED
      BY <3>1, <3>2
  <2>10. FileOf[c] = parse_fdinfo(m, c)
    BY <2>4 DEF FileOf
  <2>11. c \in OpenOn(pid, bdf)
    BY <1>2, <2>7 DEF OpenOn
  <2> QED
    BY <2>3, <2>9, <2>10, <2>11
<1>3. ASSUME NEW c \in OpenOn(pid, bdf)
      PROVE  FileOf[c] \in Deduped(Parsed(pid)) /\ FileOf[c].bdf = bdf
  <2>1. c \in Clients /\ c # None /\ fds[c] # {} /\ c \in OpenClients(pid) /\ bdf_of[c] = bdf
    BY <1>1 DEF OpenOn
  <2> DEFINE m == Min(fds[c])
             f == parse_fdinfo(m, c)
  <2>2. m \in fds[c] /\ \A fd \in fds[c] : m <= fd
    BY <2>1, FirstFd
  <2>3. f \in Parsed(pid)
    BY <2>1, <2>2, ParsedIs
  <2>4. f.fd = <<c, m>> /\ f.bdf = bdf /\ f.client_id = IF c \in has_id THEN c ELSE None
    BY <2>1, ParseReads
  <2>5. ASSUME f.client_id # None, NEW g \in Parsed(pid), g.client_id = f.client_id
        PROVE  f.fd[2] <= g.fd[2]
    <3>1. PICK d \in OpenClients(pid) : \E fd \in fds[d] : g = parse_fdinfo(fd, d)
      BY <2>5, ParsedIs
    <3>2. PICK fd \in fds[d] : g = parse_fdinfo(fd, d)
      BY <3>1
    <3>3. g.fd = <<d, fd>> /\ g.client_id = IF d \in has_id THEN d ELSE None
      BY <3>2, ParseReads
    <3>4. d = c
      BY <2>4, <2>5, <3>3
    <3> QED
      BY <2>2, <2>4, <3>2, <3>3, <3>4
  <2>6. FileOf[c] = f
    BY <2>1 DEF FileOf
  <2> HIDE DEF f
  <2> QED
    BY <2>3, <2>4, <2>5, <2>6 DEF Deduped
<1> HIDE DEF OpenOn
<1> QED
  BY <1>2, <1>3

\* One file for each of some clients, and what a counter of theirs reads.
FilesOf(files, C, image, v, counter) ==
  /\ IsFiniteSet(C) /\ C # {}
  /\ files = {image[c] : c \in C}
  /\ \A c \in C, d \in C : image[c] = image[d] => c = d
  /\ \A c \in C : v[c] \in Nat /\ image[c][counter] = v[c]

\* A total of the files of some clients is the sum over those clients.
LEMMA TotalIs ==
  ASSUME NEW files, NEW C, NEW image, NEW v, NEW counter, FilesOf(files, C, image, v, counter)
  PROVE  Total(files, counter) = SumFunctionOnSet(v, C)
<1>0. /\ IsFiniteSet(C) /\ C # {}
      /\ files = {image[c] : c \in C}
      /\ \A c \in C, d \in C : image[c] = image[d] => c = d
      /\ \A c \in C : v[c] \in Nat /\ image[c][counter] = v[c]
  BY DEF FilesOf
<1> DEFINE w == [f \in files |-> Or(f[counter], 0)]
<1>1. \A c \in C : v[c] # None
  BY <1>0, DrmAssumption
<1>2. \A c \in C : v[c] \in Int /\ w[image[c]] = v[c]
  BY <1>0, <1>1 DEF Or
<1>3. ~(\A f \in files : f[counter] = None)
  BY <1>0, <1>1
<1>4. Total(files, counter) = SumFunctionOnSet(w, files)
  BY <1>3 DEF Total, SumFunction
<1> HIDE DEF w
<1>5. SumFunctionOnSet(w, {image[c] : c \in C}) = SumFunctionOnSet(v, C)
  BY <1>0, <1>2, SumOverImage
<1> QED
  BY <1>0, <1>4, <1>5

LEMMA NothingTotals ==
  ASSUME NEW files, NEW counter, \A f \in files : f[counter] = None
  PROVE  Total(files, counter) = None
BY DEF Total

LEMMA ClientsFinite ==
  ASSUME NEW S \in SUBSET Clients
  PROVE  IsFiniteSet(S) /\ Cardinality(S) \in Nat /\ Cardinality(S) <= Cardinality(Clients)
         /\ Cardinality(Clients) \in Nat /\ (S # {} => Cardinality(S) >= 1)
<1>1. IsFiniteSet(S) /\ Cardinality(S) <= Cardinality(Clients)
  BY DrmAssumption, FS_Subset
<1>2. Cardinality(S) \in Nat /\ Cardinality(Clients) \in Nat
  BY <1>1, DrmAssumption, FS_CardinalityType
<1>3. S # {} => Cardinality(S) # 0
  BY <1>1, FS_EmptySet
<1> QED
  BY <1>1, <1>2, <1>3

LEMMA LoadIsNat ==
  ASSUME DrmTyped, NEW pid, NEW bdf
  PROVE  Load(pid, bdf) \in Nat
<1>1. IsFiniteSet(ClientsOf(pid, bdf))
  BY ClientsFinite DEF ClientsOf
<1>2. \A c \in ClientsOf(pid, bdf) : busy[c] \in Nat
  BY DEF ClientsOf, DrmTyped
<1> QED
  BY <1>1, <1>2, SumIsNat DEF Load

LEMMA NextLoadIsNat ==
  ASSUME DrmTyped', NEW pid, NEW bdf
  PROVE  Load(pid, bdf)' \in Nat
<1>1. IsFiniteSet(ClientsOf(pid, bdf)) /\ ClientsOf(pid, bdf)' = ClientsOf(pid, bdf)
  BY ClientsFinite DEF ClientsOf
<1>2. \A c \in ClientsOf(pid, bdf) : busy'[c] \in Nat
  BY DEF ClientsOf, DrmTyped
<1>3. SumFunctionOnSet(busy', ClientsOf(pid, bdf)) \in Nat
  BY <1>1, <1>2, SumIsNat
<1> QED
  BY <1>1, <1>3 DEF Load

\* What a sample of one process finds on a device that it uses.
LEMMA MergeIs ==
  ASSUME DrmTyped, NEW pid, NEW bdf, OpenOn(pid, bdf) # {}, CountedOnce(pid, bdf)
  PROVE  LET files == {f \in Deduped(Parsed(pid)) : f.bdf = bdf}
             e == merge_engine(files)
             clients == Cardinality(OpenOn(pid, bdf))
         IN  /\ driver[bdf] = "busy_ns" => e.busy_ns = Load(pid, bdf)
             /\ driver[bdf] # "busy_ns" => /\ e.busy_ns = None /\ e.cycles_busy = Load(pid, bdf)
                                           /\ e.cycles_total = clients * cycles[bdf]
             /\ Cardinality(files) = clients /\ clients \in Nat /\ clients >= 1
<1> DEFINE C == OpenOn(pid, bdf)
           files == {f \in Deduped(Parsed(pid)) : f.bdf = bdf}
<1>1. \A c \in C : c \in Clients /\ fds[c] # {} /\ bdf_of[c] = bdf /\ pid_of[c] = pid
  BY DEF OpenOn, OpenClients
<1>2. \A c \in Clients : FileOf[c] = parse_fdinfo(Min(fds[c]), c)
  BY DEF FileOf
<1>4. files = {FileOf[c] : c \in C}
  BY KeptFiles
<1>5. /\ \A c \in C : /\ FileOf[c].fd[1] = c
                      /\ driver[bdf] = "busy_ns" =>
                           FileOf[c].busy_ns = busy[c] /\ FileOf[c].cycles_busy = None
                      /\ driver[bdf] # "busy_ns" =>
                           /\ FileOf[c].busy_ns = None /\ FileOf[c].cycles_busy = busy[c]
                           /\ FileOf[c].cycles_total = cycles[bdf]
      /\ \A c \in C, d \in C : FileOf[c] = FileOf[d] => c = d
  <2>1. \A c \in C : /\ FileOf[c].fd[1] = c
                     /\ driver[bdf] = "busy_ns" =>
                          FileOf[c].busy_ns = busy[c] /\ FileOf[c].cycles_busy = None
                     /\ driver[bdf] # "busy_ns" =>
                          /\ FileOf[c].busy_ns = None /\ FileOf[c].cycles_busy = busy[c]
                          /\ FileOf[c].cycles_total = cycles[bdf]
    <3> SUFFICES ASSUME NEW c \in C
                 PROVE  /\ FileOf[c].fd[1] = c
                        /\ driver[bdf] = "busy_ns" =>
                             FileOf[c].busy_ns = busy[c] /\ FileOf[c].cycles_busy = None
                        /\ driver[bdf] # "busy_ns" =>
                             /\ FileOf[c].busy_ns = None /\ FileOf[c].cycles_busy = busy[c]
                             /\ FileOf[c].cycles_total = cycles[bdf]
      OBVIOUS
    <3>1. bdf_of[c] = bdf /\ FileOf[c] = parse_fdinfo(Min(fds[c]), c)
      BY <1>1, <1>2
    <3>2. FileOf[c].fd = <<c, Min(fds[c])>>
      BY <3>1, ParseReads
    <3> QED
      BY <3>1, <3>2, ParseReads
  <2> HIDE DEF C
  <2> QED
    BY <2>1
<1>6. C \in SUBSET Clients /\ C # {}
  BY <1>1
<1>7. IsFiniteSet(C) /\ Cardinality(C) \in Nat /\ Cardinality(C) >= 1
  BY <1>6, ClientsFinite
<1>8. SumFunctionOnSet(busy, C) = Load(pid, bdf)
  <2>1. C \in SUBSET ClientsOf(pid, bdf)
    BY <1>1 DEF ClientsOf
  <2>2. IsFiniteSet(ClientsOf(pid, bdf))
    BY ClientsFinite DEF ClientsOf
  <2>3. \A c \in ClientsOf(pid, bdf) : busy[c] \in Int
    BY DEF ClientsOf, DrmTyped
  <2>4. \A c \in ClientsOf(pid, bdf) \ C : busy[c] = 0
    BY DEF ClientsOf, OpenOn, OpenClients, DrmTyped
  <2> HIDE DEF C
  <2> QED
    BY <2>1, <2>2, <2>3, <2>4, SumIgnores DEF Load
<1>9. /\ \A c \in C : busy[c] \in Nat
      /\ cycles[bdf] \in Nat
  <2>1. \A c \in C : busy[c] \in Nat
    BY <1>1 DEF DrmTyped
  <2>2. PICK c \in C : c \in Clients /\ bdf_of[c] = bdf
    BY <1>1, <1>6
  <2>3. bdf \in Devices
    BY <2>2, DeviceOf
  <2> QED
    BY <2>1, <2>3 DEF DrmTyped
<1>12. Cardinality(files) = Cardinality(C)
  <2> DEFINE v == [c \in C |-> 0]
             w == [f \in files |-> 0]
  <2>1. \A c \in C : v[c] \in Int /\ w[FileOf[c]] = v[c]
    BY <1>4
  <2> HIDE DEF v, w, C, files
  <2> QED
    BY <1>4, <1>5, <1>7, <2>1, SumOverImage
<1> HIDE DEF C, files
<1>10. CASE driver[bdf] = "busy_ns"
  <2>1. Total(files, "busy_ns") = SumFunctionOnSet(busy, C)
    <3>1. /\ IsFiniteSet(C) /\ C # {}
          /\ \A c \in C, d \in C : FileOf[c] = FileOf[d] => c = d
          /\ \A c \in C : busy[c] \in Nat /\ FileOf[c]["busy_ns"] = busy[c]
      BY <1>5, <1>6, <1>7, <1>9, <1>10
    <3>2. FilesOf(files, C, FileOf, busy, "busy_ns")
      BY <1>4, <3>1 DEF FilesOf
    <3> QED
      BY <3>2, TotalIs
  <2>2. merge_engine(files).busy_ns = Load(pid, bdf)
    BY <1>8, <2>1 DEF merge_engine
  <2> QED
    BY <1>7, <1>10, <1>12, <2>2 DEF C, files
<1>11. CASE driver[bdf] # "busy_ns"
  <2>1. Total(files, "busy_ns") = None
    BY <1>4, <1>5, <1>11, NothingTotals
  <2>2. Total(files, "cycles_busy") = SumFunctionOnSet(busy, C)
    <3>1. /\ IsFiniteSet(C) /\ C # {}
          /\ \A c \in C, d \in C : FileOf[c] = FileOf[d] => c = d
          /\ \A c \in C : busy[c] \in Nat /\ FileOf[c]["cycles_busy"] = busy[c]
      BY <1>5, <1>6, <1>7, <1>9, <1>11
    <3>2. FilesOf(files, C, FileOf, busy, "cycles_busy")
      BY <1>4, <3>1 DEF FilesOf
    <3> QED
      BY <3>2, TotalIs
  <2> DEFINE u == [c \in C |-> cycles[bdf]]
  <2>3. cycles[bdf] \in Nat /\ \A c \in C : u[c] = cycles[bdf]
    BY <1>9
  <2> HIDE DEF u
  <2>4. Total(files, "cycles_total") = SumFunctionOnSet(u, C)
    <3>1. /\ IsFiniteSet(C) /\ C # {}
          /\ \A c \in C, d \in C : FileOf[c] = FileOf[d] => c = d
          /\ \A c \in C : u[c] \in Nat /\ FileOf[c]["cycles_total"] = u[c]
      BY <1>5, <1>6, <1>7, <1>11, <2>3
    <3>2. FilesOf(files, C, FileOf, u, "cycles_total")
      BY <1>4, <3>1 DEF FilesOf
    <3> QED
      BY <3>2, TotalIs
  <2>5. SumFunctionOnSet(u, C) = Cardinality(C) * cycles[bdf]
    BY <1>7, <2>3, SumConstant
  <2>6. /\ merge_engine(files).busy_ns = None
        /\ merge_engine(files).cycles_busy = Load(pid, bdf)
        /\ merge_engine(files).cycles_total = Cardinality(C) * cycles[bdf]
    BY <1>8, <2>1, <2>2, <2>4, <2>5 DEF merge_engine
  <2> QED
    BY <1>7, <1>11, <1>12, <2>6 DEF C, files
<1> QED
  BY <1>10, <1>11

-----------------------------------------------------------------------------
(* What the sampler remembers of each process, and why it suffices.        *)

IsIdentity(id) ==
  id.pid \in GpuPids /\ id.start_time \in Nat /\ id.start_time <= runs[id.pid]

CollectionInv ==
  collection # None =>
    /\ collection = [at |-> collection.at, todo |-> collection.todo, live |-> collection.live]
    /\ collection.at \in Nat /\ collection.at <= now
    /\ \A id \in collection.todo : IsIdentity(id)

\* A baseline b of process k[1] on device k[2], and s, what was true when it was taken.
SampleTyped(k, b, s) ==
  /\ IsIdentity(k[1]) /\ k[2] \in Devices
  /\ s = [work |-> s.work, at |-> s.at, cycles |-> s.cycles, steady |-> s.steady]
  /\ s.work \in Nat /\ s.at \in Nat /\ s.at <= now /\ s.steady \in BOOLEAN
  /\ b.sampled_at \in Nat /\ b.sampled_at <= now
  /\ collection # None => b.sampled_at <= collection.at
  /\ driver[k[2]] = "busy_ns" => b.busy_ns \in Nat /\ s.at = b.sampled_at
  /\ driver[k[2]] # "busy_ns" =>
       b.busy_ns = None /\ b.cycles_busy \in Nat /\ s.cycles \in Nat

Base(k, b) == IF driver[k[2]] = "busy_ns" THEN b.busy_ns ELSE b.cycles_busy

\* While the process lives, its counters have grown by no more than its work, and by
\* exactly that if none of its clients has gone or started again.
SampleCounts(k, b, s) ==
  Identity(k[1].pid) = k[1] =>
    /\ Load(k[1].pid, k[2]) + s.work <= work[<<k[1].pid, k[2]>>] + Base(k, b)
    /\ s.steady => Load(k[1].pid, k[2]) + s.work = work[<<k[1].pid, k[2]>>] + Base(k, b)

\* The cycles of an engine have grown with the clock unless they started again, and
\* were counted for no more clients than the process still has if none is gone.
Unbroken(k, s) == s.steady /\ Identity(k[1].pid) = k[1]

SampleTotals(k, b, s) ==
  /\ ClientsOf(k[1].pid, k[2]) # {}
  /\ driver[k[2]] # "busy_ns" =>
       /\ \/ cycles[k[2]] = s.cycles + (now - s.at)
          \/ cycles[k[2]] <= now - s.at /\ ~s.steady
       /\ \E n \in Nat : /\ n >= 1 /\ b.cycles_total = n * s.cycles
                         /\ Unbroken(k, s) => n <= Cardinality(OpenOn(k[1].pid, k[2]))

SamplesInv ==
  /\ DOMAIN sampled \subseteq DOMAIN counters
  /\ \A k \in DOMAIN sampled : /\ SampleTyped(k, counters[k], sampled[k])
                               /\ SampleCounts(k, counters[k], sampled[k])

TotalsInv == \A k \in DOMAIN sampled : SampleTotals(k, counters[k], sampled[k])

\* The inductive invariant of the sampler.
DrmInv == DrmTyped /\ CollectionInv /\ SamplesInv /\ TotalsInv /\ UtilizationIsReal

LEMMA DrmInitially ==
  ASSUME DrmInit
  PROVE  DrmInv
<1>1. DrmTyped
  <2>1. busy \in [Clients -> Nat] /\ fds \in [Clients -> SUBSET {1, 2}]
    BY DEF DrmInit
  <2>2. \A c \in Clients : fds[c] = {} => busy[c] = 0
    BY DEF DrmInit
  <2> QED
    BY <2>1, <2>2, DrmAssumption DEF DrmInit, DrmTyped
<1>2. CollectionInv
  BY DEF DrmInit, CollectionInv
<1>3. DOMAIN counters = {} /\ DOMAIN sampled = {} /\ DOMAIN gpus = {}
  BY DEF DrmInit
<1>4. SamplesInv
  BY <1>3 DEF SamplesInv
<1>6. TotalsInv
  BY <1>3 DEF TotalsInv
<1>5. UtilizationIsReal
  BY <1>3 DEF UtilizationIsReal
<1> QED
  BY <1>1, <1>2, <1>4, <1>5, <1>6 DEF DrmInv

\* What a process has done on a device is counted, and a load changes as its clients'
\* counters do.
LEMMA LoadKept ==
  ASSUME DrmTyped, DrmTyped', NEW pid, NEW bdf,
         \A c \in ClientsOf(pid, bdf) : busy'[c] = busy[c]
  PROVE  Load(pid, bdf)' = Load(pid, bdf)
<1>1. IsFiniteSet(ClientsOf(pid, bdf)) /\ ClientsOf(pid, bdf)' = ClientsOf(pid, bdf)
  BY ClientsFinite DEF ClientsOf
<1>2. \A c \in ClientsOf(pid, bdf) : busy[c] \in Int
  BY DEF ClientsOf, DrmTyped
<1>3. SumFunctionOnSet(busy', ClientsOf(pid, bdf)) = SumFunctionOnSet(busy, ClientsOf(pid, bdf))
  BY <1>1, <1>2, SumSame
<1> QED
  BY <1>1, <1>3 DEF Load

LEMMA LoadFalls ==
  ASSUME DrmTyped, DrmTyped', NEW pid, NEW bdf,
         \A c \in ClientsOf(pid, bdf) : busy'[c] <= busy[c]
  PROVE  Load(pid, bdf)' <= Load(pid, bdf)
<1>1. IsFiniteSet(ClientsOf(pid, bdf)) /\ ClientsOf(pid, bdf)' = ClientsOf(pid, bdf)
  BY ClientsFinite DEF ClientsOf
<1>2. \A c \in ClientsOf(pid, bdf) : busy[c] \in Int /\ busy'[c] \in Int
  BY DEF ClientsOf, DrmTyped
<1>3. SumFunctionOnSet(busy', ClientsOf(pid, bdf)) <= SumFunctionOnSet(busy, ClientsOf(pid, bdf))
  BY <1>1, <1>2, SumMonotone
<1> QED
  BY <1>1, <1>3 DEF Load

LEMMA LoadGrows ==
  ASSUME DrmTyped, DrmTyped', NEW c \in Clients, busy' = [busy EXCEPT ![c] = @ + 1]
  PROVE  Load(pid_of[c], bdf_of[c])' = Load(pid_of[c], bdf_of[c]) + 1
<1> DEFINE C == ClientsOf(pid_of[c], bdf_of[c])
<1>1. IsFiniteSet(C) /\ C' = C /\ c \in C /\ IsFiniteSet(C \ {c})
  BY ClientsFinite DEF ClientsOf
<1>2. \A d \in C : busy[d] \in Int /\ busy'[d] \in Int
  BY DEF ClientsOf, DrmTyped
<1>3. \A d \in C \ {c} : busy'[d] = busy[d]
  BY DEF ClientsOf, DrmTyped
<1>4. busy'[c] = busy[c] + 1
  BY DEF DrmTyped
<1>5. Load(pid_of[c], bdf_of[c]) = SumFunctionOnSet(busy, C)
      /\ Load(pid_of[c], bdf_of[c])' = SumFunctionOnSet(busy', C)
  BY <1>1 DEF Load
<1> HIDE DEF C
<1>6. SumFunctionOnSet(busy, C) = busy[c] + SumFunctionOnSet(busy, C \ {c})
  BY <1>1, <1>2, SumRemoves
<1>10. SumFunctionOnSet(busy', C) = busy'[c] + SumFunctionOnSet(busy', C \ {c})
  <2>1. \A v : (\A d \in C : v[d] \in Int) =>
                 SumFunctionOnSet(v, C) = v[c] + SumFunctionOnSet(v, C \ {c})
    BY <1>1, SumRemoves
  <2> QED
    BY <1>2, <2>1
<1>7. SumFunctionOnSet(busy', C \ {c}) = SumFunctionOnSet(busy, C \ {c})
  <2> DEFINE D == C \ {c}
  <2>1. \A d \in D : busy[d] \in Int /\ busy'[d] = busy[d]
    BY <1>2, <1>3
  <2>2. IsFiniteSet(D)
    BY <1>1
  <2> HIDE DEF D
  <2>3. \A v, w : (\A d \in D : w[d] \in Int /\ v[d] = w[d]) =>
                 SumFunctionOnSet(v, D) = SumFunctionOnSet(w, D)
    BY <2>2, SumSame
  <2>4. SumFunctionOnSet(busy', D) = SumFunctionOnSet(busy, D)
    BY <2>1, <2>3
  <2> QED
    BY <2>4 DEF D
<1>8. SumFunctionOnSet(busy, C \ {c}) \in Int /\ busy[c] \in Int
  BY <1>1, <1>2, SumIsInt
<1> QED
  BY <1>4, <1>5, <1>6, <1>10, <1>7, <1>8

\* Samples outlive a step that leaves the counters, the work and the processes alone.
LEMMA SamplesKept ==
  ASSUME DrmTyped, DrmTyped', SamplesInv, now <= now', collection' # None => collection # None,
         collection' # None => collection'.at = collection.at,
         UNCHANGED <<driver, runs, busy, work, counters, sampled>>
  PROVE  SamplesInv'
<1>1. ASSUME NEW k \in DOMAIN sampled
      PROVE  SampleTyped(k, counters[k], sampled[k])'
  <2>1. SampleTyped(k, counters[k], sampled[k])
    BY DEF SamplesInv
  <2>2. now \in Nat /\ now' \in Nat
    BY DEF DrmTyped
  <2>3. IsIdentity(k[1])' = IsIdentity(k[1])
    BY DEF IsIdentity
  <2>4. /\ sampled[k].at \in Nat /\ sampled[k].at <= now
        /\ counters[k].sampled_at \in Nat /\ counters[k].sampled_at <= now
    BY <2>1 DEF SampleTyped
  <2>5. sampled[k].at <= now' /\ counters[k].sampled_at <= now'
    BY <2>2, <2>4
  <2> QED
    BY <2>1, <2>3, <2>5 DEF SampleTyped
<1>2. ASSUME NEW k \in DOMAIN sampled
      PROVE  SampleCounts(k, counters[k], sampled[k])'
  <2>1. SampleCounts(k, counters[k], sampled[k])
    BY DEF SamplesInv
  <2>2. Load(k[1].pid, k[2])' = Load(k[1].pid, k[2])
    BY LoadKept
  <2> QED
    BY <2>1, <2>2 DEF SampleCounts, Identity, Base
<1> QED
  BY <1>1, <1>2 DEF SamplesInv

\* The clients of a process are no fewer unless one has gone.
LEMMA ClientsGrow ==
  ASSUME DrmTyped', NEW pid, NEW bdf, OpenOn(pid, bdf) \subseteq OpenOn(pid, bdf)'
  PROVE  /\ Cardinality(OpenOn(pid, bdf)) \in Nat /\ Cardinality(OpenOn(pid, bdf)') \in Nat
         /\ Cardinality(OpenOn(pid, bdf)) <= Cardinality(OpenOn(pid, bdf)')
<1>1. OpenOn(pid, bdf)' \in SUBSET Clients
  BY DEF OpenOn, OpenClients
<1>2. IsFiniteSet(OpenOn(pid, bdf)')
  BY <1>1, DrmAssumption, FS_Subset
<1>3. IsFiniteSet(OpenOn(pid, bdf)) /\ Cardinality(OpenOn(pid, bdf)) <= Cardinality(OpenOn(pid, bdf)')
  BY <1>2, FS_Subset
<1> QED
  BY <1>2, <1>3, FS_CardinalityType

\* The totals outlive a step by which the cycles grow with the clock or the sample is
\* no longer exact.
LEMMA TotalsStep ==
  ASSUME DrmTyped, DrmTyped', SamplesInv, TotalsInv, UNCHANGED driver, now <= now',
         NEW k \in DOMAIN sampled, counters'[k] = counters[k],
         sampled'[k].cycles = sampled[k].cycles, sampled'[k].at = sampled[k].at,
         sampled'[k].steady => sampled[k].steady,
         \/ cycles'[k[2]] = cycles[k[2]] + (now' - now)
         \/ cycles'[k[2]] = 0 /\ ~sampled'[k].steady,
         Unbroken(k, sampled[k])' =>
           Unbroken(k, sampled[k]) /\ OpenOn(k[1].pid, k[2]) \subseteq OpenOn(k[1].pid, k[2])'
  PROVE  SampleTotals(k, counters[k], sampled[k])'
<1>1. SampleTyped(k, counters[k], sampled[k]) /\ SampleTotals(k, counters[k], sampled[k])
  BY DEF SamplesInv, TotalsInv
<1>2. ClientsOf(k[1].pid, k[2])' # {}
  BY <1>1 DEF SampleTotals, ClientsOf
<1>3. ASSUME driver[k[2]] # "busy_ns"
      PROVE  /\ \/ cycles'[k[2]] = sampled'[k].cycles + (now' - sampled'[k].at)
                \/ cycles'[k[2]] <= now' - sampled'[k].at /\ ~sampled'[k].steady
             /\ \E n \in Nat : /\ n >= 1 /\ counters'[k].cycles_total = n * sampled'[k].cycles
                               /\ Unbroken(k, sampled[k])' =>
                                    n <= Cardinality(OpenOn(k[1].pid, k[2])')
  <2>1. /\ k[2] \in Devices /\ sampled[k].cycles \in Nat /\ sampled[k].at \in Nat
        /\ sampled[k].at <= now
    BY <1>1, <1>3 DEF SampleTyped
  <2>2. now \in Nat /\ now' \in Nat /\ cycles[k[2]] \in Nat /\ cycles'[k[2]] \in Nat
    BY <2>1 DEF DrmTyped
  <2>3. \/ cycles[k[2]] = sampled[k].cycles + (now - sampled[k].at)
        \/ cycles[k[2]] <= now - sampled[k].at /\ ~sampled[k].steady
    BY <1>1, <1>3 DEF SampleTotals
  <2>4. \/ cycles'[k[2]] = sampled'[k].cycles + (now' - sampled'[k].at)
        \/ cycles'[k[2]] <= now' - sampled'[k].at /\ ~sampled'[k].steady
    BY <2>1, <2>2, <2>3
  <2>5. PICK n \in Nat : /\ n >= 1 /\ counters[k].cycles_total = n * sampled[k].cycles
                         /\ Unbroken(k, sampled[k]) => n <= Cardinality(OpenOn(k[1].pid, k[2]))
    BY <1>1, <1>3 DEF SampleTotals
  <2>6. ASSUME Unbroken(k, sampled[k])'
        PROVE  n <= Cardinality(OpenOn(k[1].pid, k[2])')
    <3>1. n <= Cardinality(OpenOn(k[1].pid, k[2]))
      BY <2>5, <2>6
    <3>2. /\ Cardinality(OpenOn(k[1].pid, k[2])) \in Nat
          /\ Cardinality(OpenOn(k[1].pid, k[2])') \in Nat
          /\ Cardinality(OpenOn(k[1].pid, k[2])) <= Cardinality(OpenOn(k[1].pid, k[2])')
      BY <2>6, ClientsGrow
    <3> QED
      BY <2>5, <3>1, <3>2
  <2> QED
    BY <2>4, <2>5, <2>6
<1> QED
  BY <1>2, <1>3 DEF SampleTotals

\* In particular they outlive a step by which no descriptor is closed and no process
\* replaced.
LEMMA TotalsKept ==
  ASSUME DrmTyped, DrmTyped', SamplesInv, TotalsInv, now <= now',
         UNCHANGED <<driver, runs, counters, sampled>>,
         \A bdf \in Devices : cycles'[bdf] = cycles[bdf] + (now' - now),
         \A c \in Clients : fds[c] # {} => fds'[c] # {}
  PROVE  TotalsInv'
<1> SUFFICES ASSUME NEW k \in DOMAIN sampled
             PROVE  SampleTotals(k, counters[k], sampled[k])'
  BY DEF TotalsInv
<1>1. k[2] \in Devices
  BY DEF SamplesInv, SampleTyped
<1>2. Identity(k[1].pid)' = Identity(k[1].pid)
  BY DEF Identity
<1>3. OpenOn(k[1].pid, k[2]) \subseteq OpenOn(k[1].pid, k[2])'
  BY DEF OpenOn, OpenClients
<1> QED
  BY <1>1, <1>2, <1>3, TotalsStep DEF Unbroken

\* Time and cycles at rest.
LEMMA ClockAtRest ==
  ASSUME DrmTyped, UNCHANGED <<now, cycles>>
  PROVE  now <= now' /\ \A bdf \in Devices : cycles'[bdf] = cycles[bdf] + (now' - now)
BY DEF DrmTyped

LEMMA CollectionKept ==
  ASSUME DrmTyped, DrmTyped', CollectionInv, now <= now', UNCHANGED collection,
         \A pid \in GpuPids : runs[pid] <= runs'[pid]
  PROVE  CollectionInv'
<1> SUFFICES ASSUME collection # None
             PROVE  /\ collection = [at |-> collection.at, todo |-> collection.todo,
                                     live |-> collection.live]
                    /\ collection.at \in Nat /\ collection.at <= now'
                    /\ \A id \in collection.todo : IsIdentity(id)'
  BY DEF CollectionInv
<1>1. now \in Nat /\ now' \in Nat /\ \A pid \in GpuPids : runs[pid] \in Nat /\ runs'[pid] \in Nat
  BY DEF DrmTyped
<1>2. collection.at \in Nat /\ collection.at <= now'
  BY <1>1 DEF CollectionInv
<1>3. ASSUME NEW id \in collection.todo
      PROVE  IsIdentity(id)'
  BY <1>1 DEF CollectionInv, IsIdentity
<1> QED
  BY <1>2, <1>3 DEF CollectionInv

LEMMA ReportsKept ==
  ASSUME UtilizationIsReal, UNCHANGED <<gpus, driver>>
  PROVE  UtilizationIsReal'
BY DEF UtilizationIsReal

LEMMA DrmTick ==
  ASSUME DrmInv, Tick
  PROVE  DrmInv'
<1>1. DrmTyped'
  <2>1. cycles' \in [Devices -> Nat]
    BY DEF DrmInv, DrmTyped, Tick
  <2> QED
    BY <2>1, DrmAssumption DEF DrmInv, DrmTyped, Tick
<1>2. now <= now' /\ \A bdf \in Devices : cycles'[bdf] = cycles[bdf] + (now' - now)
  BY DEF Tick, DrmInv, DrmTyped
<1>3. SamplesInv'
  BY <1>1, <1>2, SamplesKept DEF DrmInv, Tick, Unsampled
<1>6. TotalsInv'
  BY <1>1, <1>2, TotalsKept DEF DrmInv, Tick, Unsampled
<1>4. CollectionInv'
  <2>1. \A pid \in GpuPids : runs[pid] <= runs'[pid]
    BY DEF Tick, DrmInv, DrmTyped
  <2> QED
    BY <1>1, <1>2, <2>1, CollectionKept DEF DrmInv, Tick, Unsampled
<1>5. UtilizationIsReal'
  BY ReportsKept DEF DrmInv, Tick, Unsampled
<1> QED
  BY <1>1, <1>3, <1>4, <1>5, <1>6 DEF DrmInv

\* The conjuncts that hold because the collection and the reports rest.
LEMMA AtRestInv ==
  ASSUME DrmInv, DrmTyped', UNCHANGED <<now, driver, collection, gpus>>,
         \A pid \in GpuPids : runs[pid] <= runs'[pid], SamplesInv', TotalsInv'
  PROVE  DrmInv'
<1>1. now <= now'
  BY DEF DrmInv, DrmTyped
<1>2. CollectionInv'
  BY <1>1, CollectionKept DEF DrmInv
<1>3. UtilizationIsReal'
  BY ReportsKept DEF DrmInv
<1> QED
  BY <1>2, <1>3 DEF DrmInv

LEMMA DrmOpenFd ==
  ASSUME DrmInv, NEW c \in Clients, OpenFd(c)
  PROVE  DrmInv'
<1>1. DrmTyped'
  <2>1. fds' \in [Clients -> SUBSET {1, 2}]
    BY DEF DrmInv, DrmTyped, OpenFd
  <2>2. \A d \in Clients : fds'[d] = {} => fds[d] = {}
    BY DEF DrmInv, DrmTyped, OpenFd
  <2> QED
    BY <2>1, <2>2 DEF DrmInv, DrmTyped, OpenFd
<1>2. now <= now' /\ \A pid \in GpuPids : runs[pid] <= runs'[pid]
  BY DEF OpenFd, DrmInv, DrmTyped
<1>3. SamplesInv'
  BY <1>1, <1>2, SamplesKept DEF DrmInv, OpenFd, Unsampled
<1>4. TotalsInv'
  <2>1. \A d \in Clients : fds[d] # {} => fds'[d] # {}
    BY DEF DrmInv, DrmTyped, OpenFd
  <2>2. \A bdf \in Devices : cycles'[bdf] = cycles[bdf] + (now' - now)
    BY ClockAtRest DEF DrmInv, OpenFd
  <2> QED
    BY <1>1, <1>2, <2>1, <2>2, TotalsKept DEF DrmInv, OpenFd, Unsampled
<1> QED
  BY <1>1, <1>2, <1>3, <1>4, AtRestInv DEF OpenFd, Unsampled

\* Counters that start again lower the load, and the samples of their process and
\* device are no longer exact.
LEMMA Lowered ==
  ASSUME DrmTyped, DrmTyped', SamplesInv, NEW cs \in SUBSET Clients,
         \A c \in Clients : busy'[c] = busy[c] \/ (busy'[c] = 0 /\ c \in cs), Disturbed(cs),
         UNCHANGED <<now, driver, runs, work, counters, collection>>
  PROVE  SamplesInv'
<1>1. DOMAIN sampled' = DOMAIN sampled /\ DOMAIN counters' = DOMAIN counters
  BY DEF Disturbed
<1>2. ASSUME NEW k \in DOMAIN sampled
      PROVE  SampleTyped(k, counters[k], sampled[k])' /\ SampleCounts(k, counters[k], sampled[k])'
  <2> DEFINE s == sampled[k]
             clean == \A c \in cs : <<pid_of[c], bdf_of[c]>> # <<k[1].pid, k[2]>>
  <2>1. SampleTyped(k, counters[k], s) /\ SampleCounts(k, counters[k], s)
    BY DEF SamplesInv
  <2>2. s = [work |-> s.work, at |-> s.at, cycles |-> s.cycles, steady |-> s.steady]
    BY <2>1 DEF SampleTyped
  <2>3. sampled'[k] = [s EXCEPT !.steady = @ /\ clean]
    BY DEF Disturbed
  <2> HIDE DEF s, clean
  <2>4. sampled'[k] = [work |-> s.work, at |-> s.at, cycles |-> s.cycles,
                       steady |-> (s.steady /\ clean)]
    BY <2>2, <2>3
  <2>5. /\ sampled'[k].work = s.work /\ sampled'[k].at = s.at /\ sampled'[k].cycles = s.cycles
        /\ sampled'[k].steady = (s.steady /\ clean)
    BY <2>4
  <2>6. SampleTyped(k, counters[k], sampled[k])'
    <3>1. IsIdentity(k[1])' = IsIdentity(k[1])
      BY DEF IsIdentity
    <3>2. (s.steady /\ clean) \in BOOLEAN
      OBVIOUS
    <3>3. sampled'[k] = [work |-> sampled'[k].work, at |-> sampled'[k].at,
                         cycles |-> sampled'[k].cycles, steady |-> sampled'[k].steady]
      BY <2>4, <2>5
    <3> QED
      BY <2>1, <2>5, <3>1, <3>2, <3>3 DEF SampleTyped
  <2>7. Load(k[1].pid, k[2])' <= Load(k[1].pid, k[2])
    BY LoadFalls DEF ClientsOf, DrmTyped
  <2>8. ASSUME clean PROVE Load(k[1].pid, k[2])' = Load(k[1].pid, k[2])
    <3>1. \A c \in ClientsOf(k[1].pid, k[2]) : busy'[c] = busy[c]
      BY <2>8 DEF ClientsOf, clean
    <3> QED
      BY <3>1, LoadKept
  <2>9. SampleCounts(k, counters[k], sampled[k])'
    <3> SUFFICES ASSUME Identity(k[1].pid) = k[1]
                 PROVE  /\ Load(k[1].pid, k[2])' + s.work
                             <= work[<<k[1].pid, k[2]>>] + Base(k, counters[k])
                        /\ s.steady /\ clean =>
                             Load(k[1].pid, k[2])' + s.work
                               = work[<<k[1].pid, k[2]>>] + Base(k, counters[k])
      BY <2>5 DEF SampleCounts, Identity, Base
    <3> DEFINE done == work[<<k[1].pid, k[2]>>]
               b == Base(k, counters[k])
               l == Load(k[1].pid, k[2])
    <3>1. l + s.work <= done + b /\ (s.steady => l + s.work = done + b)
      BY <2>1 DEF SampleCounts
    <3>2. l \in Nat /\ l' \in Nat
      BY LoadIsNat, NextLoadIsNat
    <3>3. s.work \in Nat /\ done \in Nat /\ b \in Nat
      BY <2>1 DEF SampleTyped, IsIdentity, Base, DrmTyped
    <3> HIDE DEF done, b, l
    <3>4. l' <= l /\ (clean => l' = l)
      BY <2>7, <2>8 DEF l
    <3>5. l' + s.work <= done + b /\ (s.steady /\ clean => l' + s.work = done + b)
      BY <3>1, <3>2, <3>3, <3>4
    <3> QED
      BY <3>5 DEF done, b, l
  <2> QED
    BY <2>6, <2>9
<1> QED
  BY <1>1, <1>2 DEF SamplesInv

\* When clients have gone or counters start again the totals no longer tell of the
\* samples of their process and device.
LEMMA TotalsLowered ==
  ASSUME DrmTyped, DrmTyped', SamplesInv, TotalsInv, NEW cs \in SUBSET Clients, Disturbed(cs),
         UNCHANGED <<now, driver, runs, counters>>,
         \A c \in Clients \ cs : fds[c] # {} => fds'[c] # {},
         \A bdf \in Devices :
           \/ cycles'[bdf] = cycles[bdf]
           \/ cycles'[bdf] = 0 /\ {c \in Clients : bdf_of[c] = bdf} \subseteq cs
  PROVE  TotalsInv'
<1>1. DOMAIN sampled' = DOMAIN sampled
  BY DEF Disturbed
<1> SUFFICES ASSUME NEW k \in DOMAIN sampled
             PROVE  SampleTotals(k, counters[k], sampled[k])'
  BY <1>1 DEF TotalsInv
<1> DEFINE s == sampled[k]
           clean == \A c \in cs : <<pid_of[c], bdf_of[c]>> # <<k[1].pid, k[2]>>
<1>2. k[2] \in Devices /\ s = [work |-> s.work, at |-> s.at, cycles |-> s.cycles,
                              steady |-> s.steady]
  BY DEF SamplesInv, SampleTyped
<1>3. sampled'[k] = [s EXCEPT !.steady = @ /\ clean]
  BY DEF Disturbed
<1>4. ClientsOf(k[1].pid, k[2]) # {}
  BY DEF TotalsInv, SampleTotals
<1> HIDE DEF s, clean
<1>5. sampled'[k] = [work |-> s.work, at |-> s.at, cycles |-> s.cycles,
                     steady |-> (s.steady /\ clean)]
  BY <1>2, <1>3
<1>6. /\ sampled'[k].cycles = s.cycles /\ sampled'[k].at = s.at
      /\ sampled'[k].steady = (s.steady /\ clean)
  BY <1>5
<1>7. ASSUME clean
      PROVE  OpenOn(k[1].pid, k[2]) \subseteq OpenOn(k[1].pid, k[2])'
  BY <1>7 DEF OpenOn, OpenClients, clean
<1>8. Identity(k[1].pid)' = Identity(k[1].pid)
  BY DEF Identity
<1>9. now <= now' /\ now' - now = 0
  BY DEF DrmTyped
<1>10. \/ cycles'[k[2]] = cycles[k[2]] + (now' - now)
       \/ cycles'[k[2]] = 0 /\ ~sampled'[k].steady
  <2>1. CASE cycles'[k[2]] = cycles[k[2]]
    BY <1>2, <1>9, <2>1 DEF DrmTyped
  <2>2. CASE cycles'[k[2]] = 0 /\ {c \in Clients : bdf_of[c] = k[2]} \subseteq cs
    <3>1. PICK c \in Clients : pid_of[c] = k[1].pid /\ bdf_of[c] = k[2]
      BY <1>4 DEF ClientsOf
    <3>2. ~clean
      BY <2>2, <3>1 DEF clean
    <3> QED
      BY <1>6, <2>2, <3>2
  <2> QED
    BY <1>2, <2>1, <2>2
<1> QED
  BY <1>6, <1>7, <1>8, <1>9, <1>10, TotalsStep DEF s, Unbroken

LEMMA DrmCloseFd ==
  ASSUME DrmInv, NEW c \in Clients, CloseFd(c)
  PROVE  DrmInv'
<1>1. PICK fd \in fds[c] :
        /\ fds' = [fds EXCEPT ![c] = @ \ {fd}]
        /\ IF fds[c] = {fd} THEN busy' = [busy EXCEPT ![c] = 0] /\ Disturbed({c})
           ELSE UNCHANGED <<busy, sampled>>
        /\ Unsampled /\ UNCHANGED <<now, driver, runs, cycles, work>>
  BY DEF CloseFd
<1>2. DrmTyped
  BY DEF DrmInv
<1>3. fds' \in [Clients -> SUBSET {1, 2}]
  BY <1>1, <1>2 DEF DrmTyped
<1>4. \A pid \in GpuPids : runs[pid] <= runs'[pid]
  BY <1>1, <1>2 DEF DrmTyped
<1>5. CASE fds[c] = {fd}
  <2>1. DrmTyped'
    <3>1. busy' \in [Clients -> Nat]
      BY <1>1, <1>2, <1>5 DEF DrmTyped
    <3>2. \A d \in Clients : fds'[d] = {} => busy'[d] = 0
      BY <1>1, <1>2, <1>5 DEF DrmTyped
    <3> QED
      BY <1>1, <1>2, <1>3, <3>1, <3>2 DEF DrmTyped
  <2>2. \A d \in Clients : busy'[d] = busy[d] \/ (busy'[d] = 0 /\ d \in {c})
    BY <1>1, <1>2, <1>5 DEF DrmTyped
  <2>3. Disturbed({c}) /\ UNCHANGED <<now, driver, runs, work, counters, collection, gpus>>
    BY <1>1, <1>5 DEF Unsampled
  <2>4. SamplesInv'
    BY <1>2, <2>1, <2>2, <2>3, Lowered DEF DrmInv
  <2>5. TotalsInv'
    <3>1. \A d \in Clients \ {c} : fds[d] # {} => fds'[d] # {}
      BY <1>1, <1>2 DEF DrmTyped
    <3>2. \A bdf \in Devices : cycles'[bdf] = cycles[bdf]
      BY <1>1
    <3> QED
      BY <1>2, <2>1, <2>3, <3>1, <3>2, TotalsLowered DEF DrmInv
  <2> QED
    BY <1>4, <2>1, <2>3, <2>4, <2>5, AtRestInv
<1>6. CASE fds[c] # {fd}
  <2>1. DrmTyped'
    <3>1. \A d \in Clients : fds'[d] = {} => fds[d] = {}
      BY <1>1, <1>2, <1>6 DEF DrmTyped
    <3> QED
      BY <1>1, <1>2, <1>3, <1>6, <3>1 DEF DrmTyped
  <2>2. UNCHANGED <<now, driver, runs, busy, cycles, work, counters, sampled, collection, gpus>>
    BY <1>1, <1>6 DEF Unsampled
  <2>3. now <= now'
    BY <1>2, <2>2 DEF DrmTyped
  <2>4. SamplesInv'
    BY <1>2, <2>1, <2>2, <2>3, SamplesKept DEF DrmInv
  <2>5. TotalsInv'
    <3>1. \A d \in Clients : fds[d] # {} => fds'[d] # {}
      BY <1>1, <1>2, <1>6 DEF DrmTyped
    <3>2. \A bdf \in Devices : cycles'[bdf] = cycles[bdf] + (now' - now)
      BY <1>2, <2>2, ClockAtRest
    <3> QED
      BY <1>2, <2>1, <2>2, <2>3, <3>1, <3>2, TotalsKept DEF DrmInv
  <2> QED
    BY <1>4, <2>1, <2>2, <2>4, <2>5, AtRestInv
<1> QED
  BY <1>5, <1>6

LEMMA DrmResetDevice ==
  ASSUME DrmInv, NEW bdf \in Devices, ResetDevice(bdf)
  PROVE  DrmInv'
<1> DEFINE cs == {c \in Clients : bdf_of[c] = bdf}
<1>1. /\ busy' = busy \/ busy' = [c \in Clients |-> IF c \in cs THEN 0 ELSE busy[c]]
      /\ cycles' \in {cycles, [cycles EXCEPT ![bdf] = IF driver[bdf] = "cycles" THEN 0 ELSE @]}
      /\ Disturbed(cs)
      /\ Unsampled /\ UNCHANGED <<now, driver, runs, fds, work>>
  BY DEF ResetDevice
<1>2. DrmTyped
  BY DEF DrmInv
<1>9. \A other \in Devices :
        \/ cycles'[other] = cycles[other]
        \/ cycles'[other] = 0 /\ {c \in Clients : bdf_of[c] = other} \subseteq cs
  BY <1>1, <1>2 DEF DrmTyped
<1>4. cs \in SUBSET Clients
  OBVIOUS
<1> HIDE DEF cs
<1>3. DrmTyped'
  <2>1. busy' \in [Clients -> Nat]
    BY <1>1, <1>2 DEF DrmTyped
  <2>2. \A d \in Clients : fds'[d] = {} => busy'[d] = 0
    BY <1>1, <1>2 DEF DrmTyped
  <2>3. cycles' \in [Devices -> Nat]
    BY <1>1, <1>2 DEF DrmTyped
  <2> QED
    BY <1>1, <1>2, <2>1, <2>2, <2>3 DEF DrmTyped
<1>5. UNCHANGED <<now, driver, runs, work, counters, collection, gpus>>
  BY <1>1 DEF Unsampled
<1>6. SamplesInv'
  <2>1. \A c \in Clients : busy'[c] = busy[c] \/ (busy'[c] = 0 /\ c \in cs)
    BY <1>1
  <2> QED
    BY <1>1, <1>2, <1>3, <1>4, <1>5, <2>1, Lowered DEF DrmInv
<1>8. TotalsInv'
  <2>1. \A c \in Clients \ cs : fds[c] # {} => fds'[c] # {}
    BY <1>1
  <2> QED
    BY <1>1, <1>2, <1>3, <1>4, <1>5, <1>9, <2>1, TotalsLowered DEF DrmInv
<1>7. \A pid \in GpuPids : runs[pid] <= runs'[pid]
  BY <1>1, <1>2 DEF DrmTyped
<1> QED
  BY <1>3, <1>5, <1>6, <1>7, <1>8, AtRestInv

\* The work of a client and its counter grow together.
LEMMA DrmWork ==
  ASSUME DrmInv, NEW c \in Clients, Work(c)
  PROVE  DrmInv'
<1> DEFINE own == <<pid_of[c], bdf_of[c]>>
<1>1. /\ busy' = [busy EXCEPT ![c] = @ + 1]
      /\ work' = [work EXCEPT ![own] = @ + 1]
      /\ fds[c] # {}
      /\ UNCHANGED <<now, driver, runs, fds, cycles, counters, sampled, collection, gpus>>
  BY DEF Work, Unsampled
<1>2. DrmTyped
  BY DEF DrmInv
<1>3. own \in GpuPids \X Devices
  BY DrmAssumption, DeviceOf
<1>4. DrmTyped'
  <2>1. busy' \in [Clients -> Nat]
    BY <1>1, <1>2 DEF DrmTyped
  <2>2. \A d \in Clients : fds'[d] = {} => busy'[d] = 0
    BY <1>1, <1>2 DEF DrmTyped
  <2> HIDE DEF own
  <2>3. work' \in [GpuPids \X Devices -> Nat]
    BY <1>1, <1>2, <1>3 DEF DrmTyped
  <2> QED
    BY <1>1, <1>2, <2>1, <2>2, <2>3 DEF DrmTyped
<1>5. ASSUME NEW k \in DOMAIN sampled
      PROVE  SampleTyped(k, counters[k], sampled[k])' /\ SampleCounts(k, counters[k], sampled[k])'
  <2>1. SampleTyped(k, counters[k], sampled[k]) /\ SampleCounts(k, counters[k], sampled[k])
    BY DEF SamplesInv, DrmInv
  <2>2. IsIdentity(k[1])' = IsIdentity(k[1])
    BY <1>1 DEF IsIdentity
  <2>3. SampleTyped(k, counters[k], sampled[k])'
    BY <1>1, <2>1, <2>2 DEF SampleTyped
  <2> DEFINE here == <<k[1].pid, k[2]>>
             l == Load(k[1].pid, k[2])
             b == Base(k, counters[k])
             s == sampled[k]
  <2>4. here \in GpuPids \X Devices
    BY <2>1 DEF SampleTyped, IsIdentity
  <2>5. l \in Nat /\ l' \in Nat
    BY <1>2, <1>4, LoadIsNat, NextLoadIsNat
  <2>6. s.work \in Nat /\ work[here] \in Nat /\ b \in Nat
    BY <1>2, <2>1, <2>4 DEF SampleTyped, Base, DrmTyped
  <2>7. (l' = l + 1 /\ work'[here] = work[here] + 1) \/ (l' = l /\ work'[here] = work[here])
    <3>1. CASE own = here
      <4>1. l' = l + 1
        BY <1>1, <1>2, <1>4, <3>1, LoadGrows
      <4>2. work'[here] = work[here] + 1
        BY <1>1, <1>2, <2>4, <3>1 DEF DrmTyped
      <4> QED
        BY <4>1, <4>2
    <3>2. CASE own # here
      <4>1. \A d \in ClientsOf(k[1].pid, k[2]) : busy'[d] = busy[d]
        BY <1>1, <1>2, <3>2 DEF ClientsOf, DrmTyped
      <4>2. l' = l
        BY <1>2, <1>4, <4>1, LoadKept
      <4>3. work'[here] = work[here]
        BY <1>1, <1>2, <2>4, <3>2 DEF DrmTyped
      <4> QED
        BY <4>2, <4>3
    <3> QED
      BY <3>1, <3>2
  <2>8. SampleCounts(k, counters[k], sampled[k])'
    <3> SUFFICES ASSUME Identity(k[1].pid) = k[1]
                 PROVE  /\ l' + s.work <= work'[here] + b
                        /\ s.steady => l' + s.work = work'[here] + b
      BY <1>1 DEF SampleCounts, Identity, Base
    <3>1. l + s.work <= work[here] + b /\ (s.steady => l + s.work = work[here] + b)
      BY <2>1 DEF SampleCounts
    <3> HIDE DEF l, b, s, here
    <3> QED
      BY <2>5, <2>6, <2>7, <3>1
  <2> QED
    BY <2>3, <2>8
<1>6. SamplesInv'
  BY <1>1, <1>5 DEF SamplesInv, DrmInv
<1>7. \A pid \in GpuPids : runs[pid] <= runs'[pid]
  BY <1>1, <1>2 DEF DrmTyped
<1>8. TotalsInv'
  BY <1>1, <1>2, <1>4, ClockAtRest, TotalsKept DEF DrmInv
<1> QED
  BY <1>1, <1>4, <1>6, <1>7, <1>8, AtRestInv

\* A process that replaces another one is not the one that was sampled.
LEMMA DrmReplace ==
  ASSUME DrmInv, NEW pid \in GpuPids, Replace(pid)
  PROVE  DrmInv'
<1>1. /\ runs' = [runs EXCEPT ![pid] = @ + 1]
      /\ fds' = [c \in Clients |-> IF pid_of[c] = pid THEN {} ELSE fds[c]]
      /\ busy' = [c \in Clients |-> IF pid_of[c] = pid THEN 0 ELSE busy[c]]
      /\ UNCHANGED <<now, driver, cycles, work, sampled, counters, collection, gpus>>
  BY DEF Replace, Unsampled
<1>2. DrmTyped
  BY DEF DrmInv
<1>3. DrmTyped'
  <2>1. /\ busy' \in [Clients -> Nat] /\ fds' \in [Clients -> SUBSET {1, 2}]
        /\ runs' \in [GpuPids -> Nat]
    BY <1>1, <1>2 DEF DrmTyped
  <2>2. work' \in [GpuPids \X Devices -> Nat]
    BY <1>1, <1>2 DEF DrmTyped
  <2>3. \A d \in Clients : fds'[d] = {} => busy'[d] = 0
    BY <1>1, <1>2 DEF DrmTyped
  <2> QED
    BY <1>1, <1>2, <2>1, <2>2, <2>3 DEF DrmTyped
<1>4. \A p \in GpuPids : runs[p] \in Nat /\ runs'[p] = IF p = pid THEN runs[p] + 1 ELSE runs[p]
  BY <1>1, <1>2 DEF DrmTyped
<1>5. \A p \in GpuPids : runs[p] <= runs'[p]
  BY <1>4
<1>6. ASSUME NEW k \in DOMAIN sampled
      PROVE  SampleTyped(k, counters[k], sampled[k])' /\ SampleCounts(k, counters[k], sampled[k])'
  <2>1. SampleTyped(k, counters[k], sampled[k]) /\ SampleCounts(k, counters[k], sampled[k])
    BY DEF SamplesInv, DrmInv
  <2>2. IsIdentity(k[1])'
    BY <1>4, <2>1 DEF IsIdentity, SampleTyped
  <2>3. SampleTyped(k, counters[k], sampled[k])'
    BY <1>1, <2>1, <2>2 DEF SampleTyped
  <2>4. CASE k[1].pid = pid
    <3>1. runs'[pid] # k[1].start_time
      BY <1>4, <2>1, <2>4 DEF IsIdentity, SampleTyped
    <3>2. Identity(k[1].pid)' # k[1]
      BY <2>4, <3>1 DEF Identity
    <3> QED
      BY <2>3, <3>2 DEF SampleCounts
  <2>5. CASE k[1].pid # pid
    <3>1. Identity(k[1].pid)' = Identity(k[1].pid)
      BY <1>4, <2>1, <2>5 DEF Identity, SampleTyped, IsIdentity
    <3>2. Load(k[1].pid, k[2])' = Load(k[1].pid, k[2])
      <4>1. \A d \in ClientsOf(k[1].pid, k[2]) : busy'[d] = busy[d]
        BY <1>1, <2>5 DEF ClientsOf
      <4> QED
        BY <1>2, <1>3, <4>1, LoadKept
    <3>3. work'[<<k[1].pid, k[2]>>] = work[<<k[1].pid, k[2]>>]
      BY <1>1, <1>2, <2>1, <2>5 DEF SampleTyped, IsIdentity, DrmTyped
    <3>4. SampleCounts(k, counters[k], sampled[k])'
      BY <1>1, <2>1, <3>1, <3>2, <3>3 DEF SampleCounts, Base
    <3> QED
      BY <2>3, <3>4
  <2> QED
    BY <2>4, <2>5
<1>7. SamplesInv'
  BY <1>1, <1>6 DEF SamplesInv, DrmInv
<1>8. TotalsInv'
  <2> SUFFICES ASSUME NEW k \in DOMAIN sampled
               PROVE  SampleTotals(k, counters[k], sampled[k])'
    BY <1>1 DEF TotalsInv
  <2>1. SampleTyped(k, counters[k], sampled[k])
    BY DEF SamplesInv, DrmInv
  <2>2. Identity(k[1].pid)' = k[1] => k[1].pid # pid
    BY <1>4, <2>1 DEF Identity, IsIdentity, SampleTyped
  <2>3. k[1].pid # pid => /\ Identity(k[1].pid)' = Identity(k[1].pid)
                          /\ OpenOn(k[1].pid, k[2]) \subseteq OpenOn(k[1].pid, k[2])'
    BY <1>1, <1>4, <2>1 DEF Identity, IsIdentity, SampleTyped, OpenOn, OpenClients
  <2>4. now <= now' /\ cycles'[k[2]] = cycles[k[2]] + (now' - now)
    BY <1>1, <1>2, <2>1, ClockAtRest DEF SampleTyped
  <2> QED
    BY <1>1, <1>2, <1>3, <2>2, <2>3, <2>4, TotalsStep DEF DrmInv, Unbroken
<1> QED
  BY <1>1, <1>3, <1>5, <1>7, <1>8, AtRestInv

LEMMA DrmBegin ==
  ASSUME DrmInv, BeginCollection
  PROVE  DrmInv'
<1>1. /\ collection = None
      /\ collection' = [at |-> now, todo |-> {Identity(pid) : pid \in GpuPids},
                        live |-> {Identity(pid) : pid \in GpuPids}]
      /\ UNCHANGED <<now, driver, runs, fds, busy, cycles, counters, gpus, work, sampled>>
  BY DEF BeginCollection
<1>2. DrmTyped
  BY DEF DrmInv
<1>3. DrmTyped'
  BY <1>1, <1>2 DEF DrmTyped
<1>4. CollectionInv'
  <2>1. \A id \in collection'.todo : IsIdentity(id)'
    <3>1. ASSUME NEW pid \in GpuPids, NEW id, id = Identity(pid) PROVE IsIdentity(id)'
      <4>1. runs[pid] \in Nat /\ runs' = runs
        BY <1>1, <1>2 DEF DrmTyped
      <4> QED
        BY <3>1, <4>1 DEF IsIdentity, Identity
    <3>2. collection'.todo = {Identity(pid) : pid \in GpuPids}
      BY <1>1
    <3> QED
      BY <3>1, <3>2
  <2>2. collection'.at = now /\ now \in Nat /\ now' = now
    BY <1>1, <1>2 DEF DrmTyped
  <2>3. collection' = [at |-> collection'.at, todo |-> collection'.todo, live |-> collection'.live]
    BY <1>1
  <2> QED
    BY <2>1, <2>2, <2>3 DEF CollectionInv
<1>5. ASSUME NEW k \in DOMAIN sampled
      PROVE  SampleTyped(k, counters[k], sampled[k])' /\ SampleCounts(k, counters[k], sampled[k])'
  <2>1. SampleTyped(k, counters[k], sampled[k]) /\ SampleCounts(k, counters[k], sampled[k])
    BY DEF SamplesInv, DrmInv
  <2>2. IsIdentity(k[1])' = IsIdentity(k[1])
    BY <1>1 DEF IsIdentity
  <2>3. collection'.at = now
    BY <1>1
  <2>4. SampleTyped(k, counters[k], sampled[k])'
    BY <1>1, <2>1, <2>2, <2>3 DEF SampleTyped
  <2>5. Load(k[1].pid, k[2])' = Load(k[1].pid, k[2])
    BY <1>1, <1>2, <1>3, LoadKept
  <2>6. SampleCounts(k, counters[k], sampled[k])'
    BY <1>1, <2>1, <2>5 DEF SampleCounts, Identity, Base
  <2> QED
    BY <2>4, <2>6
<1>6. SamplesInv'
  BY <1>1, <1>5 DEF SamplesInv, DrmInv
<1>7. UtilizationIsReal'
  BY <1>1, ReportsKept DEF DrmInv
<1>8. TotalsInv'
  BY <1>1, <1>2, <1>3, ClockAtRest, TotalsKept DEF DrmInv
<1> QED
  BY <1>3, <1>4, <1>6, <1>7, <1>8 DEF DrmInv

\* One process less to do.
LEMMA DoneWith ==
  ASSUME DrmInv, collection # None, NEW identity \in collection.todo,
         collection' = [collection EXCEPT !.todo = @ \ {identity}],
         UNCHANGED <<now, runs>>
  PROVE  CollectionInv' /\ collection'.at = collection.at
<1>1. /\ collection = [at |-> collection.at, todo |-> collection.todo, live |-> collection.live]
      /\ collection.at \in Nat /\ collection.at <= now
      /\ \A id \in collection.todo : IsIdentity(id)
  BY DEF CollectionInv, DrmInv
<1>2. collection' = [at |-> collection.at, todo |-> collection.todo \ {identity},
                     live |-> collection.live]
  BY <1>1
<1>3. /\ collection'.at = collection.at /\ collection'.todo = collection.todo \ {identity}
      /\ collection'.live = collection.live
  BY <1>2
<1>4. \A id \in collection'.todo : IsIdentity(id)'
  BY <1>1, <1>3 DEF IsIdentity
<1> QED
  BY <1>1, <1>2, <1>3, <1>4 DEF CollectionInv

LEMMA DrmSkip ==
  ASSUME DrmInv, SkipProcess
  PROVE  DrmInv'
<1>1. /\ collection # None
      /\ UNCHANGED <<now, driver, runs, fds, busy, cycles, counters, gpus, work, sampled>>
  BY DEF SkipProcess
<1>2. PICK identity \in collection.todo :
        collection' = [collection EXCEPT !.todo = @ \ {identity}]
  BY DEF SkipProcess
<1>3. CollectionInv' /\ collection'.at = collection.at
  BY <1>1, <1>2, DoneWith
<1>4. DrmTyped /\ DrmTyped' /\ now <= now'
  BY <1>1 DEF DrmInv, DrmTyped
<1>5. SamplesInv'
  BY <1>1, <1>3, <1>4, SamplesKept DEF DrmInv
<1>6. UtilizationIsReal'
  BY <1>1, ReportsKept DEF DrmInv
<1>7. TotalsInv'
  BY <1>1, <1>4, ClockAtRest, TotalsKept DEF DrmInv
<1> QED
  BY <1>3, <1>4, <1>5, <1>6, <1>7 DEF DrmInv

\* Baselines of processes that are gone go with them.
LEMMA DrmEnd ==
  ASSUME DrmInv, EndCollection
  PROVE  DrmInv'
<1> DEFINE left == {k \in DOMAIN sampled : k[1] \in collection.live}
<1>1. /\ collection' = None /\ gpus' = <<>>
      /\ UNCHANGED <<now, driver, runs, fds, busy, cycles, work>>
  BY DEF EndCollection
<1> DEFINE kept == {k \in DOMAIN counters : k[1] \in collection.live}
<1>2. DOMAIN sampled \subseteq DOMAIN counters
  BY DEF DrmInv, SamplesInv
<1>3. /\ counters' = [k \in kept |-> counters[k]] /\ sampled' = [k \in left |-> sampled[k]]
      /\ left \subseteq kept
  BY <1>2 DEF EndCollection, retain_drm, Restrict
<1>4. DrmTyped /\ DrmTyped'
  BY <1>1 DEF DrmInv, DrmTyped
<1>5. CollectionInv'
  BY <1>1 DEF CollectionInv
<1>6. ASSUME NEW k \in left
      PROVE  SampleTyped(k, counters[k], sampled[k])' /\ SampleCounts(k, counters[k], sampled[k])'
  <2>1. SampleTyped(k, counters[k], sampled[k]) /\ SampleCounts(k, counters[k], sampled[k])
    BY DEF SamplesInv, DrmInv
  <2>2. IsIdentity(k[1])' = IsIdentity(k[1])
    BY <1>1 DEF IsIdentity
  <2>3. counters'[k] = counters[k] /\ sampled'[k] = sampled[k]
    BY <1>3
  <2>4. SampleTyped(k, counters[k], sampled[k])'
    BY <1>1, <2>1, <2>2, <2>3 DEF SampleTyped
  <2>5. Load(k[1].pid, k[2])' = Load(k[1].pid, k[2])
    BY <1>1, <1>4, LoadKept
  <2>6. SampleCounts(k, counters[k], sampled[k])'
    BY <1>1, <2>1, <2>3, <2>5 DEF SampleCounts, Identity, Base
  <2> QED
    BY <2>4, <2>6
<1>7. DOMAIN sampled' = left /\ DOMAIN sampled' \subseteq DOMAIN counters'
  BY <1>3
<1>8. SamplesInv'
  BY <1>6, <1>7 DEF SamplesInv
<1>9. UtilizationIsReal'
  <2>1. DOMAIN gpus' = {}
    BY <1>1
  <2> QED
    BY <2>1 DEF UtilizationIsReal
<1>10. TotalsInv'
  <2> SUFFICES ASSUME NEW k \in left
               PROVE  SampleTotals(k, counters[k], sampled[k])'
    BY <1>7 DEF TotalsInv
  <2>1. counters'[k] = counters[k] /\ sampled'[k] = sampled[k]
    BY <1>3
  <2>2. k[2] \in Devices
    BY DEF DrmInv, SamplesInv, SampleTyped
  <2>3. Identity(k[1].pid)' = Identity(k[1].pid)
    BY <1>1 DEF Identity
  <2>4. OpenOn(k[1].pid, k[2]) \subseteq OpenOn(k[1].pid, k[2])'
    BY <1>1 DEF OpenOn, OpenClients
  <2>5. now <= now' /\ cycles'[k[2]] = cycles[k[2]] + (now' - now)
    BY <1>1, <1>4, <2>2, ClockAtRest
  <2> QED
    BY <1>1, <1>4, <2>1, <2>3, <2>4, <2>5, TotalsStep DEF DrmInv, Unbroken
<1> QED
  BY <1>4, <1>5, <1>8, <1>9, <1>10 DEF DrmInv

\* A share of at most the work in at least the time is no larger than work in time.
LEMMA SmallerShare ==
  ASSUME NEW part \in Nat, NEW done \in Nat, part <= done,
         NEW passed \in Nat, NEW whole \in Nat, passed <= whole
  PROVE  part * passed <= done * whole
<1>1. part * passed <= part * whole
  OBVIOUS
<1>2. part * whole <= done * whole
  OBVIOUS
<1>3. part * passed \in Nat /\ part * whole \in Nat /\ done * whole \in Nat
  OBVIOUS
<1> QED
  BY <1>1, <1>2, <1>3

LEMMA ProductGrows ==
  ASSUME NEW a \in Nat, NEW b \in Nat, NEW c \in Nat, NEW d \in Nat, a <= c, b <= d
  PROVE  a * b <= c * d
BY SmallerShare

\* The cycles u of an engine, counted for m clients, exceed its cycles t of the last
\* sample, counted for n clients, if at all by at least the e cycles between: if clients
\* have gone or the engine started again, m times e is not enough to make up for t.
LEMMA CyclesPass ==
  ASSUME NEW m \in Nat, m >= 1, NEW n \in Nat, n >= 1, NEW t \in Nat, NEW u \in Nat,
         NEW e \in Nat, NEW steady \in BOOLEAN,
         u = t + e \/ (u <= e /\ ~steady), steady => n <= m, steady \/ m * e <= t,
         n * t < m * u
  PROVE  e <= m * u - n * t
<1>1. m * u \in Nat /\ n * t \in Nat /\ m * e \in Nat /\ m * t \in Nat
  OBVIOUS
<1>2. CASE u = t + e /\ n <= m
  <2>1. m * u = m * t + m * e
    BY <1>2
  <2>2. n * t <= m * t
    BY <1>2, ProductGrows
  <2>3. 1 * e <= m * e
    BY ProductGrows
  <2> QED
    BY <1>1, <2>1, <2>2, <2>3
<1>3. CASE u = t + e /\ ~(n <= m)
  <2>1. m * e <= t /\ m + 1 <= n
    BY <1>3
  <2>2. (m + 1) * t <= n * t
    BY <2>1, ProductGrows
  <2>3. m * u = m * t + m * e /\ (m + 1) * t = m * t + t
    BY <1>3
  <2> QED
    BY <1>1, <2>1, <2>2, <2>3
<1>4. CASE u <= e /\ ~steady
  <2>1. m * e <= t
    BY <1>4
  <2>2. m * u <= m * e
    BY <1>4, ProductGrows
  <2>3. 1 * t <= n * t
    BY ProductGrows
  <2> QED
    BY <1>1, <2>1, <2>2, <2>3
<1> QED
  BY <1>2, <1>3, <1>4

\* The files of a process that count on a device.
FilesOn(pid, bdf) == {f \in Deduped(Parsed(pid)) : f.bdf = bdf}

\* What a sample reports of a process that was sampled before.
LEMMA UseIsReal ==
  ASSUME DrmInv, collection # None,
         NEW id, NEW bdf, NEW k, k = <<id, bdf>>, k \in DOMAIN sampled, Identity(id.pid) = id,
         OpenOn(id.pid, bdf) # {}, CountedOnce(id.pid, bdf),
         NEW e, e = merge_engine(FilesOn(id.pid, bdf)),
         NEW clients, clients = Cardinality(FilesOn(id.pid, bdf)),
         NEW done, done = work[<<id.pid, bdf>>] - sampled[k].work,
         NEW passed,
         passed = (IF driver[bdf] = "busy_ns" THEN collection.at ELSE now) - sampled[k].at,
         NEW use, use = engine_utilization(counters[k], e, collection.at), use # None
  PROVE  /\ \/ driver[bdf] = "busy_ns" \/ sampled[k].steady
            \/ clients * passed <= sampled[k].cycles
            => use.part * passed <= done * use.whole
         /\ driver[bdf] = "busy_ns" /\ sampled[k].steady => use = [part |-> done, whole |-> passed]
<1> DEFINE s == sampled[k]
           b == counters[k]
           l == Load(id.pid, bdf)
           w == work[<<id.pid, bdf>>]
<1>1. /\ DrmTyped /\ SampleTyped(k, b, s) /\ SampleCounts(k, b, s) /\ SampleTotals(k, b, s)
      /\ k[1] = id /\ k[2] = bdf
  BY DEF DrmInv, SamplesInv, TotalsInv
<1>2. s.work \in Nat /\ s.at \in Nat /\ s.at <= now /\ w \in Nat /\ l \in Nat
  BY <1>1, LoadIsNat DEF SampleTyped, IsIdentity, DrmTyped
<1>3. l + s.work <= w + Base(k, b) /\ (s.steady => l + s.work = w + Base(k, b))
  BY <1>1 DEF SampleCounts
<1>4. /\ driver[bdf] = "busy_ns" => e.busy_ns = l
      /\ driver[bdf] # "busy_ns" =>
           e.busy_ns = None /\ e.cycles_busy = l /\ e.cycles_total = clients * cycles[bdf]
      /\ clients = Cardinality(OpenOn(id.pid, bdf)) /\ clients \in Nat /\ clients >= 1
  BY <1>1, MergeIs DEF FilesOn
<1>5. collection.at \in Nat /\ now \in Nat /\ now <= MaxNow
  BY <1>1 DEF DrmInv, CollectionInv, DrmTyped
<1>6. l # None
  BY <1>2, DrmAssumption
<1>7. ASSUME driver[bdf] = "busy_ns"
      PROVE  /\ use.part * passed <= done * use.whole
             /\ s.steady => use = [part |-> done, whole |-> passed]
  <2>1. /\ b.busy_ns \in Nat /\ s.at = b.sampled_at /\ Base(k, b) = b.busy_ns
        /\ b.sampled_at <= collection.at
    BY <1>1, <1>7 DEF SampleTyped, Base
  <2>2. b.busy_ns # None /\ e.busy_ns = l
    BY <1>4, <1>7, <2>1, DrmAssumption
  <2>3. use = utilization_ns(l, b.busy_ns, collection.at - b.sampled_at)
    BY <1>6, <2>2 DEF engine_utilization
  <2>4. b.busy_ns <= l /\ use = [part |-> l - b.busy_ns, whole |-> collection.at - b.sampled_at]
    BY <1>2, <2>1, <2>3 DEF utilization_ns
  <2>5. passed = collection.at - b.sampled_at /\ done = w - s.work
    BY <1>7, <2>1
  <2> DEFINE x == b.busy_ns
             y == collection.at - b.sampled_at
  <2>6. x \in Nat /\ y \in Nat /\ use.part = l - x /\ use.whole = y /\ passed = y
        /\ x <= l /\ l + s.work <= w + x /\ (s.steady => l + s.work = w + x)
    <3>1. b.sampled_at \in Nat
      BY <1>1 DEF SampleTyped
    <3>2. x \in Nat /\ y \in Nat /\ passed = y
      BY <1>5, <2>1, <2>5, <3>1
    <3>3. use.part = l - x /\ use.whole = y
      BY <2>4
    <3>4. x <= l /\ l + s.work <= w + x /\ (s.steady => l + s.work = w + x)
      BY <1>3, <2>1, <2>4
    <3> QED
      BY <3>2, <3>3, <3>4
  <2> HIDE DEF x, y, s, l, w
  <2>7. l - x \in Nat /\ done \in Nat /\ l - x <= done /\ (s.steady => l - x = done)
    BY <1>2, <2>5, <2>6 DEF s
  <2>8. use.part * passed <= done * use.whole
    BY <2>6, <2>7, SmallerShare
  <2>9. s.steady => use = [part |-> done, whole |-> passed]
    BY <2>4, <2>6, <2>7 DEF x, y
  <2> QED
    BY <2>8, <2>9
<1>8. ASSUME driver[bdf] # "busy_ns", s.steady \/ clients * passed <= s.cycles
      PROVE  use.part * passed <= done * use.whole
  <2>1. b.busy_ns = None /\ b.cycles_busy \in Nat /\ Base(k, b) = b.cycles_busy /\ s.cycles \in Nat
    BY <1>1, <1>8 DEF SampleTyped, Base
  <2>2. PICK n \in Nat : /\ n >= 1 /\ b.cycles_total = n * s.cycles
                         /\ s.steady => n <= clients
    BY <1>1, <1>4, <1>8 DEF SampleTotals, Unbroken
  <2>3. e.busy_ns = None /\ e.cycles_busy = l /\ e.cycles_total = clients * cycles[bdf]
    BY <1>4, <1>8
  <2>4. /\ cycles[bdf] \in Nat /\ s.steady \in BOOLEAN
        /\ cycles[bdf] = s.cycles + (now - s.at) \/ (cycles[bdf] <= now - s.at /\ ~s.steady)
    BY <1>1, <1>8 DEF SampleTotals, SampleTyped, DrmTyped
  <2>5. b.cycles_busy # None
    BY <2>1, DrmAssumption
  <2>6. use = utilization_cycles(l, b.cycles_busy, e.cycles_total, b.cycles_total)
    BY <1>6, <2>3, <2>5 DEF engine_utilization
  <2> DEFINE x == b.cycles_busy
             p == n * s.cycles
             q == clients * cycles[bdf]
  <2>7. ~(l < x) /\ ~(q <= p) /\ use = [part |-> l - x, whole |-> q - p]
    BY <2>2, <2>3, <2>6 DEF utilization_cycles
  <2>8. p \in Int /\ q \in Int
    BY <1>4, <2>1, <2>2, <2>4
  <2>10. passed = now - s.at /\ done = w - s.work /\ x \in Nat /\ l + s.work <= w + x
    BY <1>3, <1>8, <2>1
  <2>9. passed <= q - p
    <3>1. passed \in Nat
      BY <1>2, <1>5, <2>10
    <3>2. cycles[bdf] = s.cycles + passed \/ (cycles[bdf] <= passed /\ ~s.steady)
      BY <2>4, <2>10
    <3>3. p < q
      BY <2>7, <2>8
    <3>4. clients \in Nat /\ clients >= 1 /\ n \in Nat /\ n >= 1 /\ s.cycles \in Nat
          /\ cycles[bdf] \in Nat /\ s.steady \in BOOLEAN /\ (s.steady => n <= clients)
      BY <1>4, <2>1, <2>2, <2>4
    <3>5. s.steady \/ clients * passed <= s.cycles
      BY <1>8
    <3> HIDE DEF s
    <3> QED
      BY <3>1, <3>2, <3>3, <3>4, <3>5, CyclesPass
  <2> HIDE DEF x, p, q, s, l, w
  <2>11. l - x \in Nat /\ done \in Nat /\ l - x <= done /\ passed \in Nat /\ q - p \in Nat
         /\ passed <= q - p
    BY <1>2, <1>5, <2>7, <2>8, <2>9, <2>10
  <2>12. use.part = l - x /\ use.whole = q - p
    BY <2>7
  <2> QED
    BY <2>11, <2>12, SmallerShare
<1> QED
  BY <1>7, <1>8

\* The devices that a process uses.
UsedBy(pid) == {f.bdf : f \in Deduped(Parsed(pid))}

LEMMA UsedIs ==
  ASSUME DrmTyped, NEW pid, NEW bdf \in UsedBy(pid)
  PROVE  bdf \in Devices /\ OpenOn(pid, bdf) # {}
<1>1. PICK f \in Deduped(Parsed(pid)) : bdf = f.bdf
  BY DEF UsedBy
<1>2. f \in Parsed(pid)
  BY <1>1 DEF Deduped
<1>3. PICK c \in OpenClients(pid) : \E fd \in fds[c] : f = parse_fdinfo(fd, c)
  BY <1>2, ParsedIs
<1>4. c \in Clients
  BY DEF OpenClients
<1>5. bdf = bdf_of[c]
  BY <1>1, <1>3, ParseReads
<1> QED
  BY <1>4, <1>5, DeviceOf DEF OpenOn

MergeOn(pid, bdf) == merge_engine(FilesOn(pid, bdf))

PreviousOf(id, bdf) == IF <<id, bdf>> \in DOMAIN counters THEN counters[<<id, bdf>>] ELSE None

SampleIs(result, id, at) ==
  /\ DOMAIN result.engines = UsedBy(id.pid)
  /\ \A bdf \in UsedBy(id.pid) :
       result.engines[bdf]
         = engine_utilization(PreviousOf(id, bdf), MergeOn(id.pid, bdf), at)
  /\ \A bdf \in UsedBy(id.pid) :
       result.client_count[bdf] = Cardinality(FilesOn(id.pid, bdf))
  /\ result.baselines =
       [k \in {id} \X UsedBy(id.pid) |->
          [busy_ns |-> MergeOn(id.pid, k[2]).busy_ns,
           cycles_busy |-> MergeOn(id.pid, k[2]).cycles_busy,
           cycles_total |-> MergeOn(id.pid, k[2]).cycles_total, sampled_at |-> at]]

LEMMA SampleResult ==
  ASSUME NEW id, NEW at
  PROVE  SampleIs(sample_process_gpus(id, at), id, at)
BY DEF sample_process_gpus, UsedBy, FilesOn, MergeOn, PreviousOf, SampleIs

\* A new baseline agrees with what is true when it is taken.
LEMMA NewBaseline ==
  ASSUME DrmTyped, CollectionInv, collection # None, NEW k, IsIdentity(k[1]),
         k[2] \in UsedBy(k[1].pid), CountedOnce(k[1].pid, k[2]),
         NEW b, LET e == MergeOn(k[1].pid, k[2])
                IN  b = [busy_ns |-> e.busy_ns, cycles_busy |-> e.cycles_busy,
                         cycles_total |-> e.cycles_total, sampled_at |-> collection.at],
         NEW s, s = [work |-> work[<<k[1].pid, k[2]>>],
                     at |-> IF driver[k[2]] = "busy_ns" THEN collection.at ELSE now,
                     cycles |-> cycles[k[2]], steady |-> TRUE]
  PROVE  SampleTyped(k, b, s) /\ SampleCounts(k, b, s) /\ SampleTotals(k, b, s)
<1> DEFINE e == MergeOn(k[1].pid, k[2])
           l == Load(k[1].pid, k[2])
<1>1. k[2] \in Devices /\ OpenOn(k[1].pid, k[2]) # {}
  BY UsedIs
<1>2. /\ driver[k[2]] = "busy_ns" => e.busy_ns = l
      /\ driver[k[2]] # "busy_ns" =>
           /\ e.busy_ns = None /\ e.cycles_busy = l
           /\ e.cycles_total = Cardinality(OpenOn(k[1].pid, k[2])) * cycles[k[2]]
      /\ Cardinality(OpenOn(k[1].pid, k[2])) \in Nat /\ Cardinality(OpenOn(k[1].pid, k[2])) >= 1
  BY <1>1, MergeIs DEF MergeOn, FilesOn
<1>3. l \in Nat /\ work[<<k[1].pid, k[2]>>] \in Nat /\ cycles[k[2]] \in Nat
  BY <1>1, LoadIsNat DEF DrmTyped, IsIdentity
<1>4. collection.at \in Nat /\ collection.at <= now /\ now \in Nat
  BY DEF CollectionInv, DrmTyped
<1> HIDE DEF e, l
<1>5. /\ b.busy_ns = e.busy_ns /\ b.cycles_busy = e.cycles_busy
      /\ b.cycles_total = e.cycles_total /\ b.sampled_at = collection.at
  BY DEF e
<1>6. /\ s.work = work[<<k[1].pid, k[2]>>] /\ s.steady = TRUE
      /\ s.at = IF driver[k[2]] = "busy_ns" THEN collection.at ELSE now
      /\ s.cycles = cycles[k[2]]
  OBVIOUS
<1>7. SampleTyped(k, b, s)
  <2>1. s = [work |-> s.work, at |-> s.at, cycles |-> s.cycles, steady |-> s.steady]
    OBVIOUS
  <2>2. s.steady \in BOOLEAN
    BY <1>6, Zenon
  <2>3. s.work \in Nat /\ s.at \in Nat /\ s.at <= now
    BY <1>3, <1>4, <1>6
  <2>4. b.sampled_at \in Nat /\ b.sampled_at <= now /\ b.sampled_at <= collection.at
    BY <1>4, <1>5
  <2>5. ASSUME driver[k[2]] = "busy_ns"
        PROVE  b.busy_ns \in Nat /\ s.at = b.sampled_at
    BY <1>2, <1>3, <1>5, <1>6, <2>5
  <2>6. ASSUME driver[k[2]] # "busy_ns"
        PROVE  b.busy_ns = None /\ b.cycles_busy \in Nat /\ s.cycles \in Nat
    BY <1>2, <1>3, <1>5, <1>6, <2>6
  <2> QED
    BY <1>1, <2>1, <2>2, <2>3, <2>4, <2>5, <2>6 DEF SampleTyped
<1>8. Base(k, b) = l
  BY <1>2, <1>5 DEF Base
<1>9. SampleCounts(k, b, s)
  <2>1. l + s.work = work[<<k[1].pid, k[2]>>] + Base(k, b)
    BY <1>3, <1>6, <1>8
  <2>2. l + s.work <= work[<<k[1].pid, k[2]>>] + Base(k, b)
    BY <1>3, <1>6, <1>8
  <2> QED
    BY <2>1, <2>2 DEF SampleCounts, l
<1>10. SampleTotals(k, b, s)
  <2>1. ClientsOf(k[1].pid, k[2]) # {}
    BY <1>1 DEF ClientsOf, OpenOn, OpenClients
  <2>2. ASSUME driver[k[2]] # "busy_ns"
        PROVE  /\ cycles[k[2]] = s.cycles + (now - s.at)
               /\ \E n \in Nat : /\ n >= 1 /\ b.cycles_total = n * s.cycles
                                 /\ n <= Cardinality(OpenOn(k[1].pid, k[2]))
    <3>1. cycles[k[2]] = s.cycles + (now - s.at)
      BY <1>3, <1>4, <1>6, <2>2
    <3> DEFINE n == Cardinality(OpenOn(k[1].pid, k[2]))
    <3>2. n \in Nat /\ n >= 1 /\ b.cycles_total = n * s.cycles /\ n <= n
      BY <1>2, <1>5, <1>6, <2>2
    <3> QED
      BY <3>1, <3>2
  <2> QED
    BY <2>1, <2>2 DEF SampleTotals
<1> QED
  BY <1>7, <1>9, <1>10

\* The step that samples one process.
LEMMA DrmSample ==
  ASSUME DrmInv, SampleProcess
  PROVE  DrmInv'
<1>1. /\ collection # None
      /\ UNCHANGED <<now, driver, runs, fds, busy, cycles, work>>
  BY DEF SampleProcess
<1> DEFINE result(id) == sample_process_gpus(id, collection.at)
           clock(k) == IF driver[k[2]] = "busy_ns" THEN collection.at ELSE now
           true(id, k) ==
             IF k \notin DOMAIN sampled \/ ~CountedOnce(id.pid, k[2]) \/ Identity(id.pid) # id
             THEN None
             ELSE [work |-> work[<<id.pid, k[2]>>] - sampled[k].work,
                   time |-> clock(k) - sampled[k].at,
                   cycles |-> sampled[k].cycles, steady |-> sampled[k].steady]
           report(id) == [bdf \in DOMAIN result(id).engines |->
                            [utilization |-> result(id).engines[bdf],
                             client_count |-> result(id).client_count[bdf],
                             truth |-> true(id, <<id, bdf>>)]]
           fresh(id) == [k \in {l \in DOMAIN result(id).baselines : CountedOnce(id.pid, l[2])} |->
                           [work |-> work[<<id.pid, k[2]>>], at |-> clock(k),
                            cycles |-> cycles[k[2]], steady |-> TRUE]]
           kept(id) == Restrict(sampled, DOMAIN sampled \ DOMAIN result(id).baselines)
<1>2. PICK id \in collection.todo :
        /\ gpus' = Extended(gpus, [i \in {id} |-> report(id)])
        /\ counters' = Extended(counters, result(id).baselines)
        /\ sampled' = Extended(kept(id), fresh(id))
        /\ collection' = [collection EXCEPT !.todo = @ \ {id}]
  BY DEF SampleProcess
<1>3. DrmTyped /\ DrmTyped' /\ CollectionInv
  BY <1>1 DEF DrmInv, DrmTyped
<1>4. CollectionInv' /\ collection'.at = collection.at
  BY <1>1, <1>2, DoneWith
<1>5. IsIdentity(id)
  BY <1>1, <1>3 DEF CollectionInv
<1> DEFINE r == result(id)
           old == fresh(id)
           rep == report(id)
           keys == {id} \X UsedBy(id.pid)
           once == {k \in keys : CountedOnce(id.pid, k[2])}
<1>6. /\ DOMAIN r.engines = UsedBy(id.pid)
      /\ \A bdf \in UsedBy(id.pid) :
           r.engines[bdf] = engine_utilization(PreviousOf(id, bdf), MergeOn(id.pid, bdf),
                                               collection.at)
      /\ r.baselines =
           [k \in keys |->
              [busy_ns |-> MergeOn(id.pid, k[2]).busy_ns,
               cycles_busy |-> MergeOn(id.pid, k[2]).cycles_busy,
               cycles_total |-> MergeOn(id.pid, k[2]).cycles_total,
               sampled_at |-> collection.at]]
      /\ \A bdf \in UsedBy(id.pid) :
           r.client_count[bdf] = Cardinality(FilesOn(id.pid, bdf))
  <2>1. SampleIs(r, id, collection.at)
    BY SampleResult
  <2> HIDE DEF r
  <2> QED
    BY <2>1 DEF SampleIs
<1>7. /\ DOMAIN rep = DOMAIN r.engines
      /\ \A bdf \in DOMAIN r.engines :
           /\ rep[bdf].utilization = r.engines[bdf] /\ rep[bdf].truth = true(id, <<id, bdf>>)
           /\ rep[bdf].client_count = r.client_count[bdf]
      /\ old = [k \in {l \in DOMAIN r.baselines : CountedOnce(id.pid, l[2])} |->
                  [work |-> work[<<id.pid, k[2]>>],
                   at |-> IF driver[k[2]] = "busy_ns" THEN collection.at ELSE now,
                   cycles |-> cycles[k[2]], steady |-> TRUE]]
  <2> HIDE DEF result, true
  <2> QED
    OBVIOUS
<1>8. /\ gpus' = Extended(gpus, [i \in {id} |-> rep])
       /\ counters' = Extended(counters, r.baselines)
       /\ sampled' = Extended(Restrict(sampled, DOMAIN sampled \ DOMAIN r.baselines), old)
  BY <1>2
<1> HIDE DEF result, r, old, rep, report, fresh, kept
<1>9. DOMAIN r.baselines = keys /\ DOMAIN old = once
  BY <1>6, <1>7
<1>10. /\ DOMAIN counters' = keys \union DOMAIN counters
       /\ \A k \in DOMAIN counters' : counters'[k] = IF k \in keys THEN r.baselines[k] ELSE counters[k]
  BY <1>8, <1>9 DEF Extended
<1>12. /\ DOMAIN sampled' = once \union (DOMAIN sampled \ keys)
       /\ \A k \in DOMAIN sampled' : sampled'[k] = IF k \in keys THEN old[k] ELSE sampled[k]
  <2> DEFINE rest == Restrict(sampled, DOMAIN sampled \ DOMAIN r.baselines)
  <2>1. DOMAIN rest = DOMAIN sampled \ keys /\ \A k \in DOMAIN rest : rest[k] = sampled[k]
    BY <1>9 DEF Restrict
  <2>2. once \subseteq keys
    OBVIOUS
  <2>3. sampled' = [k \in DOMAIN rest \union DOMAIN old |-> IF k \in DOMAIN old THEN old[k] ELSE rest[k]]
    BY <1>8 DEF Extended
  <2> HIDE DEF rest, keys, once
  <2> QED
    BY <1>9, <2>1, <2>2, <2>3
<1>13. DOMAIN sampled' \subseteq DOMAIN counters'
  BY <1>10, <1>12 DEF DrmInv, SamplesInv
<1>14. ASSUME NEW k \in once
       PROVE  /\ SampleTyped(k, counters'[k], sampled'[k])
              /\ SampleCounts(k, counters'[k], sampled'[k])
              /\ SampleTotals(k, counters'[k], sampled'[k])
  <2>1. k[1] = id /\ k[2] \in UsedBy(k[1].pid) /\ CountedOnce(k[1].pid, k[2]) /\ k \in keys
    OBVIOUS
  <2>2. counters'[k] = r.baselines[k] /\ sampled'[k] = old[k]
    BY <1>10, <1>12, <1>13, <2>1
  <2>3. r.baselines[k] = [busy_ns |-> MergeOn(k[1].pid, k[2]).busy_ns,
                          cycles_busy |-> MergeOn(k[1].pid, k[2]).cycles_busy,
                          cycles_total |-> MergeOn(k[1].pid, k[2]).cycles_total,
                          sampled_at |-> collection.at]
    BY <1>6, <2>1
  <2>4. old[k] = [work |-> work[<<k[1].pid, k[2]>>],
                  at |-> IF driver[k[2]] = "busy_ns" THEN collection.at ELSE now,
                  cycles |-> cycles[k[2]], steady |-> TRUE]
    BY <1>7, <1>9, <2>1
  <2> HIDE DEF keys, once
  <2> QED
    BY <1>1, <1>3, <1>5, <2>1, <2>2, <2>3, <2>4, NewBaseline
<1>15. ASSUME NEW k \in DOMAIN sampled', k \notin once
       PROVE  k \in DOMAIN sampled /\ counters'[k] = counters[k] /\ sampled'[k] = sampled[k]
  BY <1>10, <1>12, <1>13, <1>15
<1>16. SamplesInv'
  <2>1. ASSUME NEW k \in DOMAIN sampled', SampleTyped(k, counters'[k], sampled'[k]),
               SampleCounts(k, counters'[k], sampled'[k])
        PROVE  SampleTyped(k, counters[k], sampled[k])' /\ SampleCounts(k, counters[k], sampled[k])'
    <3>1. IsIdentity(k[1])' = IsIdentity(k[1])
      BY <1>1 DEF IsIdentity
    <3>2. Load(k[1].pid, k[2])' = Load(k[1].pid, k[2])
      BY <1>1, <1>3, LoadKept
    <3>3. SampleTyped(k, counters[k], sampled[k])'
      BY <1>1, <1>4, <2>1, <3>1 DEF SampleTyped
    <3>4. SampleCounts(k, counters[k], sampled[k])'
      BY <1>1, <2>1, <3>2 DEF SampleCounts, Identity, Base
    <3> QED
      BY <3>3, <3>4
  <2>2. ASSUME NEW k \in DOMAIN sampled'
        PROVE  SampleTyped(k, counters'[k], sampled'[k]) /\ SampleCounts(k, counters'[k], sampled'[k])
    <3> HIDE DEF once
    <3> QED
      BY <1>14, <1>15 DEF DrmInv, SamplesInv
  <2> QED
    BY <1>13, <2>1, <2>2 DEF SamplesInv
<1>17. TotalsInv'
  <2> SUFFICES ASSUME NEW k \in DOMAIN sampled'
               PROVE  SampleTotals(k, counters[k], sampled[k])'
    BY DEF TotalsInv
  <2>1. SampleTotals(k, counters'[k], sampled'[k])
    <3> HIDE DEF once
    <3> QED
      BY <1>14, <1>15 DEF DrmInv, TotalsInv
  <2>2. /\ ClientsOf(k[1].pid, k[2])' = ClientsOf(k[1].pid, k[2])
        /\ Identity(k[1].pid)' = Identity(k[1].pid)
        /\ OpenOn(k[1].pid, k[2])' = OpenOn(k[1].pid, k[2])
    BY <1>1 DEF ClientsOf, Identity, OpenOn, OpenClients
  <2> QED
    BY <1>1, <2>1, <2>2 DEF SampleTotals, Unbroken
<1>11. UtilizationIsReal'
  <2>1. /\ DOMAIN gpus' = {id} \union DOMAIN gpus
        /\ \A i \in DOMAIN gpus' : gpus'[i] = IF i = id THEN rep ELSE gpus[i]
    BY <1>8 DEF Extended
  <2>2. ASSUME NEW i \in DOMAIN gpus', NEW bdf \in DOMAIN gpus'[i],
               gpus'[i][bdf].utilization # None, gpus'[i][bdf].truth # None
        PROVE  LET use == gpus'[i][bdf].utilization
                   clients == gpus'[i][bdf].client_count
                   truth == gpus'[i][bdf].truth
               IN  /\ \/ driver[bdf] = "busy_ns" \/ truth.steady
                      \/ clients * truth.time <= truth.cycles
                      => use.part * truth.time <= truth.work * use.whole
                   /\ driver[bdf] = "busy_ns" /\ truth.steady =>
                        use = [part |-> truth.work, whole |-> truth.time]
    <3>1. CASE i # id
      <4>1. i \in DOMAIN gpus /\ gpus'[i] = gpus[i]
        BY <2>1, <3>1
      <4> QED
        BY <2>2, <4>1 DEF DrmInv, UtilizationIsReal
    <3>2. CASE i = id
      <4> DEFINE k == <<id, bdf>>
                 use == r.engines[bdf]
                 done == work[<<id.pid, bdf>>] - sampled[k].work
                 passed == (IF driver[bdf] = "busy_ns" THEN collection.at ELSE now) - sampled[k].at
      <4>1. bdf \in UsedBy(id.pid)
        BY <1>6, <1>7, <2>1, <3>2
      <4>2. /\ gpus'[i][bdf].utilization = use /\ gpus'[i][bdf].truth = true(id, k)
            /\ gpus'[i][bdf].client_count = r.client_count[bdf]
        BY <1>6, <1>7, <2>1, <3>2, <4>1
      <4>3. k \in DOMAIN sampled /\ Identity(id.pid) = id /\ CountedOnce(id.pid, bdf)
        BY <2>2, <4>2
      <4>4. true(id, k) = [work |-> done, time |-> passed, cycles |-> sampled[k].cycles,
                           steady |-> sampled[k].steady]
        BY <4>3
      <4>16. r.client_count[bdf] = Cardinality(FilesOn(id.pid, bdf))
        BY <1>6, <4>1
      <4>5. use = engine_utilization(counters[k], MergeOn(id.pid, bdf), collection.at)
        BY <1>6, <4>1, <4>3 DEF PreviousOf, DrmInv, SamplesInv
      <4>6. OpenOn(id.pid, bdf) # {}
        BY <1>3, <4>1, UsedIs
      <4> HIDE DEF use, done, passed, true
      <4>7. k \in DOMAIN sampled
        BY <4>3
      <4>8. MergeOn(id.pid, bdf) = merge_engine(FilesOn(id.pid, bdf))
        BY DEF MergeOn
      <4>9. done = work[<<id.pid, bdf>>] - sampled[k].work
        BY DEF done
      <4>10. passed = (IF driver[bdf] = "busy_ns" THEN collection.at ELSE now) - sampled[k].at
        BY DEF passed
      <4>11. use # None
        BY <2>2, <4>2
      <4>12. k = <<id, bdf>>
        OBVIOUS
      <4> HIDE DEF k
      <4> DEFINE clients == r.client_count[bdf]
      <4>17. clients = Cardinality(FilesOn(id.pid, bdf))
        BY <4>16
      <4> HIDE DEF clients
      <4>13. /\ \/ driver[bdf] = "busy_ns" \/ sampled[k].steady
                \/ clients * passed <= sampled[k].cycles
                => use.part * passed <= done * use.whole
             /\ driver[bdf] = "busy_ns" /\ sampled[k].steady =>
                  use = [part |-> done, whole |-> passed]
        BY <1>1, <4>3, <4>5, <4>6, <4>8, <4>9, <4>10, <4>11, <4>12, <4>17, UseIsReal
      <4> DEFINE truth == gpus'[i][bdf].truth
      <4>14a. truth = [work |-> done, time |-> passed, cycles |-> sampled[k].cycles,
                       steady |-> sampled[k].steady]
        BY <4>2, <4>4
      <4> HIDE DEF truth
      <4>14. /\ truth.time = passed /\ truth.work = done /\ truth.steady = sampled[k].steady
             /\ truth.cycles = sampled[k].cycles
        BY <4>14a
      <4>15. /\ \/ driver[bdf] = "busy_ns" \/ truth.steady
                \/ clients * truth.time <= truth.cycles
                => use.part * truth.time <= truth.work * use.whole
             /\ driver[bdf] = "busy_ns" /\ truth.steady =>
                  use = [part |-> truth.work, whole |-> truth.time]
        BY <4>13, <4>14
      <4> QED
        BY <4>2, <4>15 DEF truth, clients
    <3> QED
      BY <3>1, <3>2
  <2>3. driver' = driver
    BY <1>1
  <2> QED
    BY <2>2, <2>3 DEF UtilizationIsReal
<1> QED
  BY <1>3, <1>4, <1>11, <1>16, <1>17 DEF DrmInv

LEMMA DrmStep ==
  ASSUME DrmInv, [DrmNext]_drmVars
  PROVE  DrmInv'
<1>1. CASE DrmNext
  BY <1>1, DrmTick, DrmOpenFd, DrmCloseFd, DrmWork, DrmResetDevice, DrmReplace, DrmBegin,
     DrmSample, DrmSkip, DrmEnd DEF DrmNext
<1>2. CASE UNCHANGED drmVars
  <2>1. DrmTyped' /\ DrmTyped /\ now <= now'
    BY <1>2 DEF DrmInv, DrmTyped, drmVars
  <2>2. SamplesInv'
    BY <1>2, <2>1, SamplesKept DEF DrmInv, drmVars
  <2>3. \A pid \in GpuPids : runs[pid] <= runs'[pid]
    BY <1>2, <2>1 DEF DrmTyped, drmVars
  <2>4. TotalsInv'
    BY <1>2, <2>1, ClockAtRest, TotalsKept DEF DrmInv, drmVars
  <2> QED
    BY <1>2, <2>1, <2>2, <2>3, <2>4, AtRestInv DEF drmVars
<1> QED
  BY <1>1, <1>2

\* A utilisation is never higher than the work that the process has really done on the
\* device since its last sample, whatever is opened, duplicated, closed, reset, skipped
\* or replaced in between (Deduped, engine_utilization, DrmSamplerState::retain): for
\* any number of processes, clients and devices, clients that name no id among them and
\* engines of any age.  The property says of which samples it speaks.
THEOREM UtilizationSafe == DrmSpec => []UtilizationIsReal
<1>1. DrmInit => DrmInv
  BY DrmInitially
<1>2. DrmInv /\ [DrmNext]_drmVars => DrmInv'
  BY DrmStep
<1>3. DrmInv => UtilizationIsReal
  BY DEF DrmInv
<1> QED
  BY <1>1, <1>2, <1>3, PTL DEF DrmSpec

-----------------------------------------------------------------------------
(* The GPU panel: which GPU is read and which ones the server uses.        *)

GpuSpec == GpuInit /\ [][GpuNext]_gpuVars

\* The order of the addresses of a machine.
OrderOf(cards) == [g \in cards |-> g.order]

MachineOk == machine \in Machines

LEMMA OrderedCards ==
  ASSUME NEW cards \in Machines, NEW S \in SUBSET cards
  PROVE  /\ DOMAIN InBusOrder(S) = 1 .. Cardinality(S) /\ Cardinality(S) \in Nat
         /\ \A i \in DOMAIN InBusOrder(S) : InBusOrder(S)[i] \in S
<1> DEFINE o == OrderOf(S)
<1>1. Counted(S, o)
  BY MachinesAssumption, FS_Subset DEF Counted, OrderOf
<1>2. /\ Cardinality(S) \in Nat
      /\ \A n \in 0 .. (Cardinality(S) - 1) : \E x \in S : PlaceIn(S, o, x) = n
  BY <1>1, Ranked
<1>3. ASSUME NEW x \in S PROVE PlaceIn(S, o, x) = Cardinality({y \in S : y.order < x.order})
  <2>1. {y \in S : o[y] < o[x]} = {y \in S : y.order < x.order}
    BY DEF OrderOf
  <2> QED
    BY <2>1 DEF PlaceIn
<1>4. ASSUME NEW i \in 1 .. Cardinality(S)
      PROVE  (CHOOSE x \in S : Cardinality({y \in S : y.order < x.order}) = i - 1) \in S
  <2>1. i - 1 \in 0 .. (Cardinality(S) - 1)
    BY <1>2
  <2>2. \E x \in S : Cardinality({y \in S : y.order < x.order}) = i - 1
    BY <1>2, <1>3, <2>1
  <2> QED
    BY <2>2
<1>5. InBusOrder(S) = [i \in 1 .. Cardinality(S) |->
              CHOOSE x \in S : Cardinality({y \in S : y.order < x.order}) = i - 1]
  BY DEF Ordered, InBusOrder
<1> QED
  BY <1>2, <1>4, <1>5

LEMMA OrderedIsOnto ==
  ASSUME NEW cards \in Machines, NEW S \in SUBSET cards, NEW g \in S
  PROVE  \E i \in DOMAIN InBusOrder(S) : InBusOrder(S)[i] = g
<1> DEFINE o == OrderOf(S)
<1>1. Counted(S, o)
  BY MachinesAssumption, FS_Subset DEF Counted, OrderOf
<1>2. \A x \in S : {y \in S : o[y] < o[x]} = {y \in S : y.order < x.order}
  BY DEF OrderOf
<1> HIDE DEF o
<1>3. /\ Cardinality(S) \in Nat
      /\ \A x \in S : PlaceIn(S, o, x) \in 0 .. (Cardinality(S) - 1)
      /\ \A x, y \in S : PlaceIn(S, o, x) = PlaceIn(S, o, y) => x = y
  BY <1>1, Ranked
<1>4. \A x \in S : PlaceIn(S, o, x) = Cardinality({y \in S : y.order < x.order})
  BY <1>2 DEF PlaceIn
<1> DEFINE i == PlaceIn(S, o, g) + 1
<1>5. i \in 1 .. Cardinality(S) /\ i - 1 = PlaceIn(S, o, g)
  BY <1>3
<1> HIDE DEF i
<1>6. (CHOOSE x \in S : Cardinality({y \in S : y.order < x.order}) = i - 1) = g
  BY <1>3, <1>4, <1>5
<1>7. InBusOrder(S) = [j \in 1 .. Cardinality(S) |->
                        CHOOSE x \in S : Cardinality({y \in S : y.order < x.order}) = j - 1]
  BY DEF Ordered, InBusOrder
<1>8. i \in DOMAIN InBusOrder(S) /\ InBusOrder(S)[i] = g
  BY <1>5, <1>6, <1>7
<1> QED
  BY <1>8

\* A device as a source tells of it: its address, its UUID, or both.
IsPhysical(g, device) ==
  /\ device = DeviceId(device.pci_bdf, device.uuid)
  /\ device.pci_bdf \in {None, <<"bdf", g.bdf>>}
  /\ device.uuid \in {None, <<"uuid", g.uuid>>}
  /\ device.uuid # None => g.driver = "nvidia"

\* The name of a MIG device of g.
IsChildKey(g, k) ==
  /\ g.driver = "nvidia"
  /\ \/ \E i : k = <<"legacy", g.uuid, i>>
     \/ k[1] = "opaque"
     \/ \E slot : \E p \in {<<"uuid", g.uuid>>, <<"bdf", g.bdf>>, <<"bdf", "nvidia">>} :
          k = <<"synthetic", p, slot>>

IsChild(c) == \E g \in machine : /\ c.parent = g.bdf /\ c.parent_index = NvmlIndex(g)
                               /\ IsChildKey(g, c.key)

LEMMA NvmlDeviceIsPhysical ==
  ASSUME NEW knows, NEW g \in NvmlGpus
  PROVE  IsPhysical(g, NvmlDevice(g, knows))
BY DEF IsPhysical, NvmlDevice, DeviceId, NvmlGpus

LEMMA ChildrenAreChildren ==
  ASSUME MachineOk, NEW knows, NEW g \in NvmlGpus,
         NEW c \in mig_children_of(g, NvmlDevice(g, knows))
  PROVE  IsChild(c)
<1> DEFINE parent == NvmlDevice(g, knows)
<1>1. PICK slot \in DOMAIN g.children :
        c = [parent_index |-> NvmlIndex(g), parent |-> g.bdf,
             key |-> mig_child_key(g.children[slot], parent, slot)]
  BY DEF mig_children_of
<1>2. g \in machine /\ g.driver = "nvidia"
  BY DEF NvmlGpus
<1>3. \/ g.children[slot] = None \/ g.children[slot][1] = "opaque"
      \/ g.children[slot] = <<"legacy", g.uuid, g.children[slot][3]>>
  BY MachinesAssumption, <1>2 DEF MachineOk
<1>4. IsPhysical(g, parent)
  BY NvmlDeviceIsPhysical
<1> HIDE DEF parent
<1>5. IsChildKey(g, mig_child_key(g.children[slot], parent, slot))
  <2>1. CASE g.children[slot] # None
    BY <1>2, <1>3, <2>1 DEF IsChildKey, mig_child_key
  <2>2. CASE g.children[slot] = None
    <3>1. Or(Or(parent.uuid, parent.pci_bdf), <<"bdf", "nvidia">>)
            \in {<<"uuid", g.uuid>>, <<"bdf", g.bdf>>, <<"bdf", "nvidia">>}
      BY <1>4 DEF IsPhysical, Or
    <3> QED
      BY <1>2, <2>2, <3>1 DEF IsChildKey, mig_child_key
  <2> QED
    BY <2>1, <2>2
<1> QED
  BY <1>1, <1>2, <1>5 DEF IsChild

\* Two NVIDIA GPUs have different indexes.
LEMMA IndexNames ==
  ASSUME MachineOk, NEW g \in NvmlGpus, NEW h \in NvmlGpus, NvmlIndex(g) = NvmlIndex(h)
  PROVE  g = h
<1> DEFINE o == OrderOf(NvmlGpus)
<1>1. Counted(NvmlGpus, o)
  BY MachinesAssumption, FS_Subset DEF Counted, OrderOf, NvmlGpus, MachineOk
<1>2. ASSUME NEW x \in NvmlGpus PROVE PlaceIn(NvmlGpus, o, x) = NvmlIndex(x)
  <2>1. {y \in NvmlGpus : o[y] < o[x]} = {y \in NvmlGpus : y.order < x.order}
    BY DEF OrderOf
  <2> QED
    BY <2>1 DEF PlaceIn, NvmlIndex
<1> QED
  BY <1>1, <1>2, Ranked
-----------------------------------------------------------------------------
\* A provider names the GPUs of the machine, and a sample is of one of them.
ProviderOk(p) ==
  \/ p.kind = "unavailable"
  \/ /\ p.kind = "sysfs"
     /\ \E g \in machine : p.device = DeviceId(<<"bdf", g.bdf>>, None)
  \/ /\ p.kind = "nvidia" /\ DOMAIN p.devices \subseteq Nat
     /\ \A i \in DOMAIN p.devices : \E g \in machine :
          p.devices[i].bdf = g.bdf /\ IsPhysical(g, p.devices[i].device)
     /\ \A c \in p.mig_children : IsChild(c)

IsOf(g, sample) ==
  /\ sample.from = g.bdf
  /\ \/ IsPhysical(g, sample.device)
     \/ \E k : IsChildKey(g, k) /\ sample.device = DeviceId(None, k)

SampleOk(sample) == sample = NoSample \/ \E g \in machine : IsOf(g, sample)

LEMMA DisplaysAreCards ==
  ASSUME MachineOk, NEW i \in DOMAIN discover_gpus(machine)
  PROVE  LET d == discover_gpus(machine)
         IN  /\ DOMAIN d = 1 .. Cardinality({g \in machine : g.class # "other"})
             /\ Cardinality({g \in machine : g.class # "other"}) \in Nat
             /\ \E g \in machine : d[i].device_id = DeviceId(<<"bdf", g.bdf>>, None)
<1> DEFINE S == {g \in machine : g.class # "other"}
<1>1. /\ DOMAIN InBusOrder(S) = 1 .. Cardinality(S) /\ Cardinality(S) \in Nat
      /\ \A j \in DOMAIN InBusOrder(S) : InBusOrder(S)[j] \in S
  BY OrderedCards DEF MachineOk
<1>2. discover_gpus(machine) =
        [j \in DOMAIN InBusOrder(S) |->
           [device_id |-> DeviceId(<<"bdf", InBusOrder(S)[j].bdf>>, None),
            vendor |-> VendorOf(InBusOrder(S)[j]), driver |-> InBusOrder(S)[j].driver]]
  BY DEF discover_gpus
<1>3. InBusOrder(S)[i] \in machine /\ DOMAIN discover_gpus(machine) = DOMAIN InBusOrder(S)
  BY <1>1, <1>2
<1>4. discover_gpus(machine)[i].device_id = DeviceId(<<"bdf", InBusOrder(S)[i].bdf>>, None)
  BY <1>2
<1> QED
  BY <1>1, <1>3, <1>4

LEMMA DisplayIsListed ==
  ASSUME MachineOk, NEW g \in machine, g.class # "other"
  PROVE  \E i \in DOMAIN discover_gpus(machine) :
           discover_gpus(machine)[i].device_id = DeviceId(<<"bdf", g.bdf>>, None)
<1> DEFINE S == {h \in machine : h.class # "other"}
<1>1. S \subseteq machine /\ g \in S
  OBVIOUS
<1>2. discover_gpus(machine) =
        [j \in DOMAIN InBusOrder(S) |->
           [device_id |-> DeviceId(<<"bdf", InBusOrder(S)[j].bdf>>, None),
            vendor |-> VendorOf(InBusOrder(S)[j]), driver |-> InBusOrder(S)[j].driver]]
  BY DEF discover_gpus
<1> HIDE DEF S
<1>3. PICK i \in DOMAIN InBusOrder(S) : InBusOrder(S)[i] = g
  BY <1>1, OrderedIsOnto DEF MachineOk
<1>4. /\ i \in DOMAIN discover_gpus(machine)
      /\ discover_gpus(machine)[i].device_id = DeviceId(<<"bdf", g.bdf>>, None)
  BY <1>2, <1>3
<1> QED
  BY <1>4

LEMMA NthIsMember ==
  ASSUME NEW n \in Nat, NEW S \in SUBSET (1 .. n), NEW m \in Nat
  PROVE  nth(S, m) \in {0} \union S
<1> DEFINE o == [i \in S |-> i]
<1>1. Counted(S, o)
  <2>1. IsFiniteSet(1 .. n)
    BY FS_Interval, n \in Int, 1 \in Int
  <2>2. IsFiniteSet(S)
    BY <2>1, FS_Subset
  <2> QED
    BY <2>2 DEF Counted
<1>2. \A x \in S : {j \in S : o[j] < o[x]} = {j \in S : j < x}
  OBVIOUS
<1>3. CASE m < Cardinality(S)
  <2> HIDE DEF o
  <2>1. PICK x \in S : PlaceIn(S, o, x) = m
    BY <1>1, <1>3, RankIsTaken
  <2>2. Cardinality({j \in S : j < x}) = m
    BY <1>2, <2>1 DEF PlaceIn
  <2> QED
    BY <1>3, <2>2 DEF nth
<1> QED
  BY <1>3 DEF nth

LEMMA ResolvedIsListed ==
  ASSUME NEW n \in Nat, NEW listed, DOMAIN listed = 1 .. n,
         NEW selector, selector.by = "Index" => selector.index \in Nat
  PROVE  resolve_discovered(selector, listed) \in {0} \union DOMAIN listed
<1> DEFINE nvidia == {i \in DOMAIN listed : listed[i].vendor = "Nvidia"}
           choice == IF nvidia # {} THEN nvidia ELSE DOMAIN listed
           named_so == {i \in DOMAIN listed : key(listed[i].device_id) = selector.key}
<1>1. choice \in SUBSET (1 .. n) /\ named_so \in SUBSET (1 .. n)
  OBVIOUS
<1>2. ASSUME NEW S \in SUBSET (1 .. n), NEW m \in Nat
      PROVE  nth(S, m) \in {0} \union DOMAIN listed
  BY NthIsMember
<1>3. resolve_discovered(selector, listed) =
        CASE selector.by = "Auto" -> nth(choice, 0)
          [] selector.by = "Index" -> nth(choice, selector.index)
          [] selector.by = "PciBusId" -> nth(named_so, 0)
          [] OTHER -> 0
  BY DEF resolve_discovered
<1> HIDE DEF choice, named_so
<1> QED
  BY <1>1, <1>2, <1>3

LEMMA NvidiaProvider ==
  ASSUME MachineOk, NEW selector, NEW knows
  PROVE  ProviderOk(NvidiaGpuProvider(selector, knows))
<1> DEFINE p == NvidiaGpuProvider(selector, knows)
<1>1. /\ DOMAIN InBusOrder(NvmlGpus) = 1 .. Cardinality(NvmlGpus) /\ Cardinality(NvmlGpus) \in Nat
      /\ \A j \in DOMAIN InBusOrder(NvmlGpus) : InBusOrder(NvmlGpus)[j] \in NvmlGpus
  BY OrderedCards DEF MachineOk, NvmlGpus
<1>2. /\ p.kind = "nvidia" /\ p.devices = Enumeration(knows)
      /\ p.mig_children = UNION {mig_children_of(g, NvmlDevice(g, knows)) : g \in NvmlGpus}
  BY DEF NvidiaGpuProvider
<1>3. /\ DOMAIN p.devices = DOMAIN InBusOrder(NvmlGpus)
      /\ \A i \in DOMAIN p.devices :
           /\ p.devices[i].device = NvmlDevice(InBusOrder(NvmlGpus)[i], knows)
           /\ p.devices[i].bdf = InBusOrder(NvmlGpus)[i].bdf
  BY <1>2 DEF Enumeration
<1> HIDE DEF p
<1>4. ASSUME NEW c \in p.mig_children PROVE IsChild(c)
  <2>1. PICK g \in NvmlGpus : c \in mig_children_of(g, NvmlDevice(g, knows))
    BY <1>2
  <2> QED
    BY <2>1, ChildrenAreChildren
<1>5. ASSUME NEW i \in DOMAIN p.devices
      PROVE  \E g \in machine : p.devices[i].bdf = g.bdf /\ IsPhysical(g, p.devices[i].device)
  <2>1. InBusOrder(NvmlGpus)[i] \in NvmlGpus
    BY <1>1, <1>3
  <2>2. IsPhysical(InBusOrder(NvmlGpus)[i], NvmlDevice(InBusOrder(NvmlGpus)[i], knows))
    BY <2>1, NvmlDeviceIsPhysical
  <2> QED
    BY <1>3, <2>1, <2>2 DEF NvmlGpus
<1>6. DOMAIN p.devices \subseteq Nat
  BY <1>1, <1>3
<1>7. ProviderOk(p)
  BY <1>2, <1>4, <1>5, <1>6 DEF ProviderOk
<1> QED
  BY <1>7 DEF p

\* The ways a selector is written.
SelectorOk(selector) == selector.by = "Index" => selector.index \in Nat

LEMMA NewProvider ==
  ASSUME MachineOk, NEW selector, SelectorOk(selector), NEW knows
  PROVE  ProviderOk(new_gpu_provider(selector, discover_gpus(machine), knows))
<1> DEFINE listed == discover_gpus(machine)
           at == resolve_discovered(selector, listed)
<1>1. DOMAIN listed = 1 .. Cardinality({g \in machine : g.class # "other"})
  BY OrderedCards DEF MachineOk, discover_gpus
<1>2. Cardinality({g \in machine : g.class # "other"}) \in Nat
  BY OrderedCards DEF MachineOk
<1>3. at \in {0} \union DOMAIN listed
  BY <1>1, <1>2, ResolvedIsListed DEF SelectorOk
<1>4. ASSUME at \in DOMAIN listed
      PROVE  \E g \in machine : listed[at].device_id = DeviceId(<<"bdf", g.bdf>>, None)
  BY <1>4, DisplaysAreCards
<1>5. ProviderOk(NvidiaGpuProvider(selector, knows))
  BY NvidiaProvider
<1>6. ProviderOk([kind |-> "unavailable"])
  BY DEF ProviderOk
<1>7. ASSUME at \in DOMAIN listed
      PROVE  ProviderOk([kind |-> "sysfs", device |-> listed[at].device_id, index |-> at - 1])
  BY <1>4, <1>7 DEF ProviderOk
<1> QED
  BY <1>3, <1>5, <1>6, <1>7 DEF new_gpu_provider

LEMMA SamplesAreOfGpus ==
  ASSUME MachineOk, ProviderOk(provider), NEW sample \in Samples(provider)
  PROVE  SampleOk(sample)
<1>1. CASE provider.kind = "unavailable"
  BY <1>1 DEF Samples, SampleOk
<1>2. CASE provider.kind = "sysfs"
  <2>1. PICK g \in machine : provider.device = DeviceId(<<"bdf", g.bdf>>, None)
    BY <1>2 DEF ProviderOk
  <2>2. sample.device = provider.device /\ sample.from = provider.device.pci_bdf[2]
    BY <1>2 DEF Samples
  <2>3. sample.from = g.bdf /\ IsPhysical(g, sample.device)
    BY <2>1, <2>2 DEF IsPhysical, DeviceId
  <2> QED
    BY <2>3 DEF SampleOk, IsOf
<1>3. CASE provider.kind = "nvidia" /\ sample # NoSample
  <2> DEFINE children == {c \in provider.mig_children :
                            provider.selector.by = "Uuid" /\ c.key = provider.selector.key}
             physical == resolve(provider.selector, provider.devices)
  <2>1. sample = resolve_sample(provider)
    BY <1>3 DEF Samples
  <2>2. CASE children # {}
    <3>1. PICK c \in provider.mig_children :
            sample = [available |-> TRUE, device |-> DeviceId(None, c.key), from |-> c.parent]
      BY <2>1, <2>2 DEF resolve_sample
    <3>2. IsChild(c)
      BY <1>3 DEF ProviderOk
    <3>3. PICK g \in machine : c.parent = g.bdf /\ IsChildKey(g, c.key)
      BY <3>2 DEF IsChild
    <3> QED
      BY <3>1, <3>3 DEF SampleOk, IsOf
  <2>3. CASE children = {}
    <3>1. /\ physical # None
          /\ sample = [available |-> TRUE, device |-> physical.device, from |-> physical.bdf]
      BY <1>3, <2>1, <2>3 DEF resolve_sample
    <3>2. PICK i \in DOMAIN provider.devices : physical = provider.devices[i]
      <4>1. DOMAIN provider.devices \subseteq Nat
        BY <1>3 DEF ProviderOk
      <4>2. PICK matching \in SUBSET DOMAIN provider.devices :
              physical = IF matching = {} THEN None ELSE provider.devices[Min(matching)]
        BY DEF resolve
      <4>3. Min(matching) \in matching
        BY <3>1, <4>1, <4>2, MinMember
      <4> QED
        BY <3>1, <4>2, <4>3
    <3>3. PICK g \in machine : physical.bdf = g.bdf /\ IsPhysical(g, physical.device)
      BY <1>3, <3>2 DEF ProviderOk
    <3> QED
      BY <3>1, <3>3 DEF SampleOk, IsOf
  <2> QED
    BY <2>2, <2>3
<1>4. CASE sample = NoSample
  BY <1>4 DEF SampleOk
<1> QED
  BY <1>1, <1>2, <1>3, <1>4 DEF ProviderOk
-----------------------------------------------------------------------------
\* What a mapped device stands for: a use of the GPU whose instance no child is known
\* to be, or a use of the instance that a child is known to be.
Whole(g, use, device) ==
  /\ IsPhysical(g, device)
  /\ device.pci_bdf # None \/ device.uuid # None
  /\ \/ use.instance = None
     \/ ~\E c \in mig_topology : c.parent = g.bdf /\ mig_instance(c.key) = use.instance

Instance(g, use, device) ==
  /\ g.driver = "nvidia" /\ use.instance # None
  /\ device = DeviceId(None, <<"legacy", g.uuid, use.instance>>) /\ device.uuid # None

StandsFor(device) ==
  \E g \in machine, use \in usage :
    use.bdf = g.bdf /\ (Whole(g, use, device) \/ Instance(g, use, device))

TopologyOk == \A c \in mig_topology : IsChild(c)
UsageOk ==
  \A use \in usage :
    \/ use.by = "node" /\ use.instance = None
    \/ use.by = "compute" /\ \E g \in NvmlGpus : g.bdf = use.bdf

\* Every use of an NVIDIA GPU is found on it or on a child that is its own.
Found(g) ==
  \E device \in gpu_map :
    \/ key(device) = <<"bdf", g.bdf>>
    \/ device.uuid # None /\ \E i : device.uuid = <<"legacy", g.uuid, i>>

MapOk ==
  /\ \A device \in gpu_map : StandsFor(device)
  /\ named => \A g \in NvmlGpus, use \in usage : use.bdf = g.bdf => Found(g)

LEMMA RenderStandsFor ==
  ASSUME MachineOk, UsageOk, NEW device \in process_render_gpus(discover_gpus(machine))
  PROVE  StandsFor(device) /\ \E g \in machine : device = DeviceId(<<"bdf", g.bdf>>, None)
<1>1. PICK i \in DOMAIN discover_gpus(machine), use \in usage :
        /\ use.by = "node" /\ <<"bdf", use.bdf>> = discover_gpus(machine)[i].device_id.pci_bdf
        /\ device = discover_gpus(machine)[i].device_id
  BY DEF process_render_gpus
<1>2. PICK g \in machine : discover_gpus(machine)[i].device_id = DeviceId(<<"bdf", g.bdf>>, None)
  BY DisplaysAreCards
<1>3. use.bdf = g.bdf /\ use.instance = None
  BY <1>1, <1>2 DEF DeviceId, UsageOk
<1>4. <<"bdf", g.bdf>> # None
  BY MachinesAssumption DEF MachineOk
<1>5. Whole(g, use, device)
  BY <1>1, <1>2, <1>3, <1>4 DEF Whole, IsPhysical, DeviceId
<1> QED
  BY <1>1, <1>2, <1>3, <1>5 DEF StandsFor

\* The children of a GPU are those with its index.
ChildrenOf(g) == {c \in mig_topology : c.parent_index = NvmlIndex(g)}

LEMMA ChildrenOfGpu ==
  ASSUME MachineOk, TopologyOk, NEW g \in NvmlGpus, NEW c \in mig_topology
  PROVE  /\ c \in ChildrenOf(g) <=> c.parent = g.bdf
         /\ c \in ChildrenOf(g) => IsChildKey(g, c.key)
<1>1. PICK h \in machine : /\ c.parent = h.bdf /\ c.parent_index = NvmlIndex(h)
                          /\ IsChildKey(h, c.key)
  BY DEF TopologyOk, IsChild
<1>2. h \in NvmlGpus /\ g \in machine
  BY <1>1 DEF IsChildKey, NvmlGpus
<1>3. g.bdf = h.bdf => g = h
  BY <1>2, MachinesAssumption DEF MachineOk
<1>4. NvmlIndex(g) = NvmlIndex(h) => g = h
  BY <1>2, IndexNames
<1> QED
  BY <1>1, <1>3, <1>4 DEF ChildrenOf

LEMMA Attributed ==
  ASSUME MachineOk, TopologyOk, NEW g \in NvmlGpus, NEW knows, knows[g] # {},
         knows[g] \in SUBSET {"bdf", "uuid"}, NEW use \in usage, use.bdf = g.bdf
  PROVE  LET device == attribute_process_key(NvmlDevice(g, knows), ChildrenOf(g), use.instance)
         IN  \/ Whole(g, use, device) /\ device = NvmlDevice(g, knows)
             \/ Instance(g, use, device)
<1> DEFINE matching == {c \in ChildrenOf(g) : mig_instance(c.key) = use.instance}
<1>1. CASE use.instance = None \/ matching = {}
  <2>1. attribute_process_key(NvmlDevice(g, knows), ChildrenOf(g), use.instance)
          = NvmlDevice(g, knows)
    BY <1>1 DEF attribute_process_key
  <2>2. <<"bdf", g.bdf>> # None /\ <<"uuid", g.uuid>> # None
    BY MachinesAssumption DEF MachineOk, NvmlGpus
  <2>3. NvmlDevice(g, knows).pci_bdf # None \/ NvmlDevice(g, knows).uuid # None
    BY <2>2 DEF NvmlDevice, DeviceId
  <2>4. \/ use.instance = None
        \/ ~\E c \in mig_topology : c.parent = g.bdf /\ mig_instance(c.key) = use.instance
    BY <1>1, ChildrenOfGpu
  <2> QED
    BY <2>1, <2>3, <2>4, NvmlDeviceIsPhysical DEF Whole
<1>2. CASE use.instance # None /\ matching # {}
  <2> DEFINE child == CHOOSE c \in matching : TRUE
  <2>1. attribute_process_key(NvmlDevice(g, knows), ChildrenOf(g), use.instance)
          = DeviceId(None, child.key)
    BY <1>2 DEF attribute_process_key
  <2>2. child \in mig_topology /\ child \in ChildrenOf(g) /\ mig_instance(child.key) = use.instance
    BY <1>2 DEF ChildrenOf
  <2> HIDE DEF child
  <2>3. IsChildKey(g, child.key)
    BY <2>2, ChildrenOfGpu
  <2>4. child.key # None /\ child.key = <<"legacy", g.uuid, use.instance>>
    BY <1>2, <2>2, <2>3 DEF mig_instance, IsChildKey
  <2>5. Instance(g, use, DeviceId(None, child.key))
    BY <1>2, <2>4 DEF Instance, DeviceId, NvmlGpus
  <2> QED
    BY <2>1, <2>5
<1> QED
  BY <1>1, <1>2

LEMMA ComputeStandsFor ==
  ASSUME MachineOk, TopologyOk, NEW knows \in NvmlKnows, NEW device \in nvml_compute_gpus(knows)
  PROVE  StandsFor(device)
<1>1. PICK g \in NvmlGpus, use \in usage :
        /\ knows[g] # {} /\ use.bdf = g.bdf
        /\ device = attribute_process_key(NvmlDevice(g, knows), ChildrenOf(g), use.instance)
  BY DEF nvml_compute_gpus, ChildrenOf
<1>2. knows[g] \in SUBSET {"bdf", "uuid"}
  BY DEF NvmlKnows
<1>3. Whole(g, use, device) \/ Instance(g, use, device)
  BY <1>1, <1>2, Attributed
<1>4. g \in machine
  BY DEF NvmlGpus
<1> QED
  BY <1>1, <1>3, <1>4 DEF StandsFor
LEMMA AllAreFound ==
  ASSUME MachineOk, TopologyOk, UsageOk, NEW knows \in NvmlKnows, Unread(knows) = {},
         gpu_map' = combine_gpus(process_render_gpus(discover_gpus(machine)),
                                 nvml_compute_gpus(knows)),
         NEW g \in NvmlGpus, NEW use \in usage, use.bdf = g.bdf
  PROVE  \E device \in gpu_map' :
           \/ key(device) = <<"bdf", g.bdf>>
           \/ device.uuid # None /\ \E i : device.uuid = <<"legacy", g.uuid, i>>
<1> DEFINE render == process_render_gpus(discover_gpus(machine))
           nvml == nvml_compute_gpus(knows)
<1>1. g \in machine /\ g.driver = "nvidia"
  BY DEF NvmlGpus
<1>2. <<"bdf", g.bdf>> # None
  BY <1>1, MachinesAssumption DEF MachineOk
<1>3. CASE use.by = "node"
  <2>1. g \in {h \in machine : h.class # "other"}
    BY <1>1, MachinesAssumption DEF MachineOk
  <2>2. PICK i \in DOMAIN discover_gpus(machine) :
          discover_gpus(machine)[i].device_id = DeviceId(<<"bdf", g.bdf>>, None)
    BY <2>1, DisplayIsListed
  <2>3. DeviceId(<<"bdf", g.bdf>>, None) \in render
    BY <1>3, <2>2 DEF process_render_gpus, DeviceId
  <2>4. DeviceId(<<"bdf", g.bdf>>, None) \in gpu_map'
    BY <2>3 DEF combine_gpus
  <2> QED
    BY <1>2, <2>4 DEF key, Or, DeviceId
<1>4. CASE use.by = "compute"
  <2> DEFINE device == attribute_process_key(NvmlDevice(g, knows), ChildrenOf(g), use.instance)
  <2>1. knows[g] = {"bdf", "uuid"}
    BY DEF Unread
  <2>2. device \in nvml
    <3>1. device \in {attribute_process_key(NvmlDevice(g, knows), ChildrenOf(g), u.instance) :
                       u \in {u \in usage : u.by = "compute" /\ u.bdf = g.bdf}}
      BY <1>4
    <3>2. g \in {h \in NvmlGpus : knows[h] # {}}
      BY <2>1
    <3> HIDE DEF device
    <3> QED
      BY <3>1, <3>2 DEF nvml_compute_gpus, ChildrenOf
  <2>3. \/ Whole(g, use, device) /\ device = NvmlDevice(g, knows)
        \/ Instance(g, use, device)
    BY <2>1, Attributed
  <2>4. \/ device \in gpu_map'
        \/ \E r \in gpu_map' : r \in render /\ key(r) = key(device)
    BY <2>2 DEF combine_gpus
  <2> HIDE DEF device
  <2>5. CASE device = NvmlDevice(g, knows)
    <3>1. key(device) = <<"bdf", g.bdf>>
      BY <1>2, <2>1, <2>5 DEF NvmlDevice, DeviceId, key, Or
    <3> QED
      BY <2>4, <3>1
  <2>6. CASE Instance(g, use, device)
    <3>1. key(device) = <<"legacy", g.uuid, use.instance>> /\ device.uuid = key(device)
          /\ device.uuid # None
      BY <2>6 DEF Instance, DeviceId, key, Or
    <3>2. \A r \in render : key(r) # key(device)
      <4>1. ASSUME NEW r \in render PROVE \E h \in machine : key(r) = <<"bdf", h.bdf>>
        <5>1. PICK h \in machine : r = DeviceId(<<"bdf", h.bdf>>, None)
          BY RenderStandsFor
        <5>2. <<"bdf", h.bdf>> # None
          BY MachinesAssumption DEF MachineOk
        <5> QED
          BY <5>1, <5>2 DEF DeviceId, key, Or
      <4> QED
        BY <3>1, <4>1
    <3>3. device \in gpu_map'
      BY <2>4, <3>2
    <3> QED
      BY <3>1, <3>3
  <2> QED
    BY <2>3, <2>5, <2>6
<1> QED
  BY <1>3, <1>4 DEF UsageOk

-----------------------------------------------------------------------------
GpuInv == MachineOk /\ UsageOk /\ TopologyOk /\ ProviderOk(provider) /\ SampleOk(panel) /\ MapOk

\* Two GPUs do not share an address or a UUID.
LEMMA AddressNames ==
  ASSUME MachineOk, NEW g \in machine, NEW h \in machine,
         \/ g.bdf = h.bdf
         \/ g.driver = "nvidia" /\ h.driver = "nvidia" /\ g.uuid = h.uuid
  PROVE  g = h
BY MachinesAssumption DEF MachineOk

\* A shown device and a mapped one that match are of one GPU.
LEMMA MatchIsOfGpu ==
  ASSUME MachineOk, NEW g \in machine, IsOf(g, panel), NEW h \in machine, NEW use \in usage,
         NEW device, Whole(h, use, device) \/ Instance(h, use, device),
         \/ key(device) = key(panel.device) /\ key(panel.device) # None
         \/ mig_parent_uuid(panel.device) # None /\ mig_parent_uuid(panel.device) = device.uuid
         \/ mig_parent_uuid(device) # None /\ mig_parent_uuid(device) = panel.device.uuid
  PROVE  g = h /\ (mig_instance(panel.device.uuid) = None \/ Whole(h, use, device)
                     \/ use.instance = mig_instance(panel.device.uuid))
<1> DEFINE d == panel.device
<1>1. CASE IsPhysical(g, d) /\ Whole(h, use, device)
  <2>1. mig_parent_uuid(d) = None /\ mig_parent_uuid(device) = None
    BY <1>1 DEF IsPhysical, Whole, mig_parent_uuid
  <2>2. key(device) = key(d) /\ key(d) # None
    BY <2>1
  <2>3. \/ g.bdf = h.bdf
        \/ g.driver = "nvidia" /\ h.driver = "nvidia" /\ g.uuid = h.uuid
    BY <1>1, <2>2 DEF IsPhysical, Whole, key, Or
  <2> QED
    BY <1>1, <2>3, AddressNames
<1>2. CASE IsPhysical(g, d) /\ Instance(h, use, device)
  <2>1. mig_parent_uuid(d) = None /\ mig_instance(d.uuid) = None
    BY <1>2 DEF IsPhysical, mig_parent_uuid, mig_instance
  <2>2. key(device) = <<"legacy", h.uuid, use.instance>> /\ mig_parent_uuid(device) = <<"uuid", h.uuid>>
    BY <1>2 DEF Instance, DeviceId, key, Or, mig_parent_uuid
  <2>3. key(device) # key(d)
    BY <1>2, <2>2 DEF IsPhysical, key, Or
  <2>4. d.uuid = <<"uuid", h.uuid>> /\ d.uuid # None
    BY <2>1, <2>2, <2>3
  <2>5. g.driver = "nvidia" /\ h.driver = "nvidia" /\ g.uuid = h.uuid
    BY <1>2, <2>4 DEF IsPhysical, Instance
  <2> QED
    BY <2>1, <2>5, AddressNames
<1>3. ASSUME NEW k, IsChildKey(g, k), d = DeviceId(None, k), Whole(h, use, device)
      PROVE  g = h
  <2>1. mig_parent_uuid(device) = None
    BY <1>3 DEF IsPhysical, Whole, mig_parent_uuid
  <2>2. key(d) = k /\ d.uuid = k
    BY <1>3 DEF DeviceId, key, Or
  <2>3. key(device) # k
    <3>1. key(device)[1] \in {"bdf", "uuid"}
      BY <1>3 DEF Whole, IsPhysical, key, Or
    <3>2. k[1] \in {"legacy", "opaque", "synthetic"}
      BY <1>3 DEF IsChildKey
    <3> QED
      BY <3>1, <3>2
  <2>4. mig_parent_uuid(d) # None /\ mig_parent_uuid(d) = device.uuid
    BY <2>1, <2>2, <2>3
  <2>5. device.uuid = <<"uuid", h.uuid>> /\ h.driver = "nvidia"
    BY <1>3, <2>4 DEF Whole, IsPhysical
  <2>6. g.uuid = h.uuid /\ g.driver = "nvidia"
    BY <1>3, <2>2, <2>4, <2>5 DEF IsChildKey, mig_parent_uuid
  <2> QED
    BY <2>5, <2>6, AddressNames
<1>4. ASSUME NEW k, IsChildKey(g, k), d = DeviceId(None, k), Instance(h, use, device)
      PROVE  g = h /\ use.instance = mig_instance(d.uuid)
  <2>1. key(d) = k /\ d.uuid = k
    BY <1>4 DEF DeviceId, key, Or
  <2>2. /\ key(device) = <<"legacy", h.uuid, use.instance>> /\ device.uuid = key(device)
        /\ mig_parent_uuid(device) = <<"uuid", h.uuid>>
    BY <1>4 DEF Instance, DeviceId, key, Or, mig_parent_uuid
  <2>3. k[1] \in {"legacy", "opaque", "synthetic"}
    BY <1>4 DEF IsChildKey
  <2>4. mig_parent_uuid(device) # d.uuid
    BY <2>1, <2>2, <2>3
  <2>5. mig_parent_uuid(d) # device.uuid \/ mig_parent_uuid(d) = None
    <3>1. mig_parent_uuid(d) = None \/ mig_parent_uuid(d)[1] \in {"uuid", "bdf"}
      BY <1>4, <2>1 DEF IsChildKey, mig_parent_uuid
    <3> QED
      BY <2>2, <3>1
  <2>6. k = <<"legacy", h.uuid, use.instance>> /\ k # None
    BY <2>1, <2>2, <2>4, <2>5
  <2>7. g.uuid = h.uuid /\ g.driver = "nvidia" /\ h.driver = "nvidia"
    BY <1>4, <2>6 DEF IsChildKey, Instance
  <2>8. mig_instance(d.uuid) = use.instance
    BY <2>1, <2>6 DEF mig_instance
  <2> QED
    BY <2>7, <2>8, AddressNames
<1> QED
  BY <1>1, <1>2, <1>3, <1>4 DEF IsOf
LEMMA MarkFollows ==
  ASSUME GpuInv
  PROVE  MarkIsTrue
<1> DEFINE marked == gpu_in_mapping(panel.device, gpu_map)
           instance == mig_instance(panel.device.uuid)
           Here == {use \in usage : use.bdf = panel.from}
<1>1. CASE panel = NoSample
  <2>1. key(panel.device) = None /\ panel.device.pci_bdf = None
    BY <1>1 DEF NoSample, DeviceId, key, Or
  <2>2. ~marked
    BY <2>1 DEF gpu_in_mapping
  <2> QED
    BY <2>1, <2>2 DEF MarkIsTrue
<1>2. ASSUME NEW g \in machine, IsOf(g, panel) PROVE MarkIsTrue
  <2>1. ASSUME marked
        PROVE  /\ Here # {}
               /\ instance # None =>
                    \E use \in Here :
                      \/ use.instance = None \/ use.instance = instance
                      \/ ~\E c \in mig_topology :
                            c.parent = use.bdf /\ mig_instance(c.key) = use.instance
    <3>1. PICK device \in gpu_map :
            \/ key(device) = key(panel.device) /\ key(panel.device) # None
            \/ mig_parent_uuid(panel.device) # None
               /\ mig_parent_uuid(panel.device) = device.uuid
            \/ mig_parent_uuid(device) # None
               /\ mig_parent_uuid(device) = panel.device.uuid
      BY <2>1 DEF gpu_in_mapping
    <3>2. StandsFor(device)
      BY DEF GpuInv, MapOk
    <3>3. PICK h \in machine, use \in usage :
            use.bdf = h.bdf /\ (Whole(h, use, device) \/ Instance(h, use, device))
      BY <3>2 DEF StandsFor
    <3>4. g = h /\ (instance = None \/ Whole(h, use, device) \/ use.instance = instance)
      BY <1>2, <3>1, <3>3, MatchIsOfGpu DEF GpuInv
    <3>5. use \in Here
      BY <1>2, <3>3, <3>4 DEF IsOf
    <3> QED
      BY <3>3, <3>4, <3>5 DEF Whole
  <2>2. ASSUME named, panel.device.pci_bdf # None, Here # {}, panel.device.uuid # None
        PROVE  marked
    <3>1. IsPhysical(g, panel.device)
      <4>1. ASSUME NEW k, panel.device = DeviceId(None, k) PROVE panel.device.pci_bdf = None
        BY <4>1 DEF DeviceId
      <4> QED
        BY <1>2, <2>2, <4>1 DEF IsOf
    <3>2. g \in NvmlGpus /\ panel.from = g.bdf
      BY <1>2, <2>2, <3>1 DEF IsPhysical, IsOf, NvmlGpus
    <3>3. Found(g)
      BY <2>2, <3>2 DEF GpuInv, MapOk
    <3>4. PICK device \in gpu_map :
            \/ key(device) = <<"bdf", g.bdf>>
            \/ device.uuid # None /\ \E i : device.uuid = <<"legacy", g.uuid, i>>
      BY <3>3 DEF Found
    <3>5. key(panel.device) = <<"bdf", g.bdf>> /\ key(panel.device) # None
          /\ panel.device.uuid = <<"uuid", g.uuid>>
      BY <2>2, <3>1 DEF IsPhysical, key, Or
    <3>6. ASSUME device.uuid # None, NEW i, device.uuid = <<"legacy", g.uuid, i>>
          PROVE  mig_parent_uuid(device) = panel.device.uuid
      BY <3>5, <3>6 DEF mig_parent_uuid
    <3> QED
      BY <2>2, <3>4, <3>5, <3>6 DEF gpu_in_mapping
  <2> QED
    BY <2>1, <2>2 DEF MarkIsTrue
<1> QED
  BY <1>1, <1>2 DEF GpuInv, SampleOk

LEMMA TopologyFromInit ==
  ASSUME MachineOk, NEW knows,
         mig_topology = UNION {mig_children_of(g, NvmlDevice(g, knows)) :
                                 g \in {g \in NvmlGpus : knows[g] # {}}}
  PROVE  TopologyOk
<1> SUFFICES ASSUME NEW c \in mig_topology PROVE IsChild(c)
  BY DEF TopologyOk
<1>1. PICK g \in NvmlGpus : c \in mig_children_of(g, NvmlDevice(g, knows))
  OBVIOUS
<1> QED
  BY <1>1, ChildrenAreChildren

LEMMA GpuInvInit ==
  ASSUME GpuInit
  PROVE  GpuInv
<1>1. MachineOk
  BY DEF GpuInit, MachineOk
<1>2. UsageOk
  <2>1. PICK n \in 0 .. MaxUses : usage \in kSubset(n, Uses)
    BY DEF GpuInit
  <2>2. usage \subseteq Uses
    BY <2>1 DEF kSubset
  <2> QED
    BY <2>2 DEF Uses, UsageOk
<1>3. TopologyOk
  <2>1. PICK knows \in NvmlKnows :
          mig_topology = UNION {mig_children_of(g, NvmlDevice(g, knows)) :
                                  g \in {g \in NvmlGpus : knows[g] # {}}}
    BY DEF GpuInit
  <2> QED
    BY <1>1, <2>1, TopologyFromInit
<1>4. ProviderOk(provider)
  <2>1. PICK knows \in NvmlKnows :
          provider = new_gpu_provider([by |-> "Auto"], discover_gpus(machine), knows)
    BY DEF GpuInit
  <2>2. SelectorOk([by |-> "Auto"])
    BY DEF SelectorOk
  <2> QED
    BY <1>1, <2>1, <2>2, NewProvider
<1>5. SampleOk(panel) /\ MapOk
  BY DEF GpuInit, SampleOk, MapOk
<1> QED
  BY <1>1, <1>2, <1>3, <1>4, <1>5 DEF GpuInv

LEMMA SameGpus ==
  ASSUME machine' = machine
  PROVE  /\ NvmlGpus' = NvmlGpus
         /\ \A c : IsChild(c)' <=> IsChild(c)
<1>1. NvmlGpus' = NvmlGpus
  BY DEF NvmlGpus
<1>2. ASSUME NEW g PROVE NvmlIndex(g)' = NvmlIndex(g)
  BY <1>1 DEF NvmlIndex
<1> QED
  BY <1>1, <1>2 DEF IsChild, IsChildKey

LEMMA StillOk ==
  ASSUME machine' = machine
  PROVE  /\ MachineOk => MachineOk'
         /\ UsageOk /\ usage' = usage => UsageOk'
         /\ TopologyOk /\ mig_topology' = mig_topology => TopologyOk'
         /\ ProviderOk(provider') => ProviderOk(provider)'
         /\ SampleOk(panel') => SampleOk(panel)'
<1>1. MachineOk => MachineOk'
  BY DEF MachineOk
<1>2. UsageOk /\ usage' = usage => UsageOk'
  BY SameGpus DEF UsageOk
<1>3. TopologyOk /\ mig_topology' = mig_topology => TopologyOk'
  BY SameGpus DEF TopologyOk
<1>4. ProviderOk(provider') => ProviderOk(provider)'
  BY SameGpus DEF ProviderOk, IsPhysical
<1>5. SampleOk(panel') => SampleOk(panel)'
  BY DEF SampleOk, IsOf, IsPhysical, IsChildKey, NoSample, DeviceId
<1> QED
  BY <1>1, <1>2, <1>3, <1>4, <1>5

LEMMA SameMap ==
  ASSUME MapOk, UNCHANGED <<machine, usage, mig_topology, gpu_map, named>>
  PROVE  MapOk'
<1>1. \A device : StandsFor(device)' <=> StandsFor(device)
  BY DEF StandsFor, Whole, Instance
<1> QED
  BY <1>1, SameGpus DEF MapOk, Found

LEMMA GpuInvStep ==
  ASSUME GpuInv, [GpuNext]_gpuVars
  PROVE  GpuInv'
<1>1. CASE UNCHANGED gpuVars
  BY <1>1, StillOk, SameMap DEF GpuInv, gpuVars
<1>2. CASE SelectGpu
  <2>1. PICK selector \in Selectors, knows \in NvmlKnows :
          provider' = new_gpu_provider(selector, discover_gpus(machine), knows)
    BY <1>2 DEF SelectGpu
  <2>2. SelectorOk(selector)
    BY MachinesAssumption DEF SelectorOk
  <2>3. ProviderOk(provider')
    BY <2>1, <2>2, NewProvider DEF GpuInv
  <2> QED
    BY <1>2, <2>3, StillOk, SameMap DEF SelectGpu, GpuInv
<1>3. CASE SampleGpu
  <2>1. SampleOk(panel')
    BY <1>3, SamplesAreOfGpus DEF SampleGpu, GpuInv
  <2> QED
    BY <1>3, <2>1, StillOk, SameMap DEF SampleGpu, GpuInv
<1>4. CASE ScanProcess
  <2>1. PICK knows \in NvmlKnows :
          /\ gpu_map' = combine_gpus(process_render_gpus(discover_gpus(machine)),
                                     nvml_compute_gpus(knows))
          /\ named' = (Unread(knows) = {})
          /\ UNCHANGED <<machine, usage, provider, panel, mig_topology>>
    BY <1>4 DEF ScanProcess
  <2>2. ASSUME NEW device \in gpu_map' PROVE StandsFor(device)
    BY <2>1, RenderStandsFor, ComputeStandsFor DEF combine_gpus, GpuInv
  <2>3. ASSUME named', NEW g \in NvmlGpus, NEW use \in usage, use.bdf = g.bdf
        PROVE  \E device \in gpu_map' :
                 \/ key(device) = <<"bdf", g.bdf>>
                 \/ device.uuid # None /\ \E i : device.uuid = <<"legacy", g.uuid, i>>
    BY <2>1, <2>3, AllAreFound DEF GpuInv
  <2>4. \A device : StandsFor(device)' <=> StandsFor(device)
    BY <2>1 DEF StandsFor, Whole, Instance
  <2>5. MapOk'
    BY <2>1, <2>2, <2>3, <2>4, SameGpus DEF MapOk, Found
  <2> QED
    BY <2>1, <2>5, StillOk DEF GpuInv
<1> QED
  BY <1>1, <1>2, <1>3, <1>4 DEF GpuNext

\* The mark in the GPU panel.
THEOREM MarkSafe == GpuSpec => []MarkIsTrue
<1>1. GpuInit => GpuInv
  BY GpuInvInit
<1>2. GpuInv /\ [GpuNext]_gpuVars => GpuInv'
  BY GpuInvStep
<1>3. GpuInv => MarkIsTrue
  BY MarkFollows
<1> QED
  BY <1>1, <1>2, <1>3, PTL DEF GpuSpec
-----------------------------------------------------------------------------
(* The CPU sensors: what two reads of the energy counters measure.         *)

SensorSpec == SensorInit /\ [][PowerNext \/ CountersNext]_sensorVars

\* Positions in ascending order.
LEMMA Positions ==
  ASSUME NEW n \in Nat, NEW S \in SUBSET (1 .. n)
  PROVE  /\ DOMAIN Ordered(S, <) = 1 .. Cardinality(S) /\ Cardinality(S) \in Nat
         /\ \A i \in DOMAIN Ordered(S, <) : Ordered(S, <)[i] \in S
         /\ \A i, j \in DOMAIN Ordered(S, <) : Ordered(S, <)[i] = Ordered(S, <)[j] => i = j
<1> DEFINE o == [i \in S |-> i]
           at(i) == CHOOSE x \in S : Cardinality({y \in S : y < x}) = i - 1
<1>1. Counted(S, o)
  <2>1. IsFiniteSet(1 .. n)
    BY FS_Interval, n \in Int, 1 \in Int
  <2>2. IsFiniteSet(S)
    BY <2>1, FS_Subset
  <2> QED
    BY <2>2 DEF Counted
<1>2. \A x \in S : {y \in S : o[y] < o[x]} = {y \in S : y < x}
  OBVIOUS
<1> HIDE DEF o
<1>3. /\ Cardinality(S) \in Nat
      /\ \A k \in Nat : k < Cardinality(S) => \E x \in S : PlaceIn(S, o, x) = k
  <2>1. Cardinality(S) \in Nat
    BY <1>1, FS_CardinalityType DEF Counted
  <2>2. \A k \in Nat : k < Cardinality(S) => \E x \in S : PlaceIn(S, o, x) = k
    BY <1>1, RankIsTaken
  <2> QED
    BY <2>1, <2>2
<1>4. ASSUME NEW i \in 1 .. Cardinality(S)
      PROVE  at(i) \in S /\ Cardinality({y \in S : y < at(i)}) = i - 1
  <2>1. i - 1 \in Nat /\ i - 1 < Cardinality(S)
    BY <1>3
  <2>2. PICK x \in S : PlaceIn(S, o, x) = i - 1
    BY <1>3, <2>1
  <2>3. Cardinality({y \in S : y < x}) = i - 1
    BY <1>2, <2>2 DEF PlaceIn
  <2> QED
    BY <2>3
<1>5. Ordered(S, <) = [i \in 1 .. Cardinality(S) |-> at(i)]
  BY DEF Ordered
<1> HIDE DEF at
<1> DEFINE by == Ordered(S, <)
<1> HIDE DEF by
<1>6. /\ DOMAIN by = 1 .. Cardinality(S)
      /\ \A i \in 1 .. Cardinality(S) : by[i] = at(i)
  BY <1>5 DEF by
<1>7. ASSUME NEW i \in 1 .. Cardinality(S), NEW j \in 1 .. Cardinality(S), at(i) = at(j)
      PROVE  i = j
  <2>1. i - 1 = j - 1
    BY <1>4, <1>7
  <2> QED
    BY <1>3, <2>1
<1>9. \A i \in DOMAIN by : by[i] \in S
  BY <1>4, <1>6
<1>10. \A i, j \in DOMAIN by : by[i] = by[j] => i = j
  BY <1>6, <1>7
<1>8. /\ DOMAIN by = 1 .. Cardinality(S) /\ Cardinality(S) \in Nat
      /\ \A i \in DOMAIN by : by[i] \in S
      /\ \A i, j \in DOMAIN by : by[i] = by[j] => i = j
  BY <1>3, <1>6, <1>9, <1>10
<1> QED
  BY <1>8 DEF by

\* Of two counts less than a round apart, the counter tells the difference unless it
\* seems to go back.
LEMMA CounterTells ==
  ASSUME NEW a \in Nat, NEW b \in Nat, NEW R \in Nat \ {0}, a <= b, b - a < R, a % R <= b % R
  PROVE  (b % R) - (a % R) = b - a
<1> DEFINE p == a \div R
           q == b \div R
<1>1. p \in Int /\ q \in Int /\ a % R \in 0 .. (R - 1) /\ b % R \in 0 .. (R - 1)
  OBVIOUS
<1>2. a = R * p + (a % R) /\ b = R * q + (b % R)
  OBVIOUS
<1> DEFINE r == a % R
           s == b % R
<1>3. r \in 0 .. (R - 1) /\ s \in 0 .. (R - 1) /\ r <= s /\ a = R * p + r /\ b = R * q + s
  BY <1>1, <1>2
<1> SUFFICES s - r = b - a
  OBVIOUS
<1> HIDE DEF p, q, r, s
<1>4. R * (q - p) = R * q - R * p /\ R * p \in Int /\ R * q \in Int
  BY <1>1
<1>5. CASE q - p >= 1
  <2>1. R * (q - p) >= R
    BY <1>1, <1>5
  <2> QED
    BY <1>1, <1>3, <1>4, <2>1
<1>6. CASE q - p <= -1
  <2>1. R * (q - p) <= -R
    BY <1>1, <1>6
  <2> QED
    BY <1>1, <1>3, <1>4, <2>1
<1>7. CASE q = p
  BY <1>1, <1>3, <1>7
<1> QED
  BY <1>1, <1>5, <1>6, <1>7
\* The energy that a package has burnt since `begun`, and the samples taken of it: each
\* of another package, and of counts that the window of `burnt` lies between.
EnergyRead == [package : Packages, from : Nat, to : Nat]

ReadOf(sample, begun, burnt) ==
  \E f \in Nat, t \in Nat :
    /\ begun[sample.package] <= f /\ f + burnt[sample.package] <= t
    /\ t <= energy[sample.package]
    /\ sample.from = f % EnergyRange /\ sample.to = t % EnergyRange

SamplesOk(samples, begun, burnt) ==
  /\ samples \in Seq(EnergyRead)
  /\ \A k \in DOMAIN samples : ReadOf(samples[k], begun, burnt)
  /\ \A j, k \in DOMAIN samples : samples[j].package = samples[k].package => j = k

PowerReal(power, ev) ==
  LET packages == {s.package : s \in {s \in ev.samples : s.from <= s.to}}
  IN  /\ power = None <=> packages = {}
      /\ power # None => /\ SumFunctionOnSet(ev.burnt, packages) <= power.energy
                         /\ power.energy <= SumFunctionOnSet(ev.total, packages)
                         /\ power.elapsed > 0

WithinRange(begun) ==
  \A p \in Packages : begun[p] <= energy[p] /\ energy[p] - begun[p] < EnergyRange

LEMMA SampleTells ==
  ASSUME energy \in [Packages -> Nat], NEW begun \in [Packages -> Nat], WithinRange(begun),
         NEW burnt \in [Packages -> Nat], NEW s \in EnergyRead, ReadOf(s, begun, burnt), s.from <= s.to
  PROVE  /\ s.to - s.from \in Nat
         /\ burnt[s.package] <= s.to - s.from
         /\ s.to - s.from <= energy[s.package] - begun[s.package]
<1> DEFINE p == s.package
<1>1. PICK f \in Nat, t \in Nat :
        /\ begun[p] <= f /\ f + burnt[p] <= t /\ t <= energy[p]
        /\ s.from = f % EnergyRange /\ s.to = t % EnergyRange
  BY DEF ReadOf
<1>2. p \in Packages /\ s.from \in Nat /\ s.to \in Nat
  BY DEF EnergyRead
<1>3. /\ energy[p] \in Nat /\ begun[p] \in Nat /\ burnt[p] \in Nat
      /\ energy[p] - begun[p] < EnergyRange
  BY <1>2 DEF WithinRange
<1>4. EnergyRange \in Nat \ {0}
  BY SensorAssumption
<1> HIDE DEF p
<1>5. f <= t /\ t - f < EnergyRange
  BY <1>1, <1>3, <1>4
<1>6. s.to - s.from = t - f
  BY <1>1, <1>4, <1>5, CounterTells
<1>7. t - f \in Nat /\ burnt[p] <= t - f /\ t - f <= energy[p] - begun[p]
  BY <1>1, <1>3, <1>5
<1> QED
  BY <1>6, <1>7 DEF p

LEMMA PowerSums ==
  ASSUME energy \in [Packages -> Nat], NEW begun \in [Packages -> Nat], WithinRange(begun),
         NEW burnt \in [Packages -> Nat], NEW samples, SamplesOk(samples, begun, burnt),
         NEW elapsed \in Nat, elapsed > 0
  PROVE  PowerReal(sum_rapl_watts(samples, elapsed),
                   [total |-> [p \in Packages |-> energy[p] - begun[p]],
                    burnt |-> burnt, samples |-> ToSet(samples)])
<1> DEFINE measured == {k \in DOMAIN samples : rapl_watts(samples[k]) # None}
           total == [p \in Packages |-> energy[p] - begun[p]]
           watts == [k \in measured |-> rapl_watts(samples[k])]
           image == [k \in measured |-> samples[k].package]
           low == [k \in measured |-> burnt[image[k]]]
           high == [k \in measured |-> total[image[k]]]
           packages == {s.package : s \in {s \in ToSet(samples) : s.from <= s.to}}
           power == sum_rapl_watts(samples, elapsed)
<1>1. /\ Len(samples) \in Nat /\ DOMAIN samples = 1 .. Len(samples)
      /\ \A k \in DOMAIN samples : samples[k] \in EnergyRead
  BY LenProperties, ElementOfSeq DEF SamplesOk
<1>2. \A k \in DOMAIN samples : /\ samples[k].package \in Packages
                              /\ samples[k].from \in Nat /\ samples[k].to \in Nat
  BY <1>1 DEF EnergyRead
<1>3. ASSUME NEW k \in DOMAIN samples
      PROVE  /\ rapl_watts(samples[k]) # None <=> samples[k].from <= samples[k].to
             /\ rapl_watts(samples[k]) # None =>
                  rapl_watts(samples[k]) = samples[k].to - samples[k].from
  BY <1>2, SensorAssumption DEF rapl_watts
<1>4. ASSUME NEW k \in measured
      PROVE  /\ watts[k] \in Nat /\ low[k] \in Nat /\ high[k] \in Nat /\ image[k] \in Packages
             /\ low[k] <= watts[k] /\ watts[k] <= high[k]
  <2>1. /\ samples[k] \in EnergyRead /\ samples[k].from <= samples[k].to
        /\ watts[k] = samples[k].to - samples[k].from /\ samples[k].package \in Packages
    BY <1>1, <1>2, <1>3
  <2>2. ReadOf(samples[k], begun, burnt)
    BY DEF SamplesOk
  <2>3. /\ burnt[samples[k].package] \in Nat
        /\ energy[samples[k].package] - begun[samples[k].package] \in Nat
    BY <2>1 DEF WithinRange
  <2> QED
    BY <2>1, <2>2, <2>3, SampleTells
<1>5. IsFiniteSet(measured)
  <2>1. IsFiniteSet(1 .. Len(samples))
    BY <1>1, FS_Interval, Len(samples) \in Int, 1 \in Int
  <2> QED
    BY <1>1, <2>1, FS_Subset
<1>6. packages = {image[k] : k \in measured}
  BY <1>3 DEF ToSet
<1>7. \A j \in measured, k \in measured : image[j] = image[k] => j = k
  BY DEF SamplesOk
<1>8. power = IF measured = {} THEN None
              ELSE [energy |-> SumFunctionOnSet(watts, measured), elapsed |-> elapsed]
  BY DEF sum_rapl_watts, SumFunction
<1>9. \A k \in measured : /\ low[k] \in Int /\ burnt[image[k]] = low[k]
                          /\ high[k] \in Int /\ total[image[k]] = high[k]
  BY <1>4
<1>10. packages = {} <=> measured = {}
  BY <1>6
<1> HIDE DEF measured, total, watts, image, low, high, packages, power
<1>11. SumFunctionOnSet(burnt, packages) = SumFunctionOnSet(low, measured)
  BY <1>5, <1>6, <1>7, <1>9, SumOverImage
<1>12. SumFunctionOnSet(total, packages) = SumFunctionOnSet(high, measured)
  BY <1>5, <1>6, <1>7, <1>9, SumOverImage
<1>13. /\ SumFunctionOnSet(low, measured) <= SumFunctionOnSet(watts, measured)
       /\ SumFunctionOnSet(watts, measured) <= SumFunctionOnSet(high, measured)
       /\ SumFunctionOnSet(watts, measured) \in Int
  BY <1>4, <1>5, SumMonotone, SumIsInt
<1>14. measured # {} => power # None
  BY <1>8, <1>13, SensorAssumption
<1>15. PowerReal(power, [total |-> total, burnt |-> burnt, samples |-> ToSet(samples)])
  BY <1>8, <1>10, <1>11, <1>12, <1>13, <1>14 DEF PowerReal, packages
<1> QED
  BY <1>15 DEF power, total
-----------------------------------------------------------------------------
LayoutOk ==
  /\ powercap \in Seq([package : Packages, window_us : Nat])
  /\ \A i, j \in DOMAIN powercap : powercap[i].package = powercap[j].package => i = j
  /\ \A i \in DOMAIN hwmon : hwmon[i].preferred \in BOOLEAN
  /\ policies \in Seq([cpus : Nat])

LEMMA WindowIsTime ==
  ASSUME NEW zone, zone.udelay \in Nat \union {None}
  PROVE  window_us(zone) \in Nat
<1>1. RAPL_SAMPLE_US \in Nat /\ None \notin Int
  BY SensorAssumption
<1>2. ASSUME zone.udelay # None PROVE Minus(zone.udelay, 1) \div 2 \in Nat
  <2>1. Minus(zone.udelay, 1) \in Nat
    BY <1>2 DEF Minus
  <2> HIDE DEF Minus
  <2> QED
    BY <2>1
<1> QED
  BY <1>1, <1>2 DEF window_us, Lower

LEMMA ZonesAreListed ==
  ASSUME NEW zones \in Powercaps
  PROVE  LET found == discover_power_zones(zones)
         IN  /\ found \in Seq([package : Packages, window_us : Nat])
             /\ \A i, j \in DOMAIN found : found[i].package = found[j].package => i = j
<1> DEFINE S == {i \in DOMAIN zones : IsPackageZone(zones[i])}
           at == Ordered(S, <)
           found == discover_power_zones(zones)
<1>1. zones \in Seq([driver : STRING, name : STRING, package : Packages,
                    udelay : Nat \union {None}, max_range : Nat \union {None}])
  BY SensorAssumption
<1>2. /\ Len(zones) \in Nat /\ DOMAIN zones = 1 .. Len(zones)
      /\ \A i \in DOMAIN zones : zones[i].package \in Packages /\ zones[i].udelay \in Nat \union {None}
  <2> DEFINE Zones == [driver : STRING, name : STRING, package : Packages,
                       udelay : Nat \union {None}, max_range : Nat \union {None}]
  <2>1. \A z \in Zones : z.package \in Packages /\ z.udelay \in Nat \union {None}
    OBVIOUS
  <2>2. zones \in Seq(Zones)
    BY <1>1
  <2> HIDE DEF Zones
  <2>3. /\ Len(zones) \in Nat /\ DOMAIN zones = 1 .. Len(zones)
        /\ \A i \in DOMAIN zones : zones[i] \in Zones
    BY <2>2, LenProperties, ElementOfSeq
  <2> QED
    BY <2>1, <2>3
<1>3. S \in SUBSET (1 .. Len(zones))
  BY <1>2
<1>4. found = [n \in DOMAIN at |-> [package |-> zones[at[n]].package,
                                   window_us |-> window_us(zones[at[n]])]]
  BY DEF discover_power_zones
<1>5. \A i \in S : i \in DOMAIN zones /\ zones[i].name = "package" /\ zones[i].driver # "mmio"
  BY DEF IsPackageZone
<1> HIDE DEF S
<1>6. /\ DOMAIN at = 1 .. Cardinality(S) /\ Cardinality(S) \in Nat
      /\ \A i \in DOMAIN at : at[i] \in S
      /\ \A i, j \in DOMAIN at : at[i] = at[j] => i = j
  BY <1>2, <1>3, Positions
<1> HIDE DEF at, found
<1>7. \A n \in DOMAIN at : /\ zones[at[n]].package \in Packages
                         /\ window_us(zones[at[n]]) \in Nat
  BY <1>2, <1>5, <1>6, WindowIsTime
<1>8. found \in [1 .. Cardinality(S) -> [package : Packages, window_us : Nat]]
  BY <1>4, <1>6, <1>7
<1>9. found \in Seq([package : Packages, window_us : Nat])
  <2> DEFINE Zones == [package : Packages, window_us : Nat]
  <2>1. found \in [1 .. Cardinality(S) -> Zones]
    BY <1>8
  <2> HIDE DEF Zones
  <2>2. found \in Seq(Zones)
    BY <1>6, <2>1, SeqDef
  <2> QED
    BY <2>2 DEF Zones
<1>10. ASSUME NEW i \in DOMAIN found, NEW j \in DOMAIN found, found[i].package = found[j].package
       PROVE  i = j
  <2>1. i \in DOMAIN at /\ j \in DOMAIN at /\ zones[at[i]].package = zones[at[j]].package
    BY <1>4, <1>10
  <2>2. at[i] = at[j]
    BY <1>5, <1>6, <2>1, SensorAssumption
  <2> QED
    BY <1>6, <2>1, <2>2
<1> QED
  BY <1>9, <1>10 DEF found

LEMMA LayoutInit ==
  ASSUME SensorInit
  PROVE  LayoutOk
<1>1. PICK zones \in Powercaps : powercap = discover_power_zones(zones)
  BY DEF SensorInit
<1>2. \A i \in DOMAIN hwmon : hwmon[i].preferred \in BOOLEAN
  <2>1. PICK inputs \in Hwmons : hwmon = discover_temp_sensors(inputs)
    BY DEF SensorInit
  <2> QED
    BY <2>1 DEF discover_temp_sensors
<1>3. policies \in Seq([cpus : Nat])
  BY SensorAssumption DEF SensorInit
<1> QED
  BY <1>1, <1>2, <1>3, ZonesAreListed DEF LayoutOk

-----------------------------------------------------------------------------
\* The energy has grown by less than a round of a counter since any earlier time.
Grown(e0) ==
  /\ e0 \in [Packages -> Nat]
  /\ \A p \in Packages :
       e0[p] <= energy[p] /\ (energy[p] - e0[p]) * MaxSensorTime <= instant * (EnergyRange - 1)

EnergyOk ==
  /\ energy \in [Packages -> Nat] /\ instant \in 0 .. MaxSensorTime
  /\ \E e0 : Grown(e0) /\ (meter.step # "rest" => \A p \in Packages : e0[p] <= meter.begun[p])

LEMMA ShareOfRound ==
  ASSUME NEW x \in Nat, NEW M \in Nat \ {0}, NEW i \in 0 .. M, NEW R \in Nat \ {0},
         x * M <= i * (R - 1)
  PROVE  x < R
<1>1. i * (R - 1) <= M * (R - 1)
  <2>1. i \in Nat /\ R - 1 \in Nat /\ i <= M
    OBVIOUS
  <2> QED
    BY <2>1
<1>2. CASE x >= R
  <2>1. x * M >= R * M
    BY <1>2
  <2>2. R * M = M * (R - 1) + M
    OBVIOUS
  <2>3. x * M \in Int /\ R * M \in Int /\ M * (R - 1) \in Int /\ i * (R - 1) \in Int
    OBVIOUS
  <2> QED
    BY <1>1, <2>1, <2>2, <2>3
<1> QED
  BY <1>2

LEMMA BegunWithinRange ==
  ASSUME EnergyOk, meter.step # "rest", NEW begun \in [Packages -> Nat], begun = meter.begun,
         \A p \in Packages : begun[p] <= energy[p]
  PROVE  WithinRange(begun)
<1>1. PICK e0 : Grown(e0) /\ \A p \in Packages : e0[p] <= begun[p]
  BY DEF EnergyOk
<1>2. ASSUME NEW p \in Packages PROVE energy[p] - begun[p] < EnergyRange
  <2>1. e0[p] \in Nat /\ energy[p] \in Nat /\ begun[p] \in Nat /\ e0[p] <= begun[p]
        /\ e0[p] <= energy[p]
    BY <1>1 DEF Grown, EnergyOk
  <2> DEFINE x == energy[p] - e0[p]
  <2>2. x \in Nat /\ x * MaxSensorTime <= instant * (EnergyRange - 1)
    BY <1>1, <2>1 DEF Grown
  <2>3. MaxSensorTime \in Nat \ {0} /\ EnergyRange \in Nat \ {0} /\ instant \in 0 .. MaxSensorTime
    BY SensorAssumption DEF EnergyOk
  <2> HIDE DEF x
  <2>4. x < EnergyRange
    BY <2>2, <2>3, ShareOfRound
  <2> QED
    BY <2>1, <2>3, <2>4 DEF x
<1> QED
  BY <1>2 DEF WithinRange
-----------------------------------------------------------------------------
\* The baselines were read since `begun` and before `upto`.
ReadsOk(begun, read, upto) ==
  /\ read \in Seq(Nat \union {None})
  /\ \A i \in DOMAIN read : read[i] # None =>
       \E e \in Nat : /\ begun[powercap[i].package] <= e /\ e <= upto[powercap[i].package]
                     /\ read[i] = e % EnergyRange

Before(begun) == begun \in [Packages -> Nat] /\ \A p \in Packages : begun[p] <= energy[p]
LessBurnt(burnt) == [p \in Packages |-> energy[p] - burnt[p]]

BaselinesOk ==
  /\ meter = [step |-> "baselines", read |-> meter.read, begun |-> meter.begun]
  /\ Before(meter.begun) /\ Len(meter.read) < Len(powercap)
  /\ ReadsOk(meter.begun, meter.read, energy)

SleepOk ==
  /\ meter = [step |-> "sleep", read |-> meter.read, begun |-> meter.begun,
              started |-> meter.started, until |-> meter.until, slept |-> meter.slept]
  /\ Before(meter.begun) /\ Len(meter.read) = Len(powercap) /\ Before(meter.slept)
  /\ meter.started \in Nat /\ meter.started <= instant
  /\ ReadsOk(meter.begun, meter.read, meter.slept)

AgainOk ==
  /\ meter = [step |-> "again", read |-> meter.read, begun |-> meter.begun,
              elapsed |-> meter.elapsed, next |-> meter.next, samples |-> meter.samples,
              burnt |-> meter.burnt]
  /\ Before(meter.begun) /\ Len(meter.read) = Len(powercap) /\ Before(meter.burnt)
  /\ meter.elapsed \in Nat /\ meter.elapsed > 0 /\ meter.next \in 1 .. Len(powercap)
  /\ ReadsOk(meter.begun, meter.read, LessBurnt(meter.burnt))
  /\ SamplesOk(meter.samples, meter.begun, meter.burnt)
  /\ \A k \in DOMAIN meter.samples : \E i \in 1 .. (meter.next - 1) :
       meter.samples[k].package = powercap[i].package

MeterOk ==
  /\ meter = AtRest \/ (powercap # <<>> /\ (BaselinesOk \/ SleepOk \/ AgainOk))
  /\ powercap = <<>> => evidence = None
  /\ evidence # None => PowerReal(cpu_power_w, evidence)

PowerInv == LayoutOk /\ EnergyOk /\ MeterOk

LEMMA ZonesOf ==
  ASSUME LayoutOk
  PROVE  /\ Len(powercap) \in Nat /\ DOMAIN powercap = 1 .. Len(powercap)
         /\ \A i \in 1 .. Len(powercap) :
              powercap[i].package \in Packages /\ powercap[i].window_us \in Nat
         /\ powercap # <<>> => Len(powercap) > 0
<1> DEFINE Zones == [package : Packages, window_us : Nat]
<1>1. \A z \in Zones : z.package \in Packages /\ z.window_us \in Nat
  OBVIOUS
<1>2. powercap \in Seq(Zones)
  BY DEF LayoutOk
<1> HIDE DEF Zones
<1>3. /\ Len(powercap) \in Nat /\ DOMAIN powercap = 1 .. Len(powercap)
      /\ \A i \in 1 .. Len(powercap) : powercap[i] \in Zones
  BY <1>2, LenProperties, ElementOfSeq
<1>4. powercap # <<>> => Len(powercap) # 0
  BY <1>2, EmptySeq
<1> QED
  BY <1>1, <1>3, <1>4

\* One more baseline.
LEMMA BaselineAppended ==
  ASSUME LayoutOk, energy \in [Packages -> Nat], NEW begun, Before(begun), NEW read,
         ReadsOk(begun, read, energy), Len(read) < Len(powercap), NEW raw,
         raw \in {None, EnergyUj(powercap[Len(read) + 1])}
  PROVE  /\ ReadsOk(begun, Append(read, raw), energy)
         /\ Len(Append(read, raw)) = Len(read) + 1 /\ Len(read) \in Nat
<1> DEFINE Raws == Nat \union {None}
           n == Len(read) + 1
           longer == Append(read, raw)
<1>1. read \in Seq(Raws)
  BY DEF ReadsOk
<1>2. Len(read) \in Nat /\ DOMAIN read = 1 .. Len(read)
  BY <1>1, LenProperties
<1>3. n \in 1 .. Len(powercap) /\ powercap[n].package \in Packages
  BY <1>2, ZonesOf
<1> DEFINE p == powercap[n].package
<1>4. energy[p] \in Nat /\ begun[p] <= energy[p] /\ EnergyRange \in Nat \ {0}
  BY <1>3, SensorAssumption DEF Before
<1>5. energy[p] % EnergyRange \in Nat
  BY <1>4
<1>6. raw \in Raws /\ (raw # None => raw = energy[p] % EnergyRange)
  BY <1>5 DEF EnergyUj
<1> HIDE DEF Raws, p, n, longer
<1>7. /\ longer \in Seq(Raws) /\ Len(longer) = n /\ longer[n] = raw
      /\ \A i \in 1 .. Len(read) : longer[i] = read[i]
  BY <1>1, <1>6, AppendProperties DEF longer, n
<1>8. DOMAIN longer = 1 .. n
  BY <1>7, LenProperties
<1>9. ASSUME NEW i \in DOMAIN longer, longer[i] # None
      PROVE  \E e \in Nat : /\ begun[powercap[i].package] <= e /\ e <= energy[powercap[i].package]
                            /\ longer[i] = e % EnergyRange
  <2>1. CASE i = n
    <3>1. energy[p] <= energy[p] /\ longer[i] = energy[p] % EnergyRange
      BY <1>4, <1>6, <1>7, <1>9, <2>1
    <3> QED
      BY <1>4, <2>1, <3>1 DEF p
  <2>2. CASE i \in 1 .. Len(read)
    BY <1>2, <1>7, <1>9, <2>2 DEF ReadsOk
  <2> QED
    BY <1>2, <1>8, <2>1, <2>2 DEF n
<1>10. ReadsOk(begun, longer, energy)
  BY <1>7, <1>9 DEF ReadsOk, Raws
<1> QED
  BY <1>2, <1>7, <1>10 DEF longer, n

\* Samples of the first n zones.
SamplesTo(n, samples, begun, burnt) ==
  /\ SamplesOk(samples, begun, burnt)
  /\ \A k \in DOMAIN samples : \E i \in 1 .. n : samples[k].package = powercap[i].package

\* One more sample, of a package that had none.
LEMMA SampleAppended ==
  ASSUME LayoutOk, energy \in [Packages -> Nat], NEW begun, Before(begun), NEW burnt, Before(burnt),
         NEW read, ReadsOk(begun, read, LessBurnt(burnt)), NEW samples,
         NEW n \in 1 .. Len(powercap), SamplesTo(n - 1, samples, begun, burnt),
         n \in DOMAIN read, read[n] # None,
         NEW sample, sample = [package |-> powercap[n].package, from |-> read[n],
                               to |-> EnergyUj(powercap[n])]
  PROVE  SamplesTo(n, Append(samples, sample), begun, burnt)
<1> DEFINE p == powercap[n].package
           longer == Append(samples, sample)
           m == Len(samples) + 1
<1>1. p \in Packages /\ Len(powercap) \in Nat /\ DOMAIN powercap = 1 .. Len(powercap)
  BY ZonesOf
<1>2. PICK e \in Nat : /\ begun[p] <= e /\ e <= energy[p] - burnt[p]
                      /\ read[n] = e % EnergyRange
  BY <1>1 DEF ReadsOk, LessBurnt
<1>3. /\ energy[p] \in Nat /\ burnt[p] \in Nat /\ begun[p] \in Nat
      /\ EnergyRange \in Nat \ {0}
  BY <1>1, SensorAssumption DEF Before
<1>4. /\ e + burnt[p] <= energy[p] /\ energy[p] <= energy[p]
      /\ e % EnergyRange \in Nat /\ energy[p] % EnergyRange \in Nat
  <2> HIDE DEF p
  <2>1. e + burnt[p] <= energy[p] /\ energy[p] <= energy[p]
    BY <1>2, <1>3
  <2>2. \A x \in Nat : x % EnergyRange \in Nat
    BY <1>3
  <2> QED
    BY <1>3, <2>1, <2>2
<1>5. /\ sample.package = p /\ sample.from = e % EnergyRange
      /\ sample.to = energy[p] % EnergyRange /\ sample \in EnergyRead
  BY <1>1, <1>2, <1>4 DEF EnergyUj, EnergyRead
<1>6. ReadOf(sample, begun, burnt)
  BY <1>2, <1>3, <1>4, <1>5 DEF ReadOf
<1>7. /\ samples \in Seq(EnergyRead)
      /\ \A k \in DOMAIN samples : ReadOf(samples[k], begun, burnt)
      /\ \A j, k \in DOMAIN samples : samples[j].package = samples[k].package => j = k
  BY DEF SamplesTo, SamplesOk
<1>8. Len(samples) \in Nat /\ DOMAIN samples = 1 .. Len(samples)
  BY <1>7, LenProperties
<1> HIDE DEF longer, m
<1>9. /\ longer \in Seq(EnergyRead) /\ Len(longer) = m /\ longer[m] = sample
      /\ \A k \in 1 .. Len(samples) : longer[k] = samples[k]
  BY <1>5, <1>7, AppendProperties DEF longer, m
<1>10. DOMAIN longer = DOMAIN samples \union {m} /\ m \notin DOMAIN samples
  BY <1>8, <1>9, LenProperties DEF m
<1>11. ASSUME NEW k \in DOMAIN samples PROVE longer[k] = samples[k] /\ samples[k].package # p
  <2>1. PICK i \in 1 .. (n - 1) : samples[k].package = powercap[i].package
    BY DEF SamplesTo
  <2>2. i \in DOMAIN powercap /\ n \in DOMAIN powercap /\ i # n
    BY <1>1
  <2> QED
    BY <1>8, <1>9, <2>1, <2>2 DEF LayoutOk
<1> HIDE DEF p
<1>12. ASSUME NEW k \in DOMAIN longer PROVE ReadOf(longer[k], begun, burnt)
  BY <1>6, <1>7, <1>9, <1>10, <1>11
<1>13. ASSUME NEW j \in DOMAIN longer, NEW k \in DOMAIN longer, longer[j].package = longer[k].package
       PROVE  j = k
  BY <1>5, <1>7, <1>9, <1>10, <1>11, <1>13
<1>14. ASSUME NEW k \in DOMAIN longer
       PROVE  \E i \in 1 .. n : longer[k].package = powercap[i].package
  <2>1. CASE k = m
    BY <1>5, <1>9, <2>1 DEF p
  <2>2. CASE k \in DOMAIN samples
    <3>1. PICK i \in 1 .. (n - 1) : samples[k].package = powercap[i].package
      BY <2>2 DEF SamplesTo
    <3>2. i \in 1 .. n
      OBVIOUS
    <3> QED
      BY <1>11, <2>2, <3>1, <3>2
  <2> QED
    BY <1>10, <2>1, <2>2
<1>15. SamplesOk(longer, begun, burnt)
  BY <1>9, <1>12, <1>13 DEF SamplesOk
<1> QED
  BY <1>14, <1>15 DEF SamplesTo, longer

LEMMA PowerInitially ==
  ASSUME SensorInit
  PROVE  PowerInv
<1>1. energy \in [Packages -> Nat] /\ instant \in 0 .. MaxSensorTime /\ instant = 0
  <2>1. instant = 0 /\ energy \in [Packages -> {0, EnergyRange - 1}]
    BY DEF SensorInit
  <2>2. EnergyRange - 1 \in Nat /\ MaxSensorTime \in Nat
    BY SensorAssumption
  <2> QED
    BY <2>1, <2>2
<1>2. Grown(energy)
  <2>1. ASSUME NEW p \in Packages
        PROVE  /\ energy[p] <= energy[p]
               /\ (energy[p] - energy[p]) * MaxSensorTime <= instant * (EnergyRange - 1)
    <3>1. energy[p] \in Nat /\ energy[p] - energy[p] = 0
      BY <1>1
    <3> QED
      BY <1>1, <3>1, SensorAssumption
  <2> QED
    BY <1>1, <2>1 DEF Grown
<1>3. meter.step = "rest"
  BY DEF SensorInit, AtRest
<1>4. EnergyOk
  BY <1>1, <1>2, <1>3 DEF EnergyOk
<1>5. MeterOk
  <2>1. meter = AtRest /\ evidence = None
    BY DEF SensorInit
  <2> QED
    BY <2>1 DEF MeterOk
<1> QED
  BY <1>4, <1>5, LayoutInit DEF PowerInv

LEMMA ReadsLater ==
  ASSUME LayoutOk, NEW begun, NEW read, NEW upto, ReadsOk(begun, read, upto), NEW later,
         \A p \in Packages : upto[p] \in Int /\ later[p] \in Int /\ upto[p] <= later[p],
         Len(read) <= Len(powercap)
  PROVE  ReadsOk(begun, read, later)
<1>1. read \in Seq(Nat \union {None})
  BY DEF ReadsOk
<1>2. Len(read) \in Nat /\ DOMAIN read = 1 .. Len(read) /\ Len(powercap) \in Nat
  BY <1>1, LenProperties, ZonesOf
<1>3. ASSUME NEW i \in DOMAIN read, read[i] # None
      PROVE  \E e \in Nat : /\ begun[powercap[i].package] <= e /\ e <= later[powercap[i].package]
                            /\ read[i] = e % EnergyRange
  <2> DEFINE p == powercap[i].package
  <2>1. p \in Packages
    BY <1>2, ZonesOf
  <2>2. PICK e \in Nat : begun[p] <= e /\ e <= upto[p] /\ read[i] = e % EnergyRange
    BY <1>3 DEF ReadsOk
  <2>3. e <= later[p]
    BY <2>1, <2>2
  <2> QED
    BY <2>2, <2>3
<1> QED
  BY <1>1, <1>3 DEF ReadsOk

\* The energies grow; everything that was read stays in its place.
LEMMA ElapseKeeps ==
  ASSUME PowerInv, Elapse
  PROVE  PowerInv'
<1>1. PICK course \in Courses :
        /\ instant < MaxSensorTime /\ instant' = instant + 1
        /\ energy' = [p \in Packages |-> energy[p] + course.energy[p]]
        /\ UNCHANGED <<layoutVars, powerVars, counterVars>>
  BY DEF Elapse
<1>2. /\ powercap' = powercap /\ hwmon' = hwmon /\ policies' = policies /\ meter' = meter
      /\ cpu_power_w' = cpu_power_w /\ evidence' = evidence
  BY <1>1 DEF layoutVars, powerVars
<1>3. ASSUME NEW p \in Packages
      PROVE  /\ energy[p] \in Nat /\ course.energy[p] \in Nat /\ energy'[p] = energy[p] + course.energy[p]
             /\ energy'[p] \in Nat /\ energy[p] <= energy'[p]
             /\ course.energy[p] * MaxSensorTime <= EnergyRange - 1
  <2>1. /\ energy[p] \in Nat /\ course.energy[p] \in Nat /\ energy'[p] = energy[p] + course.energy[p]
        /\ course.energy[p] * MaxSensorTime < EnergyRange
    BY <1>1, SensorAssumption DEF PowerInv, EnergyOk
  <2>2. course.energy[p] * MaxSensorTime \in Int
    BY <2>1, SensorAssumption
  <2> QED
    BY <2>1, <2>2, SensorAssumption
<1>4. energy' \in [Packages -> Nat] /\ instant' \in 0 .. MaxSensorTime /\ instant <= instant'
      /\ instant \in Nat
  BY <1>1, <1>3, SensorAssumption DEF PowerInv, EnergyOk
<1>5. EnergyOk'
  <2>1. PICK e0 : Grown(e0) /\ (meter.step # "rest" => \A p \in Packages : e0[p] <= meter.begun[p])
    BY DEF PowerInv, EnergyOk
  <2>2. ASSUME NEW p \in Packages
        PROVE  /\ e0[p] <= energy'[p]
               /\ (energy'[p] - e0[p]) * MaxSensorTime <= instant' * (EnergyRange - 1)
    <3> DEFINE x == energy[p] - e0[p]
               c == course.energy[p]
               M == MaxSensorTime
               R == EnergyRange - 1
    <3>1. e0[p] \in Nat /\ e0[p] <= energy[p] /\ x * M <= instant * R
      BY <2>1 DEF Grown
    <3>2. x \in Nat /\ c \in Nat /\ M \in Nat /\ R \in Nat /\ c * M <= R /\ instant \in Nat
      BY <1>3, <1>4, <3>1, SensorAssumption
    <3>3. energy'[p] - e0[p] = x + c /\ instant' = instant + 1 /\ e0[p] <= energy'[p]
      BY <1>1, <1>3, <3>1
    <3> HIDE DEF x, c, M, R
    <3>4. (x + c) * M <= (instant + 1) * R
      <4>1. (x + c) * M = x * M + c * M /\ (instant + 1) * R = instant * R + R
        BY <3>2
      <4>2. x * M \in Int /\ c * M \in Int /\ instant * R \in Int
        BY <3>2
      <4> QED
        BY <3>1, <3>2, <4>1, <4>2
    <3> QED
      BY <3>3, <3>4 DEF M, R
  <2>3. e0 \in [Packages -> Nat]
    BY <2>1 DEF Grown
  <2> QED
    BY <1>2, <1>4, <2>1, <2>2, <2>3 DEF EnergyOk, Grown
<1>6. ASSUME NEW begun, Before(begun)
      PROVE  begun \in [Packages -> Nat] /\ \A p \in Packages : begun[p] <= energy'[p]
  <2> SUFFICES ASSUME NEW p \in Packages PROVE begun[p] <= energy'[p]
    BY <1>6 DEF Before
  <2>1. begun[p] \in Nat /\ begun[p] <= energy[p]
    BY <1>6 DEF Before
  <2> QED
    BY <1>3, <2>1
<1>8. LayoutOk'
  BY <1>2 DEF PowerInv, LayoutOk
<1>9. ASSUME BaselinesOk PROVE BaselinesOk'
  <2>1. ReadsOk(meter.begun, meter.read, energy)
    BY <1>9 DEF BaselinesOk
  <2>2. Len(meter.read) <= Len(powercap)
    <3>1. Len(meter.read) \in Nat /\ Len(powercap) \in Nat
      BY <2>1, LenProperties, ZonesOf DEF ReadsOk, PowerInv
    <3> QED
      BY <1>9, <3>1 DEF BaselinesOk
  <2>3. \A p \in Packages : energy[p] \in Int /\ energy'[p] \in Int /\ energy[p] <= energy'[p]
    BY <1>3
  <2>5. LayoutOk
    BY DEF PowerInv
  <2>6. ReadsOk(meter.begun, meter.read, energy')
    BY <2>1, <2>2, <2>3, <2>5, ReadsLater
  <2>8. ReadsOk(meter.begun, meter.read, energy)'
    BY <1>2, <2>6 DEF ReadsOk
  <2>9. Before(meter.begun)'
    BY <1>2, <1>6, <1>9 DEF BaselinesOk, Before
  <2>10. BaselinesOk'
    BY <1>2, <1>9, <2>8, <2>9 DEF BaselinesOk
  <2> QED
    BY <2>10
<1>10. ASSUME SleepOk PROVE SleepOk'
  <2>2. Before(meter.begun)' /\ Before(meter.slept)'
    BY <1>2, <1>6, <1>10 DEF SleepOk, Before
  <2>3. meter.started <= instant'
    BY <1>4, <1>10 DEF SleepOk
  <2>4. ReadsOk(meter.begun, meter.read, meter.slept)'
    BY <1>2, <1>10 DEF SleepOk, ReadsOk
  <2>1. SleepOk'
    BY <1>2, <1>10, <2>2, <2>3, <2>4 DEF SleepOk
  <2> QED
    BY <1>2, <2>1
<1>11. ASSUME AgainOk PROVE AgainOk'
  <2>1. ReadsOk(meter.begun, meter.read, LessBurnt(meter.burnt)) /\ LayoutOk
    BY <1>11 DEF AgainOk, PowerInv
  <2>2. Len(meter.read) <= Len(powercap)
    <3>1. Len(powercap) \in Nat
      BY ZonesOf DEF PowerInv
    <3> QED
      BY <1>11, <3>1 DEF AgainOk
  <2>3. \A p \in Packages :
          /\ LessBurnt(meter.burnt)[p] \in Int /\ (LessBurnt(meter.burnt)')[p] \in Int
          /\ LessBurnt(meter.burnt)[p] <= (LessBurnt(meter.burnt)')[p]
    BY <1>2, <1>3, <1>11 DEF LessBurnt, AgainOk, Before
  <2>4. ReadsOk(meter.begun, meter.read, LessBurnt(meter.burnt)')
    BY <2>1, <2>2, <2>3, ReadsLater
  <2>5. ReadsOk(meter.begun, meter.read, LessBurnt(meter.burnt))'
    BY <1>2, <2>4 DEF ReadsOk, LessBurnt
  <2>6. Before(meter.begun)' /\ Before(meter.burnt)'
    BY <1>2, <1>6, <1>11 DEF AgainOk, Before
  <2>7. SamplesOk(meter.samples, meter.begun, meter.burnt)'
    <3>1. SamplesOk(meter.samples, meter.begun, meter.burnt)
      BY <1>11 DEF AgainOk
    <3>2. ASSUME NEW k \in DOMAIN meter.samples
          PROVE  ReadOf(meter.samples[k], meter.begun, meter.burnt)'
      <4> DEFINE r == meter.samples[k]
      <4>1. meter.samples[k].package \in Packages
        <5>1. meter.samples \in Seq(EnergyRead)
          BY <3>1 DEF SamplesOk
        <5>2. meter.samples[k] \in EnergyRead
          BY <5>1, LenProperties, ElementOfSeq
        <5> QED
          BY <5>2 DEF EnergyRead
      <4>2. PICK f \in Nat, t \in Nat :
              /\ meter.begun[r.package] <= f /\ f + meter.burnt[r.package] <= t
              /\ t <= energy[r.package]
              /\ r.from = f % EnergyRange /\ r.to = t % EnergyRange
        BY <3>1 DEF SamplesOk, ReadOf
      <4>3. t <= energy'[r.package]
        BY <1>3, <4>1, <4>2
      <4> QED
        BY <1>2, <4>2, <4>3 DEF ReadOf
    <3> QED
      BY <1>2, <3>1, <3>2 DEF SamplesOk
  <2>8. AgainOk'
    BY <1>2, <1>11, <2>5, <2>6, <2>7 DEF AgainOk
  <2> QED
    BY <1>2, <2>8
<1>12. MeterOk'
  <2>1. meter' = AtRest \/ (powercap' # <<>> /\ (BaselinesOk' \/ SleepOk' \/ AgainOk'))
    BY <1>2, <1>9, <1>10, <1>11 DEF PowerInv, MeterOk
  <2> QED
    BY <1>2, <2>1 DEF PowerInv, MeterOk, PowerReal, AtRest
<1> QED
  BY <1>5, <1>8, <1>12 DEF PowerInv
LEMMA EmptyReads ==
  ASSUME NEW begun, NEW upto
  PROVE  ReadsOk(begun, <<>>, upto) /\ Len(<<>>) = 0 /\ SamplesOk(<<>>, begun, upto)
<1>1. <<>> \in Seq(Nat \union {None}) /\ Len(<<>>) = 0 /\ <<>> \in Seq(EnergyRead)
  BY EmptySeq
<1>2. DOMAIN <<>> = {}
  BY <1>1, LenProperties
<1> QED
  BY <1>1, <1>2 DEF ReadsOk, SamplesOk

LEMMA SameWorld ==
  ASSUME PowerInv, UNCHANGED <<layoutVars, worldVars, counterVars>>
  PROVE  /\ LayoutOk' /\ energy' = energy /\ instant' = instant /\ powercap' = powercap
         /\ \A begun : Before(begun) => Before(begun)'
         /\ (meter'.step # "rest" => meter.step # "rest" /\ meter'.begun = meter.begun) => EnergyOk'
<1>1. energy' = energy /\ instant' = instant /\ powercap' = powercap /\ hwmon' = hwmon
      /\ policies' = policies
  BY DEF layoutVars, worldVars
<1> QED
  BY <1>1 DEF PowerInv, LayoutOk, Before, EnergyOk, Grown

LEMMA StartPowerKeeps ==
  ASSUME PowerInv, StartPower
  PROVE  PowerInv'
<1>1. /\ meter = AtRest /\ UNCHANGED <<layoutVars, worldVars, counterVars>>
      /\ evidence' = evidence
  BY DEF StartPower
<1>2. /\ LayoutOk' /\ energy' = energy /\ instant' = instant /\ powercap' = powercap
  BY <1>1, SameWorld
<1>3. CASE powercap = <<>>
  <2>1. meter' = meter /\ evidence' = None
    BY <1>1, <1>3 DEF StartPower, PowerInv, MeterOk
  <2>2. EnergyOk'
    BY <1>1, <2>1, SameWorld DEF AtRest
  <2>3. MeterOk'
    BY <1>1, <2>1, Zenon DEF MeterOk, AtRest
  <2> QED
    BY <1>2, <2>2, <2>3 DEF PowerInv
<1>4. CASE powercap # <<>>
  <2>1. /\ meter' = [step |-> "baselines", read |-> <<>>, begun |-> energy]
        /\ cpu_power_w' = cpu_power_w
    BY <1>4 DEF StartPower
  <2>2. EnergyOk'
    <3>1. PICK e0 : Grown(e0)
      BY DEF PowerInv, EnergyOk
    <3>2. Grown(e0)' /\ meter'.begun = energy
      BY <1>2, <2>1, <3>1 DEF Grown
    <3>3. \A p \in Packages : e0[p] <= meter'.begun[p]
      BY <3>1, <3>2 DEF Grown
    <3> QED
      BY <1>2, <3>2, <3>3 DEF EnergyOk, PowerInv
  <2>3. BaselinesOk'
    <3>1. Before(energy)
      <4>1. \A p \in Packages : energy[p] \in Nat
        BY DEF PowerInv, EnergyOk
      <4> QED
        BY <4>1 DEF Before, PowerInv, EnergyOk
    <3>2. Before(meter.begun)'
      BY <1>2, <2>1, <3>1 DEF Before
    <3>3. ReadsOk(meter.begun, meter.read, energy)'
      BY <1>2, <2>1, EmptyReads DEF ReadsOk
    <3>4. Len(meter'.read) < Len(powercap')
      BY <1>2, <1>4, <2>1, EmptyReads, ZonesOf DEF PowerInv
    <3> QED
      BY <2>1, <3>2, <3>3, <3>4 DEF BaselinesOk
  <2>4. MeterOk'
    <3>1. evidence' = evidence /\ powercap' # <<>>
      BY <1>1, <1>2, <1>4
    <3>2. evidence' # None => PowerReal(cpu_power_w', evidence')
      BY <1>1, <2>1, <1>4 DEF PowerInv, MeterOk
    <3>3. evidence' # None => PowerReal(cpu_power_w, evidence)'
      BY <3>2 DEF PowerReal
    <3> QED
      BY <2>3, <3>1, <3>3 DEF MeterOk
  <2> QED
    BY <1>2, <2>2, <2>4 DEF PowerInv
<1> QED
  BY <1>3, <1>4

LEMMA ReadBaselineKeeps ==
  ASSUME PowerInv, ReadBaseline
  PROVE  PowerInv'
<1> DEFINE n == Len(meter.read) + 1
           shortest == Min({powercap[i].window_us : i \in DOMAIN powercap})
<1>1. PICK readable \in BOOLEAN :
        LET read == Append(meter.read, IF readable THEN EnergyUj(powercap[n]) ELSE None)
        IN  /\ meter.step = "baselines"
            /\ IF n < Len(powercap)
               THEN meter' = [meter EXCEPT !.read = read] /\ UNCHANGED <<cpu_power_w, evidence>>
               ELSE IF shortest = 0
               THEN meter' = AtRest /\ cpu_power_w' = None /\ evidence' = None
               ELSE /\ meter' = [step |-> "sleep", read |-> read, begun |-> meter.begun,
                                 started |-> instant, until |-> instant + shortest, slept |-> energy]
                    /\ UNCHANGED <<cpu_power_w, evidence>>
            /\ UNCHANGED <<layoutVars, worldVars, counterVars>>
  BY DEF ReadBaseline
<1> DEFINE raw == IF readable THEN EnergyUj(powercap[n]) ELSE None
           read == Append(meter.read, raw)
<1>2. /\ LayoutOk' /\ energy' = energy /\ instant' = instant /\ powercap' = powercap
      /\ LayoutOk /\ energy \in [Packages -> Nat]
  BY <1>1, SameWorld DEF PowerInv, EnergyOk
<1>3. BaselinesOk /\ powercap # <<>>
  BY <1>1 DEF PowerInv, MeterOk, AtRest, SleepOk, AgainOk
<1>4. /\ ReadsOk(meter.begun, read, energy) /\ Len(read) = n /\ Len(meter.read) \in Nat
  BY <1>2, <1>3, BaselineAppended DEF BaselinesOk
<1>5. Before(meter.begun) /\ Before(energy)
  <2>1. \A p \in Packages : energy[p] \in Nat
    BY <1>2
  <2> QED
    BY <1>2, <1>3, <2>1 DEF Before, BaselinesOk
<1>6. Len(powercap) \in Nat /\ Len(meter.read) < Len(powercap)
  BY <1>2, <1>3, ZonesOf DEF BaselinesOk
<1>7. CASE n < Len(powercap)
  <2>1. meter' = [meter EXCEPT !.read = read] /\ cpu_power_w' = cpu_power_w /\ evidence' = evidence
    BY <1>1, <1>7
  <2> HIDE DEF read
  <2>2. meter' = [step |-> "baselines", read |-> read, begun |-> meter.begun]
    BY <1>3, <2>1 DEF BaselinesOk
  <2>3. EnergyOk'
    BY <1>1, <2>2, SameWorld
  <2>4. ReadsOk(meter.begun, meter.read, energy)' /\ Before(meter.begun)'
    BY <1>2, <1>4, <1>5, <2>2 DEF ReadsOk, Before
  <2>5. BaselinesOk'
    BY <1>2, <1>4, <1>7, <2>2, <2>4 DEF BaselinesOk
  <2>6. MeterOk'
    BY <1>2, <1>3, <2>1, <2>5 DEF MeterOk, PowerInv, PowerReal
  <2> QED
    BY <1>2, <2>3, <2>6 DEF PowerInv
<1>8. CASE ~(n < Len(powercap)) /\ shortest = 0
  <2>1. meter' = AtRest /\ cpu_power_w' = None /\ evidence' = None
    BY <1>1, <1>8
  <2>2. EnergyOk'
    BY <1>1, <2>1, SameWorld DEF AtRest
  <2>3. MeterOk'
    BY <2>1 DEF MeterOk, AtRest
  <2> QED
    BY <1>2, <2>2, <2>3 DEF PowerInv
<1>9. CASE ~(n < Len(powercap)) /\ shortest # 0
  <2>1. /\ meter' = [step |-> "sleep", read |-> read, begun |-> meter.begun,
                     started |-> instant, until |-> instant + shortest, slept |-> energy]
        /\ cpu_power_w' = cpu_power_w /\ evidence' = evidence
    BY <1>1, <1>9
  <2> HIDE DEF read, shortest
  <2>2. EnergyOk'
    BY <1>1, <2>1, SameWorld
  <2>3. /\ Before(meter.begun)' /\ Before(meter.slept)'
        /\ ReadsOk(meter.begun, meter.read, meter.slept)'
    BY <1>2, <1>4, <1>5, <2>1 DEF ReadsOk, Before
  <2>4. Len(meter'.read) = Len(powercap')
    BY <1>2, <1>4, <1>6, <1>9, <2>1
  <2>5. meter'.started \in Nat /\ meter'.started <= instant'
    BY <1>2, <2>1 DEF PowerInv, EnergyOk
  <2>6. SleepOk'
    BY <2>1, <2>3, <2>4, <2>5 DEF SleepOk
  <2>7. MeterOk'
    BY <1>2, <1>3, <2>1, <2>6 DEF MeterOk, PowerInv, PowerReal
  <2> QED
    BY <1>2, <2>2, <2>7 DEF PowerInv
<1> QED
  BY <1>7, <1>8, <1>9
LEMMA WakeUpKeeps ==
  ASSUME PowerInv, WakeUp
  PROVE  PowerInv'
<1> DEFINE burnt == [p \in Packages |-> energy[p] - meter.slept[p]]
           elapsed == Max({instant - meter.started, 1})
<1>1. /\ meter.step = "sleep"
      /\ meter' = [step |-> "again", read |-> meter.read, begun |-> meter.begun,
                   elapsed |-> elapsed, next |-> 1, samples |-> <<>>, burnt |-> burnt]
      /\ UNCHANGED <<layoutVars, worldVars, cpu_power_w, evidence, counterVars>>
  BY DEF WakeUp
<1>2. /\ LayoutOk' /\ energy' = energy /\ instant' = instant /\ powercap' = powercap
      /\ LayoutOk /\ energy \in [Packages -> Nat]
  BY <1>1, SameWorld DEF PowerInv, EnergyOk
<1>3. SleepOk /\ powercap # <<>>
  BY <1>1 DEF PowerInv, MeterOk, AtRest, BaselinesOk, AgainOk
<1>4. elapsed \in Nat /\ elapsed > 0
  <2>1. instant - meter.started \in Int
    BY <1>3 DEF SleepOk, PowerInv, EnergyOk
  <2>2. elapsed = IF instant - meter.started >= 1 THEN instant - meter.started ELSE 1
    BY <2>1, MaxOfTwo
  <2> QED
    BY <2>1, <2>2
<1>5. ASSUME NEW p \in Packages
      PROVE  /\ burnt[p] \in Nat /\ burnt[p] <= energy[p] /\ energy[p] - burnt[p] = meter.slept[p]
  <2>1. energy[p] \in Nat /\ meter.slept[p] \in Nat /\ meter.slept[p] <= energy[p]
    BY <1>2, <1>3 DEF SleepOk, Before
  <2> QED
    BY <2>1
<1>6. LessBurnt(burnt) = meter.slept
  <2>1. meter.slept = [p \in Packages |-> meter.slept[p]]
    BY <1>3 DEF SleepOk, Before
  <2>2. LessBurnt(burnt) = [p \in Packages |-> meter.slept[p]]
    BY <1>5 DEF LessBurnt
  <2> QED
    BY <2>1, <2>2
<1>7. Before(burnt)
  <2>1. burnt \in [Packages -> Nat]
    BY <1>5
  <2> HIDE DEF burnt
  <2> QED
    BY <1>5, <2>1 DEF Before
<1> HIDE DEF burnt, elapsed
<1>8. EnergyOk'
  BY <1>1, SameWorld
<1>9. Before(meter.begun)' /\ Before(meter.burnt)'
  BY <1>1, <1>2, <1>3, <1>7 DEF SleepOk, Before
<1>10. ReadsOk(meter.begun, meter.read, LessBurnt(meter.burnt))'
  <2>1. ReadsOk(meter.begun, meter.read, LessBurnt(burnt))
    BY <1>3, <1>6 DEF SleepOk
  <2>2. LessBurnt(meter.burnt)' = LessBurnt(burnt)
    BY <1>1, <1>2 DEF LessBurnt
  <2> QED
    BY <1>1, <1>2, <2>1, <2>2 DEF ReadsOk
<1>11. SamplesOk(meter.samples, meter.begun, meter.burnt)' /\ DOMAIN meter'.samples = {}
  <2>1. <<>> \in Seq(EnergyRead) /\ DOMAIN <<>> = {}
    BY EmptySeq
  <2> QED
    BY <1>1, <2>1 DEF SamplesOk
<1>12. Len(powercap) \in Nat /\ Len(powercap) > 0
  BY <1>2, <1>3, ZonesOf
<1>13. meter'.next \in 1 .. Len(powercap') /\ Len(meter'.read) = Len(powercap')
  BY <1>1, <1>2, <1>3, <1>12 DEF SleepOk
<1>14. AgainOk'
  BY <1>1, <1>4, <1>9, <1>10, <1>11, <1>13 DEF AgainOk
<1>15. MeterOk'
  BY <1>1, <1>2, <1>3, <1>14 DEF MeterOk, PowerInv, PowerReal
<1> QED
  BY <1>2, <1>8, <1>15 DEF PowerInv

LEMMA ReadAgainKeeps ==
  ASSUME PowerInv, ReadAgain
  PROVE  PowerInv'
<1> DEFINE n == meter.next
           sample == [package |-> powercap[n].package, from |-> meter.read[n],
                      to |-> EnergyUj(powercap[n])]
<1>1. PICK readable \in BOOLEAN :
        LET samples == IF meter.read[n] = None \/ ~readable THEN meter.samples
                       ELSE Append(meter.samples, sample)
        IN  /\ meter.step = "again"
            /\ IF n < Len(powercap)
               THEN /\ meter' = [meter EXCEPT !.next = n + 1, !.samples = samples]
                    /\ UNCHANGED <<cpu_power_w, evidence>>
               ELSE /\ meter' = AtRest
                    /\ cpu_power_w' = sum_rapl_watts(samples, meter.elapsed)
                    /\ evidence' = [total |-> [p \in Packages |-> energy[p] - meter.begun[p]],
                                    burnt |-> meter.burnt, samples |-> ToSet(samples)]
            /\ UNCHANGED <<layoutVars, worldVars, counterVars>>
  BY DEF ReadAgain
<1> DEFINE samples == IF meter.read[n] = None \/ ~readable THEN meter.samples
                      ELSE Append(meter.samples, sample)
<1>2. /\ LayoutOk' /\ energy' = energy /\ instant' = instant /\ powercap' = powercap
      /\ LayoutOk /\ energy \in [Packages -> Nat]
  BY <1>1, SameWorld DEF PowerInv, EnergyOk
<1>3. AgainOk /\ powercap # <<>>
  BY <1>1 DEF PowerInv, MeterOk, AtRest, BaselinesOk, SleepOk
<1>4. /\ n \in 1 .. Len(powercap) /\ Len(powercap) \in Nat
      /\ DOMAIN meter.read = 1 .. Len(powercap)
  <2>1. meter.read \in Seq(Nat \union {None}) /\ Len(meter.read) = Len(powercap)
    BY <1>3 DEF AgainOk, ReadsOk
  <2> QED
    BY <1>2, <1>3, <2>1, LenProperties, ZonesOf DEF AgainOk
<1>5. /\ SamplesOk(samples, meter.begun, meter.burnt)
      /\ \A k \in DOMAIN samples : \E i \in 1 .. n : samples[k].package = powercap[i].package
  <2>1. /\ SamplesOk(meter.samples, meter.begun, meter.burnt) /\ Before(meter.begun)
        /\ Before(meter.burnt) /\ ReadsOk(meter.begun, meter.read, LessBurnt(meter.burnt))
        /\ \A k \in DOMAIN meter.samples : \E i \in 1 .. (n - 1) :
             meter.samples[k].package = powercap[i].package
    BY <1>3 DEF AgainOk
  <2>2. CASE meter.read[n] = None \/ ~readable
    <3>1. samples = meter.samples
      BY <2>2
    <3>2. \A i \in 1 .. (n - 1) : i \in 1 .. n
      BY <1>4
    <3> HIDE DEF samples, n
    <3> QED
      BY <2>1, <3>1, <3>2
  <2>3. CASE meter.read[n] # None /\ readable
    <3>1. samples = Append(meter.samples, sample)
      BY <2>3
    <3>2. n \in DOMAIN meter.read /\ n \in 1 .. Len(powercap) /\ meter.read[n] # None
      BY <1>4, <2>3
    <3> HIDE DEF samples, n
    <3>3. SamplesTo(n - 1, meter.samples, meter.begun, meter.burnt)
      BY <2>1 DEF SamplesTo
    <3>4. SamplesTo(n, Append(meter.samples, sample), meter.begun, meter.burnt)
      BY <1>2, <2>1, <3>2, <3>3, SampleAppended
    <3> QED
      BY <3>1, <3>4 DEF SamplesTo
  <2> QED
    BY <2>2, <2>3
<1>6. Before(meter.begun) /\ Before(meter.burnt) /\ meter.elapsed \in Nat /\ meter.elapsed > 0
  BY <1>3 DEF AgainOk
<1>7. CASE n < Len(powercap)
  <2>1. /\ meter' = [meter EXCEPT !.next = n + 1, !.samples = samples]
        /\ cpu_power_w' = cpu_power_w /\ evidence' = evidence
    BY <1>1, <1>7
  <2> HIDE DEF samples
  <2>2. meter' = [step |-> "again", read |-> meter.read, begun |-> meter.begun,
                  elapsed |-> meter.elapsed, next |-> n + 1, samples |-> samples,
                  burnt |-> meter.burnt]
    <3> DEFINE r == meter.read
               b == meter.begun
               e == meter.elapsed
               s == meter.samples
               u == meter.burnt
    <3>1. meter = [step |-> "again", read |-> r, begun |-> b, elapsed |-> e, next |-> n,
                   samples |-> s, burnt |-> u]
      BY <1>3 DEF AgainOk
    <3> HIDE DEF r, b, e, s, u, n
    <3>2. meter' = [step |-> "again", read |-> r, begun |-> b, elapsed |-> e, next |-> n + 1,
                    samples |-> samples, burnt |-> u]
      BY <2>1, <3>1
    <3> QED
      BY <3>2 DEF r, b, e, u
  <2>3. EnergyOk'
    BY <1>1, <2>2, SameWorld
  <2>4. Before(meter.begun)' /\ Before(meter.burnt)'
    BY <1>2, <1>6, <2>2 DEF Before
  <2>5. ReadsOk(meter.begun, meter.read, LessBurnt(meter.burnt))'
    BY <1>2, <1>3, <2>2 DEF AgainOk, ReadsOk, LessBurnt
  <2>6. SamplesOk(meter.samples, meter.begun, meter.burnt)'
    BY <1>2, <1>5, <2>2 DEF SamplesOk, ReadOf
  <2>7. /\ \A k \in DOMAIN meter'.samples : \E i \in 1 .. (meter'.next - 1) :
             meter'.samples[k].package = powercap'[i].package
        /\ meter'.next \in 1 .. Len(powercap')
    <3>1. meter'.next = n + 1 /\ (n + 1) - 1 = n /\ n + 1 \in 1 .. Len(powercap)
      BY <1>4, <1>7, <2>2
    <3> QED
      BY <1>2, <1>5, <2>2, <3>1
  <2>8. AgainOk'
    BY <1>2, <1>3, <1>6, <2>2, <2>4, <2>5, <2>6, <2>7 DEF AgainOk
  <2>9. MeterOk'
    BY <1>2, <1>3, <2>1, <2>8 DEF MeterOk, PowerInv, PowerReal
  <2> QED
    BY <1>2, <2>3, <2>9 DEF PowerInv
<1>8. CASE ~(n < Len(powercap))
  <2> DEFINE power == sum_rapl_watts(samples, meter.elapsed)
             ev == [total |-> [p \in Packages |-> energy[p] - meter.begun[p]],
                    burnt |-> meter.burnt, samples |-> ToSet(samples)]
  <2>1. meter' = AtRest /\ cpu_power_w' = power /\ evidence' = ev
    BY <1>1, <1>8
  <2>2. EnergyOk'
    BY <1>1, <2>1, SameWorld DEF AtRest
  <2> HIDE DEF samples
  <2>3. WithinRange(meter.begun)
    BY <1>1, <1>6, BegunWithinRange DEF Before, PowerInv
  <2>4. PowerReal(power, ev)
    BY <1>2, <1>5, <1>6, <2>3, PowerSums DEF Before
  <2> HIDE DEF power, ev
  <2>5. PowerReal(cpu_power_w, evidence)'
    BY <2>1, <2>4 DEF PowerReal
  <2>6. MeterOk'
    BY <1>2, <1>3, <2>1, <2>5 DEF MeterOk, AtRest
  <2> QED
    BY <1>2, <2>2, <2>6 DEF PowerInv
<1> QED
  BY <1>7, <1>8

LEMMA PowerStep ==
  ASSUME PowerInv, [PowerNext \/ CountersNext]_sensorVars
  PROVE  PowerInv'
<1>1. ASSUME UNCHANGED <<layoutVars, worldVars, powerVars>> PROVE PowerInv'
  <2>1. /\ powercap' = powercap /\ hwmon' = hwmon /\ policies' = policies /\ meter' = meter
        /\ cpu_power_w' = cpu_power_w /\ evidence' = evidence /\ energy' = energy
        /\ instant' = instant
    BY <1>1 DEF layoutVars, worldVars, powerVars
  <2>2. LayoutOk' /\ EnergyOk'
    BY <2>1 DEF PowerInv, LayoutOk, EnergyOk, Grown
  <2>3. (BaselinesOk => BaselinesOk') /\ (SleepOk => SleepOk')
    BY <2>1 DEF BaselinesOk, SleepOk, Before, ReadsOk
  <2>4. AgainOk => AgainOk'
    BY <2>1 DEF AgainOk, Before, ReadsOk, LessBurnt, SamplesOk, ReadOf
  <2>5. MeterOk'
    BY <2>1, <2>3, <2>4 DEF PowerInv, MeterOk, AtRest, PowerReal
  <2> QED
    BY <2>2, <2>5 DEF PowerInv
<1>2. CASE UNCHANGED sensorVars
  BY <1>1, <1>2 DEF sensorVars
<1>3. CASE RefreshTemperature \/ RefreshCounters
  BY <1>1, <1>3 DEF RefreshTemperature, RefreshCounters
<1>4. CASE PowerNext
  BY <1>4, ElapseKeeps, StartPowerKeeps, ReadBaselineKeeps, WakeUpKeeps, ReadAgainKeeps DEF PowerNext
<1>5. CASE Elapse
  BY <1>5, ElapseKeeps
<1> QED
  BY <1>2, <1>3, <1>4, <1>5 DEF CountersNext
-----------------------------------------------------------------------------
LEMMA QuotientBetween ==
  ASSUME NEW a \in Nat, NEW b \in Nat \ {0}, NEW low \in Nat, NEW high \in Nat,
         low * b <= a, a <= high * b
  PROVE  a \div b \in Nat /\ low <= a \div b /\ a \div b <= high
<1> DEFINE q == a \div b
           r == a % b
<1>1. q \in Nat /\ r \in 0 .. (b - 1) /\ a = b * q + r
  OBVIOUS
<1> HIDE DEF q, r
<1>2. low <= q
  <2> SUFFICES ASSUME q + 1 <= low PROVE FALSE
    BY <1>1
  <2>1. (q + 1) * b <= low * b
    BY <1>1
  <2>2. (q + 1) * b = b * q + b /\ b * q \in Nat /\ low * b \in Nat
    BY <1>1
  <2> QED
    BY <1>1, <2>1, <2>2
<1>3. q <= high
  <2> SUFFICES ASSUME high + 1 <= q PROVE FALSE
    BY <1>1
  <2>1. (high + 1) * b <= q * b
    BY <1>1
  <2>2. (high + 1) * b = high * b + b /\ b * q \in Nat /\ high * b \in Nat /\ q * b = b * q
    BY <1>1
  <2> QED
    BY <1>1, <2>1, <2>2
<1> QED
  BY <1>1, <1>2, <1>3 DEF q

\* The weighted average lies between the slowest and the fastest policy.
LEMMA AverageBetween ==
  ASSUME LayoutOk, NEW readings \in [DOMAIN policies -> Frequencies],
         NEW shown, shown = {f \in Range(readings) : f # None /\ f > 0}, shown # {}
  PROVE  LET value == sample_frequency_mhz(readings)
         IN  value \in Nat /\ value >= Min(shown) /\ value <= Max(shown)
<1> DEFINE known == {i \in DOMAIN policies : readings[i] # None /\ readings[i] > 0}
           weight(i) == Max({policies[i].cpus, 1})
           w == [i \in known |-> weight(i)]
           v == [i \in known |-> readings[i] * weight(i)]
           read == [i \in known |-> readings[i]]
           low == Min(shown)
           high == Max(shown)
           lows == [i \in known |-> low * w[i]]
           highs == [i \in known |-> high * w[i]]
<1>1. /\ Len(policies) \in Nat /\ DOMAIN policies = 1 .. Len(policies)
      /\ \A i \in DOMAIN policies : policies[i].cpus \in Nat
  <2> DEFINE Policy == [cpus : Nat]
  <2>1. \A p \in Policy : p.cpus \in Nat
    OBVIOUS
  <2>2. policies \in Seq(Policy)
    BY DEF LayoutOk
  <2> HIDE DEF Policy
  <2> QED
    BY <2>1, <2>2, LenProperties, ElementOfSeq
<1>2. IsFiniteSet(known)
  <2>1. IsFiniteSet(1 .. Len(policies))
    BY <1>1, FS_Interval, Len(policies) \in Int, 1 \in Int
  <2> QED
    BY <1>1, <2>1, FS_Subset
<1>3. \A i \in known : readings[i] \in Nat /\ readings[i] > 0
  BY SensorAssumption
<1>4. \A i \in known : weight(i) \in Nat /\ weight(i) > 0
  <2> SUFFICES ASSUME NEW i \in known PROVE weight(i) \in Nat /\ weight(i) > 0
    OBVIOUS
  <2>1. policies[i].cpus \in Nat
    BY <1>1
  <2>2. weight(i) = IF policies[i].cpus >= 1 THEN policies[i].cpus ELSE 1
    BY <2>1, MaxOfTwo
  <2> QED
    BY <2>1, <2>2
<1>5. shown = {readings[i] : i \in known}
  BY DEF Range
<1>6. IsFiniteSet(shown)
  <2>1. read \in Surjection(known, shown)
    BY <1>5 DEF Surjection
  <2> QED
    BY <1>2, <2>1, FS_Surjection
<1>7. shown \subseteq Nat /\ known # {}
  BY <1>3, <1>5
<1>8. /\ low \in shown /\ (\A y \in shown : low <= y)
      /\ high \in shown /\ (\A y \in shown : high >= y)
  BY <1>6, <1>7, MinMember, MaxOfFinite
<1>9. sample_frequency_mhz(readings) = SumFunctionOnSet(v, known) \div SumFunctionOnSet(w, known)
  BY <1>7 DEF sample_frequency_mhz, SumFunction
<1> HIDE DEF weight, known, low, high
<1>10. ASSUME NEW i \in known
       PROVE  /\ low \in Nat /\ high \in Nat /\ w[i] \in Nat /\ w[i] > 0 /\ v[i] \in Nat
              /\ lows[i] = low * w[i] /\ highs[i] = high * w[i] /\ lows[i] \in Nat /\ highs[i] \in Nat
              /\ lows[i] <= v[i] /\ v[i] <= highs[i]
  <2>1. /\ readings[i] \in Nat /\ low \in Nat /\ high \in Nat /\ low <= readings[i]
        /\ readings[i] <= high
    BY <1>3, <1>5, <1>7, <1>8
  <2>2. weight(i) \in Nat /\ weight(i) > 0
    BY <1>4
  <2>3. /\ w[i] = weight(i) /\ v[i] = readings[i] * weight(i)
        /\ lows[i] = low * weight(i) /\ highs[i] = high * weight(i)
    OBVIOUS
  <2>4. /\ low * weight(i) <= readings[i] * weight(i)
        /\ readings[i] * weight(i) <= high * weight(i)
        /\ low * weight(i) \in Nat /\ readings[i] * weight(i) \in Nat /\ high * weight(i) \in Nat
    BY <2>1, <2>2
  <2> QED
    BY <2>1, <2>2, <2>3, <2>4
<1> HIDE DEF w, v, lows, highs
<1>11. low \in Nat /\ high \in Nat
  BY <1>7, <1>10
<1>12. /\ SumFunctionOnSet(lows, known) = low * SumFunctionOnSet(w, known)
       /\ SumFunctionOnSet(highs, known) = high * SumFunctionOnSet(w, known)
  <2>1. \A i \in known : /\ w[i] \in Int /\ lows[i] = low * w[i] /\ highs[i] = high * w[i]
    BY <1>10
  <2>2. low \in Int /\ high \in Int
    BY <1>11
  <2> QED
    BY <1>2, <2>1, <2>2, SumScales
<1>13. /\ SumFunctionOnSet(lows, known) <= SumFunctionOnSet(v, known)
       /\ SumFunctionOnSet(v, known) <= SumFunctionOnSet(highs, known)
       /\ SumFunctionOnSet(v, known) \in Nat /\ SumFunctionOnSet(w, known) \in Nat
  BY <1>2, <1>10, SumMonotone, SumIsNat
<1>14. SumFunctionOnSet(w, known) # 0
  <2>1. PICK i \in known : TRUE
    BY <1>7
  <2>2. SumFunctionOnSet(w, known) = w[i] + SumFunctionOnSet(w, known \ {i})
    BY <1>2, <1>10, SumRemoves
  <2>3. IsFiniteSet(known \ {i})
    BY <1>2, FS_Subset
  <2>4. SumFunctionOnSet(w, known \ {i}) \in Nat
    BY <1>10, <2>3, SumIsNat
  <2> QED
    BY <1>10, <2>2, <2>4
<1> DEFINE a == SumFunctionOnSet(v, known)
           b == SumFunctionOnSet(w, known)
<1>15. a \in Nat /\ b \in Nat \ {0} /\ low * b <= a /\ a <= high * b
  BY <1>12, <1>13, <1>14
<1> HIDE DEF a, b
<1>16. a \div b \in Nat /\ low <= a \div b /\ a \div b <= high
  BY <1>11, <1>15, QuotientBetween
<1> QED
  BY <1>9, <1>11, <1>16 DEF a, b, low, high

-----------------------------------------------------------------------------
\* The share of I/O wait: the counters it is taken from only run apart.
CountedOk ==
  /\ io_wait \in Nat /\ instant \in Nat
  /\ counted.previous # None =>
       /\ counted.previous.total \in Nat /\ counted.previous.io_wait \in Nat
       /\ counted.previous.total <= instant
       /\ io_wait - counted.previous.io_wait <= instant - counted.previous.total
  /\ counted.pct # None => counted.pct \in 0..100

LEMMA ShareOfTime ==
  ASSUME CountedOk, counted.previous # None,
         NEW current, current = [total |-> instant, io_wait |-> io_wait]
  PROVE  io_wait_percent(counted.previous, current) \in (0..100) \union {None}
<1> DEFINE a == Minus(current.io_wait, counted.previous.io_wait)
           b == Minus(current.total, counted.previous.total)
<1>1. a \in Nat /\ b \in Nat /\ a <= b
  BY DEF CountedOk, Minus
<1>2. io_wait_percent(counted.previous, current) = IF b = 0 THEN None ELSE (a * 100) \div b
  BY DEF io_wait_percent
<1> HIDE DEF a, b
<1>3. CASE b # 0
  <2> DEFINE m == a * 100
  <2>1. m \in Nat /\ b \in Nat \ {0} /\ 0 * b <= m /\ m <= 100 * b
    BY <1>1, <1>3
  <2> HIDE DEF m
  <2>2. m \div b \in Nat /\ 0 <= m \div b /\ m \div b <= 100
    BY <2>1, QuotientBetween
  <2> QED
    BY <1>2, <1>3, <2>2 DEF m
<1> QED
  BY <1>2, <1>3

LEMMA RunApart ==
  ASSUME NEW later \in Nat, NEW waited \in Nat, NEW then \in Nat, NEW was \in Nat,
         then <= later, waited - was <= later - then, NEW next \in Nat, next <= waited + 1
  PROVE  then <= later + 1 /\ next - was <= (later + 1) - then
OBVIOUS

LEMMA CountedStep ==
  ASSUME CountedOk, [PowerNext \/ CountersNext]_sensorVars
  PROVE  CountedOk'
<1>1. ASSUME UNCHANGED <<worldVars, counted>> PROVE CountedOk'
  BY <1>1 DEF CountedOk, worldVars
<1>2. CASE UNCHANGED sensorVars
  BY <1>1, <1>2 DEF sensorVars, counterVars
<1>3. CASE StartPower \/ ReadBaseline \/ WakeUp \/ ReadAgain
  BY <1>1, <1>3 DEF StartPower, ReadBaseline, WakeUp, ReadAgain, counterVars
<1>4. CASE RefreshTemperature
  BY <1>1, <1>4 DEF RefreshTemperature
<1>5. CASE Elapse
  <2>1. PICK course \in Courses :
          /\ instant' = instant + 1 /\ io_wait' = Max({io_wait + course.io_wait, 0})
          /\ counted' = counted
    BY <1>5 DEF Elapse, counterVars
  <2>2. course.io_wait \in Int /\ course.io_wait <= 1
    BY SensorAssumption
  <2>3. io_wait + course.io_wait \in Int /\ 0 \in Int
    BY <2>2 DEF CountedOk
  <2>4. io_wait' = IF io_wait + course.io_wait >= 0 THEN io_wait + course.io_wait ELSE 0
    BY <2>1, <2>3, MaxOfTwo
  <2> DEFINE p == counted.previous
  <2>5. p' = p /\ counted.pct' = counted.pct
    BY <2>1
  <2>6. instant' \in Nat /\ io_wait' \in Nat /\ io_wait' <= io_wait + 1
    BY <2>1, <2>2, <2>4 DEF CountedOk
  <2>7. p # None =>
          /\ p.total \in Nat /\ p.io_wait \in Nat /\ p.total <= instant
          /\ io_wait - p.io_wait <= instant - p.total
    BY DEF CountedOk
  <2> HIDE DEF p
  <2>8. instant \in Nat /\ io_wait \in Nat /\ (counted.pct # None => counted.pct \in 0..100)
    BY DEF CountedOk
  <2>9. p # None => p.total <= instant' /\ io_wait' - p.io_wait <= instant' - p.total
    <3> DEFINE total == p.total
               waited == p.io_wait
    <3> SUFFICES ASSUME p # None
                 PROVE  total <= instant' /\ io_wait' - waited <= instant' - total
      OBVIOUS
    <3>1. /\ total \in Nat /\ waited \in Nat /\ total <= instant
          /\ io_wait - waited <= instant - total
      BY <2>7
    <3>2. instant' = instant + 1
      BY <2>1
    <3>3. instant \in Nat /\ io_wait \in Nat
      BY <2>8
    <3>4. io_wait' \in Nat /\ io_wait' <= io_wait + 1
      BY <2>6
    <3> HIDE DEF total, waited
    <3>5. total <= instant + 1 /\ io_wait' - waited <= (instant + 1) - total
      BY <3>1, <3>3, <3>4, RunApart
    <3> QED
      BY <3>2, <3>5
  <2> QED
    BY <2>5, <2>6, <2>7, <2>8, <2>9 DEF CountedOk, p
<1>6. CASE RefreshCounters
  <2> DEFINE current == [total |-> instant, io_wait |-> io_wait]
  <2>1. PICK readable \in BOOLEAN :
          /\ counted' = [previous |-> IF readable THEN current ELSE counted.previous,
                         pct |-> IF readable /\ counted.previous # None
                                 THEN io_wait_percent(counted.previous, current) ELSE None,
                         reads |-> counted.reads + 1]
          /\ instant' = instant /\ io_wait' = io_wait
    BY <1>6 DEF RefreshCounters, worldVars
  <2>2. current.total = instant /\ current.io_wait = io_wait
    OBVIOUS
  <2>3. counted.previous # None =>
          io_wait_percent(counted.previous, current) \in (0..100) \union {None}
    BY ShareOfTime
  <2> HIDE DEF current
  <2>4. /\ counted.previous' = IF readable THEN current ELSE counted.previous
        /\ counted.pct' = IF readable /\ counted.previous # None
                          THEN io_wait_percent(counted.previous, current) ELSE None
    BY <2>1
  <2> QED
    BY <2>1, <2>2, <2>3, <2>4 DEF CountedOk
<1> QED
  BY <1>2, <1>3, <1>4, <1>5, <1>6 DEF PowerNext, CountersNext

\* The frequency is within what the policies report, and a temperature is shown when a
\* sensor gives one.
ClocksOk ==
  LET shown == {f \in Range(clocks.policies) : f # None /\ f > 0}
  IN  shown # {} => clocks.value >= Min(shown) /\ clocks.value <= Max(shown)

ThermalOk == thermal.value # None <=> \E raw \in Range(thermal.inputs) : Plausible(raw)

LEMMA HottestShown ==
  ASSUME LayoutOk, NEW inputs \in [DOMAIN hwmon -> Temperatures]
  PROVE  sample_temperature_c(hwmon, inputs) # None <=> \E raw \in Range(inputs) : Plausible(raw)
<1> DEFINE of(preferred) == {inputs[i] : i \in {i \in DOMAIN hwmon :
                               hwmon[i].preferred = preferred /\ Plausible(inputs[i])}}
<1>1. \A raw \in Temperatures : Plausible(raw) => raw \in 0 .. 150
  <2>1. Temperatures \subseteq Int \union {None}
    BY SensorAssumption
  <2> QED
    BY <2>1 DEF Plausible
<1>2. ASSUME NEW b \in BOOLEAN, of(b) # {} PROVE Max(of(b)) # None
  <2>1. of(b) \subseteq 0 .. 150
    BY <1>1
  <2>2. IsFiniteSet(of(b))
    BY <2>1, FS_Interval, FS_Subset, 0 \in Int, 150 \in Int
  <2> HIDE DEF of
  <2>3. of(b) \subseteq Int
    BY <2>1
  <2>4. Max(of(b)) \in of(b)
    BY <1>2, <2>2, <2>3, MaxOfFinite
  <2> QED
    BY <2>3, <2>4, SensorAssumption
<1>3. (\E raw \in Range(inputs) : Plausible(raw)) <=> of(TRUE) # {} \/ of(FALSE) # {}
  BY DEF Range, LayoutOk
<1>4. sample_temperature_c(hwmon, inputs) =
        IF of(TRUE) # {} THEN Max(of(TRUE)) ELSE IF of(FALSE) # {} THEN Max(of(FALSE)) ELSE None
  BY DEF sample_temperature_c
<1> HIDE DEF of
<1> QED
  BY <1>2, <1>3, <1>4

LEMMA ReadingsShown ==
  ASSUME LayoutOk, NEW readings \in [DOMAIN policies -> Frequencies], NEW other,
         NEW shown, shown = {f \in Range(readings) : f # None /\ f > 0}, shown # {}
  PROVE  LET value == Or(sample_frequency_mhz(readings), other)
         IN  value >= Min(shown) /\ value <= Max(shown)
<1>1. /\ sample_frequency_mhz(readings) \in Nat
      /\ sample_frequency_mhz(readings) >= Min(shown)
      /\ sample_frequency_mhz(readings) <= Max(shown)
  BY AverageBetween
<1>2. sample_frequency_mhz(readings) # None
  BY <1>1, SensorAssumption
<1> QED
  BY <1>1, <1>2 DEF Or

LEMMA ShownStep ==
  ASSUME LayoutOk, ClocksOk, ThermalOk, [PowerNext \/ CountersNext]_sensorVars
  PROVE  ClocksOk' /\ ThermalOk'
<1>1. ASSUME clocks' = clocks PROVE ClocksOk'
  BY <1>1 DEF ClocksOk
<1>2. ASSUME thermal' = thermal PROVE ThermalOk'
  BY <1>2 DEF ThermalOk
<1>3. CASE UNCHANGED sensorVars
  BY <1>1, <1>2, <1>3 DEF sensorVars, counterVars
<1>4. CASE StartPower \/ ReadBaseline \/ WakeUp \/ ReadAgain \/ Elapse
  BY <1>1, <1>2, <1>4 DEF StartPower, ReadBaseline, WakeUp, ReadAgain, Elapse, counterVars
<1>5. CASE RefreshTemperature
  <2>1. PICK inputs \in [DOMAIN hwmon -> Temperatures] :
          thermal' = [value |-> sample_temperature_c(hwmon, inputs), inputs |-> inputs]
    BY <1>5 DEF RefreshTemperature
  <2>2. thermal.value' = sample_temperature_c(hwmon, inputs) /\ thermal.inputs' = inputs
    BY <2>1
  <2>3. ThermalOk'
    BY <2>2, HottestShown DEF ThermalOk
  <2> QED
    BY <1>1, <1>5, <2>3 DEF RefreshTemperature
<1>6. CASE RefreshCounters
  <2>1. PICK readings \in [DOMAIN policies -> Frequencies], cpuinfo \in Frequencies :
          clocks' = [value |-> Or(sample_frequency_mhz(readings),
                                  IF cpuinfo = 0 THEN None ELSE cpuinfo),
                     policies |-> readings]
    BY <1>6 DEF RefreshCounters
  <2> DEFINE other == IF cpuinfo = 0 THEN None ELSE cpuinfo
             shown == {f \in Range(readings) : f # None /\ f > 0}
  <2>2. /\ clocks.value' = Or(sample_frequency_mhz(readings), other)
        /\ clocks.policies' = readings
    BY <2>1
  <2> HIDE DEF other
  <2>3. shown # {} =>
          /\ Or(sample_frequency_mhz(readings), other) >= Min(shown)
          /\ Or(sample_frequency_mhz(readings), other) <= Max(shown)
    BY ReadingsShown
  <2>4. ClocksOk'
    BY <2>2, <2>3 DEF ClocksOk
  <2> QED
    BY <1>2, <1>6, <2>4 DEF RefreshCounters
<1> QED
  BY <1>3, <1>4, <1>5, <1>6 DEF PowerNext, CountersNext

SensorInv == PowerInv /\ CountedOk /\ ClocksOk /\ ThermalOk

LEMMA SensorInitially ==
  ASSUME SensorInit
  PROVE  SensorInv
<1>1. CountedOk
  BY DEF SensorInit, CountedOk
<1>2. Range(<<>>) = {}
  BY EmptySeq DEF Range
<1>3. ClocksOk /\ ThermalOk
  BY <1>2 DEF SensorInit, ClocksOk, ThermalOk
<1> QED
  BY <1>1, <1>3, PowerInitially DEF SensorInv

\* What the panel shows of the CPUs was measured (SensorsAreMeasured).
THEOREM SensorsSafe == SensorSpec => []SensorsAreMeasured
<1>1. SensorInit => SensorInv
  BY SensorInitially
<1>2. SensorInv /\ [PowerNext \/ CountersNext]_sensorVars => SensorInv'
  BY PowerStep, CountedStep, ShownStep DEF SensorInv, PowerInv
<1>3. SensorInv => SensorsAreMeasured
  BY DEF SensorInv, PowerInv, MeterOk, PowerReal, CountedOk, ClocksOk, ThermalOk, SensorsAreMeasured
<1> QED
  BY <1>1, <1>2, <1>3, PTL DEF SensorSpec

-----------------------------------------------------------------------------
(* The CPU topology: what a detection makes of a machine.                  *)

TopologySpec == TopologyInit /\ [][TopologyNext]_topologyVars

-----------------------------------------------------------------------------
(* A machine.                                                              *)

Running == hardware \in Hardwares /\ running \in (SUBSET AllCpus) \ {{}}
Highest == Max(running)
Classes == {"P", "E", "L"}

LEMMA CpusAre ==
  ASSUME hardware \in Hardwares
  PROVE  /\ IsFiniteSet(AllCpus) /\ AllCpus \subseteq Nat
         /\ \A c \in AllCpus : 0 .. c \subseteq AllCpus
         /\ \A c \in AllCpus : hardware.core[c] \in DOMAIN hardware.class /\ ClassOf(c) \in Classes
         /\ Range(hardware.class) \subseteq Classes
         /\ IsFiniteSet(Range(hardware.class))
<1> DEFINE n == Cardinality(AllCpus)
<1>1. IsFiniteSet(AllCpus) /\ AllCpus # {} /\ AllCpus = 0 .. (n - 1)
  BY TopologyAssumption DEF AllCpus
<1>2. n \in Nat
  BY <1>1, FS_CardinalityType
<1> HIDE DEF n
<1>3. AllCpus \subseteq Nat /\ \A c \in AllCpus : 0 .. c \subseteq AllCpus
  BY <1>1, <1>2
<1>4. /\ \A c \in AllCpus : hardware.core[c] \in DOMAIN hardware.class
      /\ \A g \in DOMAIN hardware.class : hardware.class[g] \in Classes
  BY TopologyAssumption DEF AllCpus, Classes
<1>5. Range(hardware.class) \subseteq Classes
  BY <1>4 DEF Range
<1>6. IsFiniteSet(Classes)
  <2>1. Classes = {"P"} \union {"E"} \union {"L"}
    BY DEF Classes
  <2>2. IsFiniteSet({"P"})
    BY FS_Singleton
  <2>3. IsFiniteSet({"P"} \union {"E"})
    BY <2>2, FS_AddElement
  <2> QED
    BY <2>1, <2>3, FS_AddElement
<1> QED
  BY <1>1, <1>3, <1>4, <1>5, <1>6, FS_Subset DEF ClassOf

LEMMA RunningAre ==
  ASSUME Running
  PROVE  /\ IsFiniteSet(running) /\ running \subseteq Nat /\ running \subseteq AllCpus
         /\ Highest \in running /\ Highest \in Nat /\ Highest \in AllCpus /\ 0 .. Highest \subseteq AllCpus
         /\ running \subseteq 0 .. Highest
<1>1. /\ IsFiniteSet(AllCpus) /\ AllCpus \subseteq Nat
      /\ \A c \in AllCpus : 0 .. c \subseteq AllCpus
  BY CpusAre DEF Running
<1>2. running \subseteq AllCpus /\ running # {}
  BY DEF Running
<1>3. IsFiniteSet(running) /\ running \subseteq Nat /\ running \in SUBSET Int
  <2>1. running \in SUBSET AllCpus
    BY <1>2
  <2>2. IsFiniteSet(running)
    BY <1>1, <2>1, FS_Subset
  <2> QED
    BY <1>1, <1>2, <2>2
<1>4. Highest \in running /\ \A c \in running : Highest >= c
  BY <1>2, <1>3, MaxOfFinite DEF Highest
<1> HIDE DEF Highest
<1>5. running \subseteq 0 .. Highest
  BY <1>3, <1>4
<1>6. Highest \in AllCpus /\ Highest \in Nat
  BY <1>2, <1>3, <1>4
<1>7. 0 .. Highest \subseteq AllCpus
  BY <1>1, <1>6
<1> QED
  BY <1>2, <1>3, <1>4, <1>5, <1>6, <1>7

LEMMA UpAre ==
  ASSUME NEW read
  PROVE  /\ Up(read) \subseteq running
         /\ departs = None => Up(read) = running
  BY DEF Up

\* The CPUs that detection asks about, and how far they reach.
Asked == online_cpu_indices(Highest + 1)
Reach == Max(Asked)
Stays == IF departs = None THEN running ELSE running \ {departs.cpu}

LEMMA AskedAre ==
  ASSUME Running
  PROVE  /\ IsFiniteSet(Asked) /\ Asked \subseteq 0 .. Reach
         /\ Reach \in Nat /\ Reach \in Asked /\ Reach \in AllCpus /\ 0 .. Reach \subseteq AllCpus
         /\ Stays \subseteq Asked /\ Stays \subseteq running
         /\ departs = None => running \subseteq Asked /\ running \subseteq 0 .. Reach
         /\ departs = None /\ "online" \in offers => Asked = running
         /\ "online" \in offers /\ Stays # {} => Asked \subseteq running
<1>1. /\ IsFiniteSet(running) /\ running \subseteq Nat /\ running \subseteq AllCpus
      /\ Highest \in running /\ Highest \in Nat /\ Highest \in AllCpus /\ 0 .. Highest \subseteq AllCpus
      /\ running \subseteq 0 .. Highest
  BY RunningAre
<1>2. Asked = IF "online" \in offers /\ Up(ReadAt(0, 0)) # {} THEN Up(ReadAt(0, 0))
              ELSE 0 .. Highest
  <2> DEFINE n == Highest + 1
             U == Up(ReadAt(0, 0))
  <2>1. Asked = online_cpu_indices(n)
    BY DEF Asked
  <2>2. n - 1 = Highest
    BY <1>1
  <2>3. online_cpu_indices(n) = IF "online" \in offers /\ U # {} THEN U ELSE 0 .. (n - 1)
    BY DEF online_cpu_indices
  <2> HIDE DEF n, U
  <2>4. Asked = IF "online" \in offers /\ U # {} THEN U ELSE 0 .. Highest
    BY <2>1, <2>2, <2>3
  <2> QED
    BY <2>4 DEF U
<1>4. Asked \subseteq 0 .. Highest /\ Asked # {}
  BY <1>1, <1>2, UpAre
<1>5. IsFiniteSet(0 .. Highest)
  BY <1>1, UpTo
<1>6. IsFiniteSet(Asked) /\ Asked \in SUBSET Int
  <2>1. Asked \in SUBSET (0 .. Highest)
    BY <1>4
  <2>2. IsFiniteSet(Asked)
    BY <1>5, <2>1, FS_Subset
  <2>3. 0 .. Highest \subseteq Int
    BY <1>1
  <2> QED
    BY <2>1, <2>2, <2>3
<1>7. Reach \in Asked /\ \A c \in Asked : Reach >= c
  BY <1>4, <1>6, MaxOfFinite DEF Reach
<1>8. /\ Stays \subseteq running /\ departs = None => Stays = running
      /\ Stays \subseteq Up(ReadAt(0, 0)) /\ Up(ReadAt(0, 0)) \subseteq running
  BY DEF Stays, Up
<1>9. /\ Stays \subseteq Asked
      /\ "online" \in offers /\ Stays # {} => Asked = Up(ReadAt(0, 0))
  BY <1>1, <1>2, <1>8
<1>12. departs = None /\ "online" \in offers => Asked = running
  BY <1>1, <1>2, UpAre
<1> HIDE DEF Asked, Reach, Highest, Stays
<1>10. Reach \in Nat /\ Reach \in AllCpus
  BY <1>1, <1>4, <1>7
<1>11. 0 .. Reach \subseteq AllCpus /\ Asked \subseteq 0 .. Reach
  BY <1>1, <1>4, <1>7, <1>10
<1> QED
  BY <1>6, <1>7, <1>8, <1>9, <1>10, <1>11, <1>12

-----------------------------------------------------------------------------
(* The classes that a classification tells apart.                          *)

KindOf(class) ==
  IF class = "P" THEN "Performance" ELSE IF class = "E" THEN "Efficiency" ELSE "LowPower"

Masks == detect_kernel_core_groups(Reach + 1)
MasksTell == "masks" \in offers /\ Cardinality(Range(hardware.class)) > 1

\* Each CPU whose value is known gets a kind by its value, the P-cores the larger ones.
Classifies(kinds, values) ==
  /\ kinds \in [DOMAIN values -> {"Unknown", "Performance", "Efficiency"}]
  /\ \A c \in DOMAIN values : kinds[c] = "Unknown" <=> values[c] = None
  /\ \A c, d \in DOMAIN values : values[c] = values[d] => kinds[c] = kinds[d]
  /\ \A c, d \in DOMAIN values : kinds[c] = "Performance" /\ kinds[d] = "Efficiency" =>
       values[c] \in Nat /\ values[d] \in Nat /\ values[d] < values[c]

Values(values) == IsFiniteSet(DOMAIN values) /\ \A c \in DOMAIN values : values[c] \in Nat \union {None}

LEMMA KnownAre ==
  ASSUME NEW values, Values(values)
  PROVE  LET known == Range(values) \ {None}
         IN  /\ IsFiniteSet(known) /\ known \subseteq Nat
             /\ known # {} => /\ Max(known) \in known /\ \A n \in known : n <= Max(known)
                              /\ Min(known) \in known /\ \A n \in known : Min(known) <= n
<1> DEFINE known == Range(values) \ {None}
<1>1. IsFiniteSet(Range(values))
  BY FiniteImage DEF Values, Range
<1>2. IsFiniteSet(known)
  <2>1. known \in SUBSET Range(values)
    OBVIOUS
  <2> QED
    BY <1>1, <2>1, FS_Subset
<1>3. known \subseteq Nat
  BY DEF Values, Range
<1> HIDE DEF known
<1>4. ASSUME known # {}
      PROVE  /\ Max(known) \in known /\ \A n \in known : n <= Max(known)
             /\ Min(known) \in known /\ \A n \in known : Min(known) <= n
  <2>1. known \in SUBSET Int /\ known \in SUBSET Nat
    BY <1>3
  <2>2. Max(known) \in known /\ \A n \in known : Max(known) >= n
    BY <1>2, <1>4, <2>1, MaxOfFinite
  <2>3. Min(known) \in known /\ \A n \in known : Min(known) <= n
    BY <1>4, <2>1, MinMember
  <2> DEFINE m == Max(known)
  <2>4. m \in known /\ \A n \in known : m >= n
    BY <2>2
  <2> HIDE DEF m
  <2>5. \A n \in known : n <= m
    BY <1>3, <2>4
  <2> QED
    BY <2>2, <2>3, <2>5 DEF m
<1> QED
  BY <1>2, <1>3, <1>4 DEF known

LEMMA CapacityClassifies ==
  ASSUME NEW values, Values(values), NEW kinds, kinds = classify_capacity_values(values), kinds # None
  PROVE  Classifies(kinds, values)
<1> DEFINE known == Range(values) \ {None}
           split == (Min(known) + Max(known) + 1) \div 2
           found == [c \in DOMAIN values |-> IF values[c] = None THEN "Unknown"
                                             ELSE IF values[c] >= split THEN "Performance"
                                             ELSE "Efficiency"]
<1>1. kinds = found /\ known # {}
  BY DEF classify_capacity_values
<1>2. /\ known \subseteq Nat /\ Max(known) \in known /\ Min(known) \in known
  BY <1>1, KnownAre
<1>3. split \in Int
  <2> DEFINE m == Min(known)
             n == Max(known)
  <2>1. m \in Nat /\ n \in Nat
    BY <1>2
  <2> HIDE DEF m, n
  <2>2. (m + n + 1) \div 2 \in Int
    BY <2>1
  <2> QED
    BY <2>2 DEF m, n
<1>4. \A c \in DOMAIN values : values[c] = None \/ values[c] \in Nat
  BY DEF Values
<1>5. None \notin Nat
  BY TopologyAssumption
<1> HIDE DEF split, known
<1>6. \A c \in DOMAIN values : kinds[c] = IF values[c] = None THEN "Unknown"
                                          ELSE IF values[c] >= split THEN "Performance"
                                          ELSE "Efficiency"
  BY <1>1
<1>7. kinds \in [DOMAIN values -> {"Unknown", "Performance", "Efficiency"}]
  BY <1>1
<1>8. ASSUME NEW c \in DOMAIN values, NEW d \in DOMAIN values,
             kinds[c] = "Performance", kinds[d] = "Efficiency"
      PROVE  values[c] \in Nat /\ values[d] \in Nat /\ values[d] < values[c]
  <2>1. values[c] # None /\ values[c] >= split /\ values[d] # None /\ ~(values[d] >= split)
    BY <1>6, <1>8
  <2> QED
    BY <1>3, <1>4, <2>1
<1> HIDE DEF found
<1>9. \A c \in DOMAIN values : kinds[c] = "Unknown" <=> values[c] = None
  BY <1>6
<1>10. \A c, d \in DOMAIN values : values[c] = values[d] => kinds[c] = kinds[d]
  BY <1>6
<1> QED
  BY <1>7, <1>8, <1>9, <1>10 DEF Classifies

LEMMA SiblingsClassify ==
  ASSUME NEW values, Values(values), NEW kinds, kinds = classify_sibling_counts(values), kinds # None
  PROVE  Classifies(kinds, values)
<1> DEFINE known == Range(values) \ {None}
           most == Max(known)
           found == [c \in DOMAIN values |-> IF values[c] = None THEN "Unknown"
                                             ELSE IF values[c] = most THEN "Performance"
                                             ELSE "Efficiency"]
<1>1. kinds = found /\ Cardinality(known) = 2
  BY DEF classify_sibling_counts
<1>2. known # {}
  BY <1>1, FS_EmptySet
<1>3. known \subseteq Nat /\ most \in known /\ \A n \in known : n <= most
  BY <1>2, KnownAre
<1>4. \A c \in DOMAIN values : values[c] = None \/ (values[c] \in Nat /\ values[c] \in known)
  BY DEF Values, Range
<1> HIDE DEF most, known
<1>6. \A c \in DOMAIN values : kinds[c] = IF values[c] = None THEN "Unknown"
                                          ELSE IF values[c] = most THEN "Performance"
                                          ELSE "Efficiency"
  BY <1>1
<1>7. kinds \in [DOMAIN values -> {"Unknown", "Performance", "Efficiency"}]
  BY <1>1
<1> HIDE DEF found
<1>8. ASSUME NEW c \in DOMAIN values, NEW d \in DOMAIN values,
             kinds[c] = "Performance", kinds[d] = "Efficiency"
      PROVE  values[c] \in Nat /\ values[d] \in Nat /\ values[d] < values[c]
  <2>1. values[c] # None /\ values[c] = most /\ values[d] # None /\ values[d] # most
    BY <1>6, <1>8
  <2> QED
    BY <1>3, <1>4, <2>1
<1>9. \A c \in DOMAIN values : kinds[c] = "Unknown" <=> values[c] = None
  BY <1>6
<1>10. \A c, d \in DOMAIN values : values[c] = values[d] => kinds[c] = kinds[d]
  BY <1>6
<1> QED
  BY <1>7, <1>8, <1>9, <1>10 DEF Classifies

\* Two capacities that differ by 5 % are told apart.
LEMMA CapacitiesTell ==
  ASSUME NEW values, Values(values), NEW a \in DOMAIN values, NEW b \in DOMAIN values,
         values[a] \in Nat \ {0}, values[b] \in Nat, values[b] * 100 <= values[a] * 95,
         \A c \in DOMAIN values : values[c] \in {None, values[a], values[b]},
         \A kinds \in [DOMAIN values -> CoreKinds] : None # kinds
  PROVE  LET kinds == classify_capacity_values(values)
         IN  kinds # None /\ DOMAIN kinds = DOMAIN values
             /\ kinds[a] = "Performance" /\ kinds[b] = "Efficiency"
<1> DEFINE known == Range(values) \ {None}
           low == Min(known)
           high == Max(known)
           split == (low + high + 1) \div 2
           found == [c \in DOMAIN values |-> IF values[c] = None THEN "Unknown"
                                             ELSE IF values[c] >= split THEN "Performance"
                                             ELSE "Efficiency"]
           v == values[a]
           w == values[b]
<1>1. None \notin Nat
  BY TopologyAssumption
<1>2. v \in Nat /\ w \in Nat /\ v > 0 /\ w * 100 <= v * 95
  OBVIOUS
<1>3. v \in known /\ w \in known /\ known \subseteq {v, w}
  BY <1>1 DEF Range
<1>4. known # {}
  BY <1>3
<1>5. high \in known /\ (\A n \in known : n <= high) /\ low \in known /\ \A n \in known : low <= n
  BY <1>4, KnownAre
<1> HIDE DEF known, low, high, v, w
<1>6. w < v
  BY <1>2
<1>7. high = v /\ low = w
  BY <1>2, <1>3, <1>5, <1>6
<1>8. v >= split /\ ~(w >= split)
  <2>1. split = (w + v + 1) \div 2
    BY <1>7
  <2>2. v >= (w + v + 1) \div 2 /\ ~(w >= (w + v + 1) \div 2)
    BY <1>2, <1>6
  <2> QED
    BY <2>1, <2>2
<1>9. high # 0 /\ ~(low * 100 > high * 95)
  BY <1>2, <1>7
<1> HIDE DEF split
<1>10. found[a] = "Performance" /\ found[b] = "Efficiency"
  <2>1. v # None /\ w # None
    BY <1>1, <1>2
  <2>2. values[a] # None /\ values[a] >= split /\ values[b] # None /\ ~(values[b] >= split)
    BY <1>8, <2>1 DEF v, w
  <2> QED
    BY <2>2
<1>11. found \in [DOMAIN values -> CoreKinds]
  BY DEF CoreKinds
<1>12. has_both_core_kinds(found)
  <2>1. DOMAIN found = DOMAIN values
    OBVIOUS
  <2> HIDE DEF found
  <2> QED
    BY <1>10, <2>1 DEF has_both_core_kinds, Range
<1>13. classify_capacity_values(values) =
         IF known = {} THEN None
         ELSE IF high = 0 \/ low * 100 > high * 95 THEN None
         ELSE IF has_both_core_kinds(found) THEN found ELSE None
  BY DEF classify_capacity_values, known, low, high, split
<1>14. classify_capacity_values(values) = found
  BY <1>4, <1>9, <1>12, <1>13
<1>15. found # None /\ DOMAIN found = DOMAIN values
  BY <1>11
<1> QED
  BY <1>10, <1>14, <1>15

-----------------------------------------------------------------------------
(* What detection reads.                                                   *)

Steady == departs = None
ThreadsOf(c) == {d \in AllCpus : hardware.core[d] = hardware.core[c]}
Mates(c) == {d \in running : hardware.core[d] = hardware.core[c]}

LEMMA MasksAre ==
  ASSUME Running
  PROVE  /\ Masks \in [0 .. Reach -> CoreKinds]
         /\ \A c \in 0 .. Reach : Masks[c] # "Unknown" =>
              c \in running /\ Masks[c] = KindOf(ClassOf(c)) /\ MasksTell
         /\ departs = None /\ MasksTell =>
              \A c \in running : c \in 0 .. Reach => Masks[c] = KindOf(ClassOf(c))
<1> DEFINE n == Reach + 1
           L == cpus_mask("L", ReadAt(2, 2))
           E == cpus_mask("E", ReadAt(2, 1))
           P == cpus_mask("P", ReadAt(2, 0))
<1>1. n - 1 = Reach
  BY AskedAre
<1>2. detect_kernel_core_groups(n) =
        [c \in 0 .. (n - 1) |-> IF c \in L THEN "LowPower" ELSE IF c \in E THEN "Efficiency"
                                ELSE IF c \in P THEN "Performance" ELSE "Unknown"]
  BY DEF detect_kernel_core_groups
<1>3. Masks = detect_kernel_core_groups(n)
  BY DEF Masks
<1>4. ASSUME NEW class, NEW read
      PROVE  /\ \A c \in cpus_mask(class, read) : c \in running /\ ClassOf(c) = class /\ MasksTell
             /\ departs = None /\ MasksTell =>
                  \A c \in running : ClassOf(c) = class => c \in cpus_mask(class, read)
  BY UpAre DEF cpus_mask, MasksTell
<1>5. /\ \A c \in L : c \in running /\ ClassOf(c) = "L" /\ MasksTell
      /\ \A c \in E : c \in running /\ ClassOf(c) = "E" /\ MasksTell
      /\ \A c \in P : c \in running /\ ClassOf(c) = "P" /\ MasksTell
  BY <1>4
<1>6. departs = None /\ MasksTell =>
        \A c \in running : /\ ClassOf(c) = "L" => c \in L
                           /\ ClassOf(c) = "E" => c \in E
                           /\ ClassOf(c) = "P" => c \in P
  BY <1>4
<1>7. \A c \in running : ClassOf(c) \in Classes
  BY CpusAre, RunningAre DEF Running
<1> HIDE DEF n, L, E, P
<1>8. Masks = [c \in 0 .. Reach |-> IF c \in L THEN "LowPower" ELSE IF c \in E THEN "Efficiency"
                                    ELSE IF c \in P THEN "Performance" ELSE "Unknown"]
  BY <1>1, <1>2, <1>3
<1>9. Masks \in [0 .. Reach -> CoreKinds]
  BY <1>8 DEF CoreKinds
<1>10. \A c \in 0 .. Reach : Masks[c] # "Unknown" =>
         c \in running /\ Masks[c] = KindOf(ClassOf(c)) /\ MasksTell
  BY <1>5, <1>8 DEF KindOf
<1>11. ASSUME departs = None, MasksTell, NEW c \in running, c \in 0 .. Reach
       PROVE  Masks[c] = KindOf(ClassOf(c))
  BY <1>5, <1>6, <1>7, <1>8, <1>11 DEF KindOf, Classes
<1> QED
  BY <1>9, <1>10, <1>11

CapValues == [c \in 0 .. Reach |-> IF c \in Asked THEN cpu_capacity(c, ReadAt(3, c)) ELSE None]
Caps == classify_capacity_values(CapValues)

LEMMA CapsAre ==
  ASSUME Running
  PROVE  /\ detect_capacity_classes(Asked, Reach + 1) = Caps
         /\ DOMAIN CapValues = 0 .. Reach /\ Values(CapValues)
         /\ \A c \in 0 .. Reach : CapValues[c] # None =>
              c \in running /\ CapValues[c] = Capacity[ClassOf(c)] /\ "capacity" \in offers
         /\ Steady /\ "capacity" \in offers =>
              \A c \in running : c \in 0 .. Reach /\ CapValues[c] = Capacity[ClassOf(c)]
<1> DEFINE n == Reach + 1
<1>1. n - 1 = Reach /\ Reach \in Nat
  BY AskedAre
<1>2. detect_capacity_classes(Asked, n) =
        classify_capacity_values(
          [c \in 0 .. (n - 1) |-> IF c \in Asked THEN cpu_capacity(c, ReadAt(3, c)) ELSE None])
  BY DEF detect_capacity_classes
<1>3. detect_capacity_classes(Asked, n) = Caps
  <2> HIDE DEF n
  <2> QED
    BY <1>1, <1>2 DEF Caps, CapValues
<1>4. \A c \in 0 .. Reach : CapValues[c] # None =>
        c \in running /\ CapValues[c] = Capacity[ClassOf(c)] /\ "capacity" \in offers
  BY UpAre DEF CapValues, cpu_capacity
<1>5. \A c \in running : Capacity[ClassOf(c)] \in Nat
  <2>1. \A c \in running : ClassOf(c) \in Classes
    BY CpusAre, RunningAre DEF Running
  <2>2. {Capacity["P"], Capacity["E"], Capacity["L"]} \subseteq Nat
    BY TopologyAssumption
  <2> QED
    BY <2>1, <2>2 DEF Classes
<1>6. DOMAIN CapValues = 0 .. Reach /\ IsFiniteSet(0 .. Reach)
  BY <1>1, UpTo DEF CapValues
<1>7. Values(CapValues)
  BY <1>4, <1>5, <1>6 DEF Values
<1>8. ASSUME Steady, "capacity" \in offers, NEW c \in running
      PROVE  c \in 0 .. Reach /\ CapValues[c] = Capacity[ClassOf(c)]
  <2>1. c \in Asked /\ c \in 0 .. Reach
    BY <1>8, AskedAre DEF Steady
  <2>2. c \in Up(ReadAt(3, c))
    BY <1>8, UpAre DEF Steady
  <2> QED
    BY <1>8, <2>1, <2>2 DEF CapValues, cpu_capacity
<1> QED
  BY <1>3, <1>4, <1>6, <1>7, <1>8

Siblings == [c \in 0 .. Reach |-> IF c \in Asked THEN core_cpus_list(c, ReadAt(4, c)) ELSE None]
SibValues == [c \in 0 .. Reach |-> IF Siblings[c] = None THEN None ELSE Cardinality(Siblings[c])]
Sibs == classify_sibling_counts(SibValues)

LEMMA ListsAre ==
  ASSUME Running, NEW c, NEW read, core_cpus_list(c, read) # None
  PROVE  /\ c \in running /\ c \in core_cpus_list(c, read) /\ "list" \in offers
         /\ core_cpus_list(c, read) \subseteq Mates(c) /\ core_cpus_list(c, read) \subseteq ThreadsOf(c)
         /\ departs = None => core_cpus_list(c, read) = Mates(c)
  BY UpAre, RunningAre DEF core_cpus_list, Mates, ThreadsOf

LEMMA NoneIsNoList ==
  ASSUME Running
  PROVE  /\ \A s \in SUBSET AllCpus : None # s /\ None # <<"list", s>>
         /\ \A c \in AllCpus : None # <<"ids", hardware.core[c]>>
  BY TopologyAssumption DEF Running, AllCpus

LEMMA SibsAre ==
  ASSUME Running
  PROVE  /\ detect_smt_classes(Asked, Reach + 1) = Sibs
         /\ DOMAIN SibValues = 0 .. Reach /\ Values(SibValues)
         /\ \A c \in 0 .. Reach : SibValues[c] # None =>
              /\ c \in running /\ "list" \in offers
              /\ SibValues[c] >= 1 /\ SibValues[c] <= Cardinality(ThreadsOf(c))
              /\ departs = None => SibValues[c] = Cardinality(Mates(c))
         /\ Steady /\ "list" \in offers =>
              \A c \in running : c \in 0 .. Reach /\ SibValues[c] = Cardinality(Mates(c))
<1> DEFINE n == Reach + 1
<1>1. n - 1 = Reach /\ Reach \in Nat
  BY AskedAre
<1>2. detect_smt_classes(Asked, n) = Sibs
  <2> HIDE DEF n
  <2> DEFINE read == [c \in 0 .. (n - 1) |->
                        IF c \in Asked THEN core_cpus_list(c, ReadAt(4, c)) ELSE None]
  <2>1. read = Siblings
    BY <1>1 DEF Siblings
  <2>2. detect_smt_classes(Asked, n) =
          classify_sibling_counts(
            [c \in DOMAIN read |-> IF read[c] = None THEN None ELSE Cardinality(read[c])])
    BY DEF detect_smt_classes
  <2>3. DOMAIN Siblings = 0 .. Reach
    BY DEF Siblings
  <2> HIDE DEF read
  <2> QED
    BY <2>1, <2>2, <2>3 DEF Sibs, SibValues
<1>3. IsFiniteSet(AllCpus)
  BY CpusAre DEF Running
<1>4. ASSUME NEW c \in 0 .. Reach, SibValues[c] # None
      PROVE  /\ c \in running /\ "list" \in offers
             /\ SibValues[c] \in Nat /\ SibValues[c] >= 1
             /\ SibValues[c] <= Cardinality(ThreadsOf(c))
             /\ departs = None => SibValues[c] = Cardinality(Mates(c))
  <2> DEFINE s == core_cpus_list(c, ReadAt(4, c))
  <2>1. s # None /\ SibValues[c] = Cardinality(s)
    BY <1>4 DEF SibValues, Siblings
  <2>2. /\ c \in running /\ c \in s /\ "list" \in offers
        /\ s \subseteq ThreadsOf(c)
        /\ departs = None => s = Mates(c)
    BY <2>1, ListsAre
  <2> HIDE DEF s
  <2>3. IsFiniteSet(ThreadsOf(c)) /\ Cardinality(ThreadsOf(c)) \in Nat
    <3>1. ThreadsOf(c) \in SUBSET AllCpus
      BY DEF ThreadsOf
    <3> QED
      BY <1>3, <3>1, FS_Subset, FS_CardinalityType
  <2>4. s \in SUBSET ThreadsOf(c)
    BY <2>2
  <2>5. IsFiniteSet(s) /\ Cardinality(s) <= Cardinality(ThreadsOf(c)) /\ Cardinality(s) \in Nat
    BY <2>3, <2>4, FS_Subset, FS_CardinalityType
  <2>6. Cardinality(s) # 0
    BY <2>2, <2>5, FS_EmptySet
  <2> QED
    BY <2>1, <2>2, <2>5, <2>6
<1>5. DOMAIN SibValues = 0 .. Reach /\ IsFiniteSet(0 .. Reach)
  BY <1>1, UpTo DEF SibValues
<1>6. Values(SibValues)
  BY <1>4, <1>5 DEF Values
<1>7. ASSUME Steady, "list" \in offers, NEW c \in running
      PROVE  c \in 0 .. Reach /\ SibValues[c] = Cardinality(Mates(c))
  <2>1. c \in Asked /\ c \in 0 .. Reach
    BY <1>7, AskedAre DEF Steady
  <2>2. core_cpus_list(c, ReadAt(4, c)) = Mates(c)
    BY <1>7, UpAre DEF core_cpus_list, Mates, Steady
  <2>3. Mates(c) \in SUBSET AllCpus
    BY RunningAre DEF Mates
  <2>4. Mates(c) # None
    BY <2>3, NoneIsNoList
  <2> QED
    BY <1>7, <2>1, <2>2, <2>4 DEF SibValues, Siblings
<1> QED
  BY <1>2, <1>4, <1>5, <1>6, <1>7

-----------------------------------------------------------------------------
(* The classes that detection settles on.                                  *)

Kinds == ResolvedKinds(Asked, Reach + 1)
AllUnknown == [c \in 0 .. Reach |-> "Unknown"]

FromMasks == Kinds = Masks
FromCaps == ~has_multiple_core_kinds(Masks) /\ Caps # None /\ Kinds = Caps
FromSibs ==
  /\ ~has_multiple_core_kinds(Masks)
  /\ Caps = None \/ ~has_multiple_core_kinds(Caps)
  /\ hardware.vendor = "Intel" /\ Sibs # None /\ Kinds = Sibs

LEMMA ResolvedCases ==
  ASSUME Running
  PROVE  FromMasks \/ FromCaps \/ FromSibs \/ Kinds = AllUnknown
<1> DEFINE n == Reach + 1
           masks == detect_kernel_core_groups(n)
           caps == detect_capacity_classes(Asked, n)
           sibs == detect_smt_classes(Asked, n)
           capacities == Or(caps, masks)
           siblings == Or(sibs, capacities)
           first == IF has_multiple_core_kinds(masks) THEN masks ELSE capacities
           second == IF has_multiple_core_kinds(first) \/ hardware.vendor # "Intel"
                     THEN first ELSE siblings
<1>1. n - 1 = Reach
  BY AskedAre
<1>2. masks = Masks /\ caps = Caps /\ sibs = Sibs
  BY CapsAre, SibsAre DEF Masks
<1>3. ResolvedKinds(Asked, n) =
        IF has_multiple_core_kinds(second) THEN second ELSE [c \in 0 .. (n - 1) |-> "Unknown"]
  BY DEF ResolvedKinds
<1>4. Kinds = ResolvedKinds(Asked, n)
  BY DEF Kinds
<1> HIDE DEF n, masks, caps, sibs
<1>5. Kinds = IF has_multiple_core_kinds(second) THEN second ELSE AllUnknown
  BY <1>1, <1>3, <1>4 DEF AllUnknown
<1>6. capacities = (IF Caps # None THEN Caps ELSE Masks)
      /\ siblings = (IF Sibs # None THEN Sibs ELSE capacities)
  BY <1>2 DEF Or
<1> QED
  BY <1>2, <1>5, <1>6 DEF FromMasks, FromCaps, FromSibs

LEMMA KindsTyped ==
  ASSUME Running
  PROVE  /\ Kinds \in [0 .. Reach -> CoreKinds]
         /\ \A c \in 0 .. Reach : Kinds[c] # "Unknown" => c \in running
<1>1. CASE FromMasks
  BY <1>1, MasksAre DEF FromMasks
<1>2. CASE FromCaps
  <2>1. Classifies(Kinds, CapValues) /\ DOMAIN CapValues = 0 .. Reach
    BY <1>2, CapsAre, CapacityClassifies DEF FromCaps, Caps
  <2>2. Kinds \in [0 .. Reach -> CoreKinds]
    BY <2>1 DEF Classifies, CoreKinds
  <2> QED
    BY <2>1, <2>2, CapsAre DEF Classifies
<1>3. CASE FromSibs
  <2>1. Classifies(Kinds, SibValues) /\ DOMAIN SibValues = 0 .. Reach
    BY <1>3, SibsAre, SiblingsClassify DEF FromSibs, Sibs
  <2>2. Kinds \in [0 .. Reach -> CoreKinds]
    BY <2>1 DEF Classifies, CoreKinds
  <2> QED
    BY <2>1, <2>2, SibsAre DEF Classifies
<1>4. CASE Kinds = AllUnknown
  BY <1>4 DEF AllUnknown, CoreKinds
<1> QED
  BY <1>1, <1>2, <1>3, <1>4, ResolvedCases

\* On Intel a CPU with several threads up is one of a P-core.
LEMMA ManyThreads ==
  ASSUME Running, hardware.vendor = "Intel", NEW c \in AllCpus, ClassOf(c) # "P"
  PROVE  Cardinality(ThreadsOf(c)) = 1
<1> DEFINE h == hardware
<1>1. h \in Hardwares /\ h.vendor = "Intel" /\ c \in DOMAIN h.core /\ h.class[h.core[c]] # "P"
  BY DEF Running, AllCpus, ClassOf
<1>2. Cardinality({d \in DOMAIN h.core : h.core[d] = h.core[c]}) = 1
  BY <1>1, TopologyAssumption
<1> QED
  BY <1>2 DEF ThreadsOf, AllCpus

LEMMA SameThreads ==
  ASSUME Running, hardware.vendor = "Intel", NEW c \in AllCpus, NEW d \in AllCpus,
         ClassOf(c) = ClassOf(d)
  PROVE  Cardinality(ThreadsOf(c)) = Cardinality(ThreadsOf(d))
<1> DEFINE h == hardware
<1>1. h \in Hardwares /\ h.vendor = "Intel" /\ c \in DOMAIN h.core /\ d \in DOMAIN h.core
      /\ h.class[h.core[c]] = h.class[h.core[d]]
  BY DEF Running, AllCpus, ClassOf
<1>2. Cardinality({e \in DOMAIN h.core : h.core[e] = h.core[c]})
        = Cardinality({e \in DOMAIN h.core : h.core[e] = h.core[d]})
  BY <1>1, TopologyAssumption
<1> QED
  BY <1>2 DEF ThreadsOf, AllCpus

\* A P-core is never slower than an E-core, whatever went offline meanwhile.
LEMMA FasterIsPerformance ==
  ASSUME Running, NEW a \in 0 .. Reach, NEW b \in 0 .. Reach,
         Kinds[a] = "Performance", Kinds[b] = "Efficiency"
  PROVE  a \in AllCpus /\ b \in AllCpus /\ SpeedOf(ClassOf(a)) >= SpeedOf(ClassOf(b))
<1>1. a \in AllCpus /\ b \in AllCpus /\ ClassOf(a) \in Classes /\ ClassOf(b) \in Classes
  BY AskedAre, CpusAre DEF Running
<1>2. SpeedOf("P") = 3 /\ SpeedOf("E") = 2 /\ SpeedOf("L") = 1
  BY DEF SpeedOf
<1>3. CASE FromMasks
  <2>1. KindOf(ClassOf(a)) = "Performance" /\ KindOf(ClassOf(b)) = "Efficiency"
    BY <1>3, MasksAre DEF FromMasks
  <2>2. ClassOf(a) = "P" /\ ClassOf(b) = "E"
    BY <1>1, <2>1 DEF KindOf, Classes
  <2> QED
    BY <1>1, <1>2, <2>2
<1>4. CASE FromCaps
  <2>1. Classifies(Kinds, CapValues) /\ DOMAIN CapValues = 0 .. Reach
    BY <1>4, CapsAre, CapacityClassifies DEF FromCaps, Caps
  <2>2. CapValues[a] \in Nat /\ CapValues[b] \in Nat /\ CapValues[b] < CapValues[a]
    BY <2>1 DEF Classifies
  <2>3. CapValues[a] # None /\ CapValues[b] # None
    BY <2>2, TopologyAssumption
  <2>4. CapValues[a] = Capacity[ClassOf(a)] /\ CapValues[b] = Capacity[ClassOf(b)]
    BY <2>3, CapsAre
  <2> DEFINE p == Capacity["P"]
             e == Capacity["E"]
             l == Capacity["L"]
  <2>5. {p, e, l} \subseteq Nat /\ l <= e /\ e * 100 <= p * 95
    BY TopologyAssumption
  <2>6. CASE ClassOf(a) = "P"
    BY <1>1, <1>2, <2>6 DEF Classes
  <2>7. CASE ClassOf(a) = "E" /\ ClassOf(b) = "P"
    <3>1. p < e
      BY <2>2, <2>4, <2>7
    <3> HIDE DEF p, e, l
    <3> QED
      BY <2>5, <3>1
  <2>8. CASE ClassOf(a) = "L" /\ ClassOf(b) # "L"
    <3>1. p < l \/ e < l
      BY <1>1, <2>2, <2>4, <2>8 DEF Classes
    <3> HIDE DEF p, e, l
    <3> QED
      BY <2>5, <3>1
  <2> QED
    BY <1>1, <1>2, <2>6, <2>7, <2>8 DEF Classes
<1>5. CASE FromSibs
  <2>1. Classifies(Kinds, SibValues) /\ DOMAIN SibValues = 0 .. Reach
    BY <1>5, SibsAre, SiblingsClassify DEF FromSibs, Sibs
  <2>2. SibValues[a] \in Nat /\ SibValues[b] \in Nat /\ SibValues[b] < SibValues[a]
    BY <2>1 DEF Classifies
  <2>3. SibValues[a] # None /\ SibValues[b] # None
    BY <2>2, TopologyAssumption
  <2>4. SibValues[b] >= 1 /\ SibValues[a] <= Cardinality(ThreadsOf(a))
    BY <2>3, SibsAre
  <2>5. Cardinality(ThreadsOf(a)) # 1
    BY <2>2, <2>4
  <2>6. ClassOf(a) = "P"
    BY <1>1, <1>5, <2>5, ManyThreads DEF FromSibs
  <2> QED
    BY <1>1, <1>2, <2>6 DEF Classes
<1>6. CASE Kinds = AllUnknown
  BY <1>6 DEF AllUnknown
<1> QED
  BY <1>3, <1>4, <1>5, <1>6, ResolvedCases

\* While no CPU departs, the CPUs of a core are of one kind.
LEMMA KindsOfACore ==
  ASSUME Running, Steady, NEW c \in running, NEW d \in running,
         hardware.core[c] = hardware.core[d]
  PROVE  c \in 0 .. Reach /\ d \in 0 .. Reach /\ Kinds[c] = Kinds[d]
<1>1. c \in 0 .. Reach /\ d \in 0 .. Reach /\ ClassOf(c) = ClassOf(d)
  BY AskedAre DEF Steady, ClassOf
<1>2. CASE FromMasks
  <2>1. CASE MasksTell
    BY <1>1, <1>2, <2>1, MasksAre DEF FromMasks, Steady
  <2>2. CASE ~MasksTell
    BY <1>1, <1>2, <2>2, MasksAre DEF FromMasks
  <2> QED
    BY <2>1, <2>2
<1>3. CASE FromCaps
  <2>1. Classifies(Kinds, CapValues) /\ DOMAIN CapValues = 0 .. Reach
    BY <1>3, CapsAre, CapacityClassifies DEF FromCaps, Caps
  <2>2. CapValues[c] = CapValues[d]
    <3>1. CASE "capacity" \in offers
      BY <1>1, <3>1, CapsAre
    <3>2. CASE "capacity" \notin offers
      BY <1>1, <3>2, CapsAre
    <3> QED
      BY <3>1, <3>2
  <2> QED
    BY <1>1, <2>1, <2>2 DEF Classifies
<1>4. CASE FromSibs
  <2>1. Classifies(Kinds, SibValues) /\ DOMAIN SibValues = 0 .. Reach
    BY <1>4, SibsAre, SiblingsClassify DEF FromSibs, Sibs
  <2>2. SibValues[c] = SibValues[d]
    <3>1. CASE "list" \in offers
      <4>1. Mates(c) = Mates(d)
        BY DEF Mates
      <4> QED
        BY <1>1, <3>1, <4>1, SibsAre
    <3>2. CASE "list" \notin offers
      BY <1>1, <3>2, SibsAre
    <3> QED
      BY <3>1, <3>2
  <2> QED
    BY <1>1, <2>1, <2>2 DEF Classifies
<1>5. CASE Kinds = AllUnknown
  BY <1>1, <1>5 DEF AllUnknown
<1> QED
  BY <1>1, <1>2, <1>3, <1>4, <1>5, ResolvedCases

-----------------------------------------------------------------------------
(* The kinds are those of the hardware, where detection can tell them.     *)

Types == {ClassOf(c) : c \in running}
WholeCores == \A c \in running, d \in AllCpus : hardware.core[c] = hardware.core[d] => d \in running
Told == Cardinality(Types) > 1 /\ offers \intersect {"masks", "capacity"} # {}
Two == "L" \notin Types \/ "masks" \in offers
Exact(kinds) == kinds = [c \in 0 .. Reach |-> IF c \in running THEN KindOf(ClassOf(c)) ELSE "Unknown"]

LEMMA TypesAre ==
  ASSUME Running
  PROVE  Types \subseteq Classes /\ IsFiniteSet(Classes)
<1>1. \A c \in running : ClassOf(c) \in Classes
  BY CpusAre, RunningAre DEF Running
<1>2. Classes = {"P"} \union {"E"} \union {"L"}
  BY DEF Classes
<1>3. IsFiniteSet({"P"})
  BY FS_Singleton
<1>4. IsFiniteSet({"P"} \union {"E"})
  BY <1>3, FS_AddElement
<1>5. IsFiniteSet(Classes)
  BY <1>2, <1>4, FS_AddElement
<1> QED
  BY <1>1, <1>5 DEF Types

LEMMA SeveralKinds ==
  ASSUME Running, NEW kinds, DOMAIN kinds = 0 .. Reach, NEW c \in 0 .. Reach, NEW d \in 0 .. Reach,
         kinds[c] # kinds[d]
  PROVE  has_multiple_core_kinds(kinds)
<1>1. IsFiniteSet(0 .. Reach)
  BY AskedAre, UpTo
<1>2. IsFiniteSet({kinds[e] : e \in 0 .. Reach})
  BY <1>1, FiniteImage
<1>3. Range(kinds) = {kinds[e] : e \in 0 .. Reach}
  BY DEF Range
<1>4. IsFiniteSet(Range(kinds)) /\ kinds[c] \in Range(kinds) /\ kinds[d] \in Range(kinds)
  BY <1>2, <1>3
<1>5. Cardinality(Range(kinds)) >= 2
  BY <1>4, TwoMembers
<1> QED
  BY <1>5 DEF has_multiple_core_kinds

\* The masks tell two classes apart.
LEMMA MasksMultiple ==
  ASSUME Running, Steady, "masks" \in offers, NEW c \in running, NEW d \in running,
         ClassOf(c) # ClassOf(d)
  PROVE  has_multiple_core_kinds(Masks)
<1>1. c \in 0 .. Reach /\ d \in 0 .. Reach
  BY AskedAre DEF Steady
<1>2. c \in AllCpus /\ d \in AllCpus
  BY RunningAre
<1>3. ClassOf(c) \in Range(hardware.class) /\ ClassOf(d) \in Range(hardware.class)
  BY <1>2, CpusAre DEF ClassOf, Range, Running
<1>4. IsFiniteSet(Range(hardware.class))
  BY CpusAre DEF Running
<1>5. Cardinality(Range(hardware.class)) \in Nat /\ Cardinality(Range(hardware.class)) >= 2
  BY <1>3, <1>4, TwoMembers
<1>6. MasksTell
  BY <1>5 DEF MasksTell
<1>7. Masks[c] = KindOf(ClassOf(c)) /\ Masks[d] = KindOf(ClassOf(d))
  BY <1>1, <1>6, MasksAre DEF Steady
<1>8. ClassOf(c) \in Classes /\ ClassOf(d) \in Classes
  BY <1>2, CpusAre DEF Running
<1>9. Masks[c] # Masks[d]
  BY <1>7, <1>8 DEF KindOf, Classes
<1>10. DOMAIN Masks = 0 .. Reach
  BY MasksAre
<1> QED
  BY <1>1, <1>9, <1>10, SeveralKinds

\* The capacities of P-cores and E-cores do.
LEMMA CapsMultiple ==
  ASSUME Running, Steady, "capacity" \in offers, "L" \notin Types,
         NEW c \in running, NEW d \in running, ClassOf(c) # ClassOf(d)
  PROVE  Caps # None /\ has_multiple_core_kinds(Caps)
<1>1. \A e \in running : ClassOf(e) \in {"P", "E"} /\ e \in 0 .. Reach
  <2>1. \A e \in running : ClassOf(e) \in Classes
    BY CpusAre, RunningAre DEF Running
  <2>2. \A e \in running : ClassOf(e) # "L"
    BY DEF Types
  <2> QED
    BY <2>1, <2>2, AskedAre DEF Classes, Steady
<1>2. PICK a \in running, b \in running : ClassOf(a) = "P" /\ ClassOf(b) = "E"
  BY <1>1
<1>3. /\ DOMAIN CapValues = 0 .. Reach /\ Values(CapValues)
      /\ \A e \in 0 .. Reach : CapValues[e] # None => e \in running
      /\ \A e \in running : CapValues[e] = Capacity[ClassOf(e)]
  BY CapsAre
<1> DEFINE p == Capacity["P"]
           q == Capacity["E"]
<1>4. p \in Nat \ {0} /\ q \in Nat /\ q * 100 <= p * 95
  BY TopologyAssumption
<1>5. CapValues[a] = p /\ CapValues[b] = q
  BY <1>2, <1>3
<1>6. \A e \in 0 .. Reach : CapValues[e] \in {None, p, q}
  BY <1>1, <1>3
<1>7. \A kinds \in [0 .. Reach -> CoreKinds] : None # kinds
  <2>1. Reach \in AllCpus
    BY AskedAre
  <2> QED
    BY <2>1, TopologyAssumption DEF Running, AllCpus
<1>8. a \in 0 .. Reach /\ b \in 0 .. Reach
  BY <1>1
<1> HIDE DEF p, q
<1>9. /\ a \in DOMAIN CapValues /\ b \in DOMAIN CapValues
      /\ CapValues[a] \in Nat \ {0} /\ CapValues[b] \in Nat /\ CapValues[b] * 100 <= CapValues[a] * 95
      /\ \A e \in DOMAIN CapValues : CapValues[e] \in {None, CapValues[a], CapValues[b]}
      /\ \A kinds \in [DOMAIN CapValues -> CoreKinds] : None # kinds
  <2> HIDE DEF CapValues, CoreKinds
  <2>1. CapValues[b] * 100 <= CapValues[a] * 95
    BY <1>4, <1>5
  <2> QED
    BY <1>3, <1>4, <1>5, <1>6, <1>7, <1>8, <2>1
<1>10. Caps # None /\ DOMAIN Caps = 0 .. Reach /\ Caps[a] = "Performance" /\ Caps[b] = "Efficiency"
  <2> HIDE DEF CapValues, CoreKinds
  <2>1. LET kinds == classify_capacity_values(CapValues)
        IN  kinds # None /\ DOMAIN kinds = DOMAIN CapValues
            /\ kinds[a] = "Performance" /\ kinds[b] = "Efficiency"
    BY <1>3, <1>9, CapacitiesTell
  <2> QED
    BY <1>3, <2>1 DEF Caps
<1>11. Caps[a] # Caps[b]
  BY <1>10
<1> QED
  BY <1>8, <1>10, <1>11, SeveralKinds

\* Values that go with the classes P and E classify exactly.
LEMMA ClassifiesExactly ==
  ASSUME Running, Steady, NEW values, Classifies(Kinds, values), DOMAIN values = 0 .. Reach,
         \A c \in 0 .. Reach : values[c] # None => c \in running,
         \A c \in running : ClassOf(c) \in {"P", "E"},
         \A c, d \in running : ClassOf(c) = ClassOf(d) => values[c] = values[d],
         NEW a \in running, NEW b \in running, ClassOf(a) = "P", ClassOf(b) = "E",
         Kinds[a] = "Performance", Kinds[b] = "Efficiency"
  PROVE  Exact(Kinds)
<1>1. Kinds \in [0 .. Reach -> CoreKinds]
  BY KindsTyped
<1>2. ASSUME NEW c \in 0 .. Reach
      PROVE  Kinds[c] = IF c \in running THEN KindOf(ClassOf(c)) ELSE "Unknown"
  <2>1. CASE c \notin running
    BY <2>1 DEF Classifies
  <2>2. CASE c \in running
    <3>1. a \in 0 .. Reach /\ b \in 0 .. Reach
      BY AskedAre DEF Steady
    <3>2. CASE ClassOf(c) = "P"
      <4>1. Kinds[c] = Kinds[a]
        BY <2>2, <3>1, <3>2 DEF Classifies
      <4> QED
        BY <2>2, <3>2, <4>1 DEF KindOf
    <3>3. CASE ClassOf(c) = "E"
      <4>1. Kinds[c] = Kinds[b]
        BY <2>2, <3>1, <3>3 DEF Classifies
      <4> QED
        BY <2>2, <3>3, <4>1 DEF KindOf
    <3> QED
      BY <2>2, <3>2, <3>3
  <2> QED
    BY <2>1, <2>2
<1> QED
  BY <1>1, <1>2 DEF Exact

\* In the two fall-backs there are only P-cores and E-cores.
LEMMA OnlyTwo ==
  ASSUME Running, Steady, Two, ~has_multiple_core_kinds(Masks),
         NEW a \in running, NEW b \in running, ClassOf(a) # ClassOf(b)
  PROVE  "masks" \notin offers /\ "L" \notin Types /\ \A c \in running : ClassOf(c) \in {"P", "E"}
<1>1. "masks" \notin offers
  BY MasksMultiple
<1>2. "L" \notin Types
  BY <1>1 DEF Two
<1>3. \A c \in running : ClassOf(c) \in Classes
  BY CpusAre, RunningAre DEF Running
<1>4. \A c \in running : ClassOf(c) \in Types
  BY DEF Types
<1> QED
  BY <1>1, <1>2, <1>3, <1>4 DEF Classes

LEMMA KindsExact ==
  ASSUME Running, Steady, WholeCores \/ Told, Two, has_both_core_kinds(Kinds)
  PROVE  Exact(Kinds)
<1>1. PICK a \in 0 .. Reach, b \in 0 .. Reach : Kinds[a] = "Performance" /\ Kinds[b] = "Efficiency"
  <2>1. "Performance" \in Range(Kinds) /\ "Efficiency" \in Range(Kinds)
    BY DEF has_both_core_kinds
  <2>2. DOMAIN Kinds = 0 .. Reach
    BY KindsTyped
  <2> QED
    BY <2>1, <2>2 DEF Range
<1>2. a \in running /\ b \in running
  BY <1>1, KindsTyped
<1>3. ClassOf(a) \in Classes /\ ClassOf(b) \in Classes
  BY <1>2, CpusAre, RunningAre DEF Running
<1>4. SpeedOf(ClassOf(a)) >= SpeedOf(ClassOf(b))
  BY <1>1, FasterIsPerformance
<1>5. ClassOf(a) \in {"P", "E"} /\ ClassOf(b) \in {"P", "E"} /\ ClassOf(a) # ClassOf(b)
        => ClassOf(a) = "P" /\ ClassOf(b) = "E"
  <2>1. SpeedOf("P") = 3 /\ SpeedOf("E") = 2
    BY DEF SpeedOf
  <2> QED
    BY <1>4, <2>1
<1>6. CASE FromMasks
  <2>1. MasksTell /\ \A c \in 0 .. Reach : Kinds[c] # "Unknown" => c \in running
    BY <1>1, <1>6, MasksAre DEF FromMasks
  <2>2. Kinds \in [0 .. Reach -> CoreKinds]
    BY KindsTyped
  <2>3. \A c \in 0 .. Reach : Kinds[c] = IF c \in running THEN KindOf(ClassOf(c)) ELSE "Unknown"
    BY <1>6, <2>1, MasksAre DEF FromMasks, Steady
  <2> QED
    BY <2>2, <2>3 DEF Exact
<1>7. CASE FromCaps
  <2>1. Classifies(Kinds, CapValues) /\ DOMAIN CapValues = 0 .. Reach
    BY <1>7, CapsAre, CapacityClassifies DEF FromCaps, Caps
  <2>2. CapValues[a] \in Nat /\ CapValues[b] \in Nat /\ CapValues[b] < CapValues[a]
    BY <1>1, <2>1 DEF Classifies
  <2>3. CapValues[a] # None /\ CapValues[b] # None
    BY <2>2, TopologyAssumption
  <2>4. /\ CapValues[a] = Capacity[ClassOf(a)] /\ CapValues[b] = Capacity[ClassOf(b)]
        /\ "capacity" \in offers
    BY <1>1, <2>3, CapsAre
  <2>5. ClassOf(a) # ClassOf(b)
    BY <2>2, <2>4
  <2>6. \A c \in running : ClassOf(c) \in {"P", "E"}
    BY <1>2, <1>7, <2>5, OnlyTwo DEF FromCaps
  <2>7. ClassOf(a) = "P" /\ ClassOf(b) = "E"
    BY <1>2, <1>5, <2>5, <2>6
  <2>8. /\ \A c \in 0 .. Reach : CapValues[c] # None => c \in running
        /\ \A c \in running : CapValues[c] = Capacity[ClassOf(c)]
    BY <2>4, CapsAre
  <2>9. \A c, d \in running : ClassOf(c) = ClassOf(d) => CapValues[c] = CapValues[d]
    BY <2>8
  <2> HIDE DEF CapValues
  <2> QED
    BY <1>1, <1>2, <2>1, <2>6, <2>7, <2>8, <2>9, ClassifiesExactly
<1>8. CASE FromSibs
  <2>1. Classifies(Kinds, SibValues) /\ DOMAIN SibValues = 0 .. Reach
    BY <1>8, SibsAre, SiblingsClassify DEF FromSibs, Sibs
  <2>2. SibValues[a] \in Nat /\ SibValues[b] \in Nat /\ SibValues[b] < SibValues[a]
    BY <1>1, <2>1 DEF Classifies
  <2>3. SibValues[a] # None /\ SibValues[b] # None
    BY <2>2, TopologyAssumption
  <2>4. /\ "list" \in offers
        /\ \A c \in 0 .. Reach : SibValues[c] # None => c \in running
        /\ \A c \in running : SibValues[c] = Cardinality(Mates(c))
    BY <1>1, <2>3, SibsAre DEF Steady
  <2>5. WholeCores
    <3> SUFFICES ASSUME ~WholeCores PROVE FALSE
      OBVIOUS
    <3>1. Told
      OBVIOUS
    <3>2. IsFiniteSet(Types)
      <4>1. Types \subseteq Classes /\ IsFiniteSet(Classes)
        BY TypesAre
      <4>2. Types \in SUBSET Classes
        BY <4>1
      <4> QED
        BY <4>1, <4>2, FS_Subset
    <3>3. PICK c \in running, d \in running : ClassOf(c) # ClassOf(d)
      <4>1. PICK x \in Types, y \in Types : x # y
        BY <3>1, <3>2, MoreThanOne DEF Told
      <4> QED
        BY <4>1 DEF Types
    <3>4. "masks" \notin offers /\ "L" \notin Types
      BY <1>8, <3>3, OnlyTwo DEF FromSibs
    <3>5. "capacity" \in offers
      BY <3>1, <3>4 DEF Told
    <3> QED
      BY <1>8, <3>3, <3>4, <3>5, CapsMultiple DEF FromSibs
  <2>6. \A c \in running : Mates(c) = ThreadsOf(c) /\ c \in AllCpus
    BY <2>5, RunningAre DEF WholeCores, Mates, ThreadsOf
  <2>7. \A c, d \in running : ClassOf(c) = ClassOf(d) => SibValues[c] = SibValues[d]
    BY <1>8, <2>4, <2>6, SameThreads DEF FromSibs
  <2>8. ClassOf(a) # ClassOf(b)
    BY <1>2, <2>2, <2>7
  <2>9. \A c \in running : ClassOf(c) \in {"P", "E"}
    BY <1>2, <1>8, <2>8, OnlyTwo DEF FromSibs
  <2>10. ClassOf(a) = "P" /\ ClassOf(b) = "E"
    BY <1>2, <1>5, <2>8, <2>9
  <2> HIDE DEF SibValues
  <2> QED
    BY <1>1, <1>2, <2>1, <2>4, <2>7, <2>9, <2>10, ClassifiesExactly
<1>9. CASE Kinds = AllUnknown
  BY <1>1, <1>9 DEF AllUnknown
<1> QED
  BY <1>6, <1>7, <1>8, <1>9, ResolvedCases

-----------------------------------------------------------------------------
(* The cores.                                                              *)

Groups == read_core_groups(Asked, Reach + 1)
NoGroups == \A c \in 0 .. Reach : Groups[c] = None
TrueGroups ==
  /\ \A c \in 0 .. Reach : Groups[c] # None <=> c \in running
  /\ \A c, d \in running : Groups[c] = Groups[d] <=> hardware.core[c] = hardware.core[d]

LEMMA GroupOnline ==
  ASSUME NEW c, read_core_group(c) # None
  PROVE  c \in running
  BY UpAre DEF read_core_group, core_cpus_list

LEMMA GroupsAre ==
  ASSUME Running, Steady
  PROVE  DOMAIN Groups = 0 .. Reach /\ (NoGroups \/ TrueGroups)
<1> DEFINE n == Reach + 1
<1>1. n - 1 = Reach
  BY AskedAre
<1>2. Groups = read_core_groups(Asked, n)
  BY DEF Groups
<1>3. running \subseteq Asked /\ running \subseteq 0 .. Reach
  BY AskedAre DEF Steady
<1> HIDE DEF n
<1>4. Groups = [c \in 0 .. Reach |-> IF c \in running THEN read_core_group(c) ELSE None]
  <2>1. Groups = [c \in 0 .. Reach |-> IF c \in Asked THEN read_core_group(c) ELSE None]
    BY <1>1, <1>2 DEF read_core_groups
  <2>2. \A c : read_core_group(c) # None => c \in running
    BY GroupOnline
  <2> QED
    BY <1>3, <2>1, <2>2
<1>5. ASSUME NEW c \in running
      PROVE  /\ Groups[c] = read_core_group(c) /\ c \in AllCpus
             /\ Mates(c) # None /\ <<"list", Mates(c)>> # None /\ <<"ids", hardware.core[c]>> # None
             /\ "list" \in offers => core_cpus_list(c, ReadAt(1, c)) = Mates(c)
             /\ "list" \notin offers => core_cpus_list(c, ReadAt(1, c)) = None
             /\ c \in Up(ReadAt(1, c))
  <2>1. Groups[c] = read_core_group(c) /\ c \in AllCpus
    BY <1>3, <1>4, RunningAre
  <2>2. Up(ReadAt(1, c)) = running
    BY UpAre DEF Steady
  <2>3. /\ "list" \in offers => core_cpus_list(c, ReadAt(1, c)) = Mates(c)
        /\ "list" \notin offers => core_cpus_list(c, ReadAt(1, c)) = None
    BY <2>2 DEF core_cpus_list, Mates
  <2>4. Mates(c) \in SUBSET AllCpus
    BY RunningAre DEF Mates
  <2> QED
    BY <2>1, <2>2, <2>3, <2>4, NoneIsNoList
<1>6. CASE "list" \in offers
  <2>1. \A c \in running : Groups[c] = <<"list", Mates(c)>> /\ Groups[c] # None
    BY <1>5, <1>6 DEF read_core_group
  <2>2. \A c, d \in running : Mates(c) = Mates(d) <=> hardware.core[c] = hardware.core[d]
    BY DEF Mates
  <2>3. \A c, d \in running : Groups[c] = Groups[d] <=> Mates(c) = Mates(d)
    BY <2>1
  <2>4. TrueGroups
    BY <1>4, <2>1, <2>2, <2>3 DEF TrueGroups
  <2> QED
    BY <1>4, <2>4
<1>7. CASE "list" \notin offers /\ "ids" \in offers
  <2>1. \A c \in running : Groups[c] = <<"ids", hardware.core[c]>> /\ Groups[c] # None
    BY <1>5, <1>7 DEF read_core_group
  <2>2. \A c, d \in running : Groups[c] = Groups[d] <=> hardware.core[c] = hardware.core[d]
    BY <2>1
  <2>3. \A c \in 0 .. Reach : Groups[c] # None <=> c \in running
    BY <1>4, <2>1
  <2>4. TrueGroups
    BY <2>2, <2>3 DEF TrueGroups
  <2> QED
    BY <1>4, <2>4
<1>8. CASE "list" \notin offers /\ "ids" \notin offers
  <2>1. \A c \in running : Groups[c] = None
    BY <1>5, <1>8 DEF read_core_group
  <2>2. NoGroups
    BY <1>4, <2>1 DEF NoGroups
  <2> QED
    BY <1>4, <2>2
<1> QED
  BY <1>6, <1>7, <1>8

\* The cores are counted, or nothing is said.
LEMMA CoresCounted ==
  ASSUME Running, Steady
  PROVE  count_unique_groups(Groups) \in {None, Cardinality({hardware.core[c] : c \in running})}
<1> DEFINE found == Range(Groups) \ {None}
<1>1. DOMAIN Groups = 0 .. Reach /\ (NoGroups \/ TrueGroups)
  BY GroupsAre
<1>2. count_unique_groups(Groups) = IF found = {} THEN None ELSE Cardinality(found)
  BY DEF count_unique_groups
<1>3. CASE NoGroups
  <2>1. found = {}
    BY <1>1, <1>3 DEF NoGroups, Range
  <2> QED
    BY <1>2, <2>1
<1>4. CASE TrueGroups
  <2>1. running \subseteq 0 .. Reach /\ IsFiniteSet(running)
    BY AskedAre, RunningAre DEF Steady
  <2>2. found = {Groups[c] : c \in running}
    BY <1>1, <1>4, <2>1 DEF TrueGroups, Range
  <2> DEFINE core == hardware.core
             C == running
             groups == Groups
  <2>3. IsFiniteSet(C) /\ \A c, d \in C : groups[c] = groups[d] <=> core[c] = core[d]
    BY <1>4, <2>1 DEF TrueGroups
  <2> HIDE DEF core, C, groups
  <2>4. Cardinality({groups[c] : c \in C}) = Cardinality({core[c] : c \in C})
    BY <2>3, SameKernel
  <2> QED
    BY <1>2, <2>2, <2>4 DEF core, C, groups
<1> QED
  BY <1>1, <1>3, <1>4

Cores == build_physical_core_groups(Groups, Kinds)

LEMMA MatesAre ==
  ASSUME Running, NEW c \in running
  PROVE  /\ c \in Mates(c) /\ Mates(c) \subseteq running /\ IsFiniteSet(Mates(c))
         /\ Min(Mates(c)) \in Mates(c) /\ Min(Mates(c)) \in Nat
<1>1. c \in Mates(c) /\ Mates(c) \subseteq running
  BY DEF Mates
<1>2. Mates(c) \in SUBSET running /\ IsFiniteSet(running) /\ running \subseteq Nat
  BY <1>1, RunningAre
<1>3. IsFiniteSet(Mates(c)) /\ Mates(c) \in SUBSET Nat /\ Mates(c) # {}
  BY <1>1, <1>2, FS_Subset
<1>4. Min(Mates(c)) \in Mates(c)
  BY <1>3, MinMember
<1> QED
  BY <1>1, <1>3, <1>4

\* Once a kind is known, that of every CPU is.
LEMMA AllKnown ==
  ASSUME Running, Steady, NEW a \in 0 .. Reach, Kinds[a] # "Unknown", NEW c \in running
  PROVE  c \in 0 .. Reach /\ Kinds[c] # "Unknown"
<1>1. c \in 0 .. Reach
  BY AskedAre DEF Steady
<1>2. CASE FromMasks
  BY <1>1, <1>2, MasksAre DEF FromMasks, Steady, KindOf
<1>3. CASE FromCaps
  <2>1. Classifies(Kinds, CapValues) /\ DOMAIN CapValues = 0 .. Reach
    BY <1>3, CapsAre, CapacityClassifies DEF FromCaps, Caps
  <2>2. CapValues[a] # None
    BY <2>1 DEF Classifies
  <2>3. CapValues[c] = Capacity[ClassOf(c)] /\ ClassOf(c) \in Classes
    BY <2>2, CapsAre, CpusAre, RunningAre DEF Running
  <2>4. CapValues[c] # None
    BY <2>3, TopologyAssumption DEF Classes
  <2> QED
    BY <1>1, <2>1, <2>4 DEF Classifies
<1>4. CASE FromSibs
  <2>1. Classifies(Kinds, SibValues) /\ DOMAIN SibValues = 0 .. Reach
    BY <1>4, SibsAre, SiblingsClassify DEF FromSibs, Sibs
  <2>2. SibValues[a] # None
    BY <2>1 DEF Classifies
  <2>3. SibValues[c] = Cardinality(Mates(c)) /\ IsFiniteSet(Mates(c))
    BY <2>2, SibsAre, MatesAre
  <2>4. SibValues[c] # None
    BY <2>3, FS_CardinalityType, TopologyAssumption
  <2> QED
    BY <1>1, <2>1, <2>4 DEF Classifies
<1>5. CASE Kinds = AllUnknown
  BY <1>5 DEF AllUnknown
<1> QED
  BY <1>2, <1>3, <1>4, <1>5, ResolvedCases

\* When the title names the P-cores, the cores are counted by their kinds.
CoresOf(kind) == {hardware.core[c] : c \in {c \in running : Kinds[c] = kind}}

LEMMA KindsCounted ==
  ASSUME Running, Steady, has_both_core_kinds(Kinds),
         count_kind_groups(Groups, Kinds, "Performance") # None, NEW kind \in CoreKinds \ {"Unknown"}
  PROVE  count_kind_groups(Groups, Kinds, kind) = Cardinality(CoresOf(kind))
<1> DEFINE of(k) == {c \in DOMAIN Kinds : Kinds[c] = k}
           found(k) == {Groups[c] : c \in of(k)}
<1>1. DOMAIN Kinds = 0 .. Reach /\ \A c \in 0 .. Reach : Kinds[c] # "Unknown" => c \in running
  BY KindsTyped
<1>2. \A k : count_kind_groups(Groups, Kinds, k) =
               IF ~has_multiple_core_kinds(Kinds) \/ None \in found(k) THEN None
               ELSE Cardinality(found(k))
  BY DEF count_kind_groups
<1>3. has_multiple_core_kinds(Kinds) /\ None \notin found("Performance")
  BY <1>2
<1>4. running \subseteq 0 .. Reach /\ IsFiniteSet(running)
  BY AskedAre, RunningAre DEF Steady
<1>5. TrueGroups
  <2>1. PICK a \in 0 .. Reach : Kinds[a] = "Performance"
    BY <1>1 DEF has_both_core_kinds, Range
  <2>2. Groups[a] \in found("Performance")
    BY <1>1, <2>1
  <2>3. ~NoGroups
    BY <1>3, <2>2 DEF NoGroups
  <2> QED
    BY <2>3, GroupsAre
<1> DEFINE C == {c \in running : Kinds[c] = kind}
           core == hardware.core
<1>6. of(kind) = C
  BY <1>1, <1>4
<1>7. IsFiniteSet(C)
  BY <1>4, FS_Subset
<1>8. \A c, d \in C : Groups[c] = Groups[d] <=> core[c] = core[d]
  BY <1>5 DEF TrueGroups
<1>9. found(kind) = {Groups[c] : c \in C}
  BY <1>6
<1>10. \A c \in C : Groups[c] # None
  BY <1>4, <1>5 DEF TrueGroups
<1>11. CoresOf(kind) = {core[c] : c \in C}
  BY DEF CoresOf
<1> HIDE DEF C, core
<1>12. Cardinality({Groups[c] : c \in C}) = Cardinality({core[c] : c \in C})
  BY <1>7, <1>8, SameKernel
<1>13. None \notin found(kind)
  BY <1>9, <1>10
<1> HIDE DEF found
<1> QED
  BY <1>2, <1>3, <1>9, <1>11, <1>12, <1>13

\* Each core is counted under one kind.
LEMMA KindsPartition ==
  ASSUME Running, Steady, NEW a \in 0 .. Reach, Kinds[a] # "Unknown"
  PROVE  Cardinality(CoresOf("Performance")) + Cardinality(CoresOf("Efficiency"))
           + Cardinality(CoresOf("LowPower")) = Cardinality({hardware.core[c] : c \in running})
<1> DEFINE core == hardware.core
           all == {core[c] : c \in running}
           P == CoresOf("Performance")
           E == CoresOf("Efficiency")
           L == CoresOf("LowPower")
<1>1. \A c \in running : Kinds[c] \in {"Performance", "Efficiency", "LowPower"}
  BY AllKnown, KindsTyped DEF CoreKinds
<1>2. \A c, d \in running : core[c] = core[d] => Kinds[c] = Kinds[d]
  BY KindsOfACore
<1>3. /\ \A x : x \in P <=> \E c \in running : Kinds[c] = "Performance" /\ x = core[c]
      /\ \A x : x \in E <=> \E c \in running : Kinds[c] = "Efficiency" /\ x = core[c]
      /\ \A x : x \in L <=> \E c \in running : Kinds[c] = "LowPower" /\ x = core[c]
      /\ \A x : x \in all <=> \E c \in running : x = core[c]
  BY DEF CoresOf
<1>4. IsFiniteSet(all)
  <2> HIDE DEF core
  <2>1. IsFiniteSet(running)
    BY RunningAre
  <2> QED
    BY <2>1, FiniteImage
<1> HIDE DEF core, all, P, E, L
<1>5. all = (P \union E) \union L /\ P \intersect E = {} /\ (P \union E) \intersect L = {}
  <2>1. P \intersect E = {} /\ (P \union E) \intersect L = {}
    BY <1>2, <1>3
  <2>2. \A x \in all : x \in (P \union E) \union L
    BY <1>1, <1>3
  <2>3. \A x \in (P \union E) \union L : x \in all
    BY <1>3
  <2> QED
    BY <2>1, <2>2, <2>3
<1>6. IsFiniteSet(P) /\ IsFiniteSet(E) /\ IsFiniteSet(L)
  <2>1. P \in SUBSET all /\ E \in SUBSET all /\ L \in SUBSET all
    BY <1>5
  <2> QED
    BY <1>4, <2>1, FS_Subset
<1>7. Cardinality({}) = 0
  BY FS_EmptySet
<1>8. /\ Cardinality(P) \in Nat /\ Cardinality(E) \in Nat /\ Cardinality(L) \in Nat
  BY <1>6, FS_CardinalityType
<1> DEFINE PE == P \union E
<1>9. IsFiniteSet(PE) /\ Cardinality(PE) = Cardinality(P) + Cardinality(E)
  <2>1. IsFiniteSet(PE) /\ Cardinality(PE) = Cardinality(P) + Cardinality(E) - Cardinality(P \intersect E)
    BY <1>6, FS_Union
  <2> QED
    BY <1>5, <1>7, <1>8, <2>1
<1>10. all = PE \union L /\ PE \intersect L = {}
  BY <1>5
<1> HIDE DEF PE
<1>11. Cardinality(PE \union L) = Cardinality(PE) + Cardinality(L) - Cardinality(PE \intersect L)
  BY <1>6, <1>9, FS_Union
<1>12. Cardinality(P) + Cardinality(E) + Cardinality(L) = Cardinality(all)
  <2>1. Cardinality(PE \intersect L) = 0 /\ Cardinality(all) = Cardinality(PE \union L)
    BY <1>7, <1>10
  <2> DEFINE p == Cardinality(P)
             e == Cardinality(E)
             l == Cardinality(L)
             both == Cardinality(PE)
             total == Cardinality(all)
  <2>2. total = both + l - 0 /\ both = p + e
    BY <1>9, <1>11, <2>1
  <2>3. p \in Nat /\ e \in Nat /\ l \in Nat
    BY <1>8
  <2> HIDE DEF p, e, l, both, total
  <2>4. p + e + l = total
    BY <2>2, <2>3
  <2> QED
    BY <2>4 DEF p, e, l, total
<1> QED
  BY <1>12 DEF all, core, P, E, L

LEMMA ExactlyCounted ==
  ASSUME Running, Steady, Exact(Kinds), NEW class \in Classes
  PROVE  CoresOf(KindOf(class)) = TrueCores(class)
<1>1. \A c \in running : Kinds[c] = KindOf(ClassOf(c)) /\ ClassOf(c) \in Classes
  BY AskedAre, CpusAre, RunningAre DEF Exact, Steady, Running
<1>2. \A k \in Classes : KindOf(k) = KindOf(class) <=> k = class
  BY DEF KindOf, Classes
<1>3. {c \in running : Kinds[c] = KindOf(class)} = {c \in running : ClassOf(c) = class}
  BY <1>1, <1>2
<1> QED
  BY <1>3 DEF CoresOf, TrueCores

\* The cores that detection found: CPUs that were online when it asked, and no CPU twice.
Members(g) == {c \in DOMAIN Groups : Groups[c] = g}
FoundCores == {Members(g) : g \in Range(Groups) \ {None}}
CoreWith(cpus) ==
  [logical_cpus |-> cpus,
   kind |-> IF Cardinality({Kinds[c] : c \in cpus}) = 1 THEN Kinds[Min(cpus)] ELSE "Unknown"]

LEMMA FoundAre ==
  ASSUME Running
  PROVE  /\ IsFiniteSet(FoundCores)
         /\ \A cpus \in FoundCores :
              /\ cpus # {} /\ cpus \subseteq running /\ cpus \subseteq Asked /\ IsFiniteSet(cpus)
              /\ Min(cpus) \in cpus /\ Min(cpus) \in Int
         /\ \A x, y \in FoundCores : x \intersect y # {} => x = y
<1> DEFINE n == Reach + 1
<1>1. n - 1 = Reach
  BY AskedAre
<1>2. Groups = read_core_groups(Asked, n)
  BY DEF Groups
<1> HIDE DEF n
<1>3. Groups = [c \in 0 .. Reach |-> IF c \in Asked THEN read_core_group(c) ELSE None]
  BY <1>1, <1>2 DEF read_core_groups
<1>4. \A c \in DOMAIN Groups : Groups[c] # None => c \in running /\ c \in Asked
  BY <1>3, GroupOnline
<1>5. IsFiniteSet(FoundCores)
  <2>1. IsFiniteSet(0 .. Reach)
    BY AskedAre, UpTo
  <2>2. IsFiniteSet({Groups[c] : c \in 0 .. Reach})
    BY <2>1, FiniteImage
  <2>3. Range(Groups) \ {None} \in SUBSET {Groups[c] : c \in 0 .. Reach}
    BY <1>3 DEF Range
  <2> DEFINE R == Range(Groups) \ {None}
             of == [g \in R |-> Members(g)]
  <2>4. IsFiniteSet(R)
    BY <2>2, <2>3, FS_Subset
  <2>5. FoundCores = {of[g] : g \in R}
    BY DEF FoundCores
  <2> HIDE DEF R, of
  <2> QED
    BY <2>4, <2>5, FiniteImage
<1>6. ASSUME NEW cpus \in FoundCores
      PROVE  /\ cpus # {} /\ cpus \subseteq running /\ cpus \subseteq Asked /\ IsFiniteSet(cpus)
             /\ Min(cpus) \in cpus /\ Min(cpus) \in Int
  <2>1. PICK g \in Range(Groups) \ {None} : cpus = Members(g)
    BY DEF FoundCores
  <2>2. cpus # {} /\ cpus \subseteq running /\ cpus \subseteq Asked
    BY <1>4, <2>1 DEF Members, Range
  <2>3. cpus \in SUBSET running /\ IsFiniteSet(running) /\ running \subseteq Nat
    BY <2>2, RunningAre
  <2>4. IsFiniteSet(cpus) /\ cpus \in SUBSET Nat
    BY <2>3, FS_Subset
  <2> DEFINE least == Min(cpus)
  <2>5. least \in cpus
    BY <2>2, <2>4, MinMember
  <2> HIDE DEF least
  <2>6. least \in Nat
    BY <2>4, <2>5
  <2>7. least \in cpus /\ least \in Int
    BY <2>5, <2>6
  <2> QED
    BY <2>2, <2>4, <2>7 DEF least
<1>7. ASSUME NEW x \in FoundCores, NEW y \in FoundCores, x \intersect y # {} PROVE x = y
  <2>1. PICK g : x = Members(g)
    BY DEF FoundCores
  <2>2. PICK h : y = Members(h)
    BY DEF FoundCores
  <2>3. PICK c : c \in x /\ c \in y
    BY <1>7
  <2>4. g = h
    BY <2>1, <2>2, <2>3 DEF Members
  <2> QED
    BY <2>1, <2>2, <2>4
<1> QED
  BY <1>5, <1>6, <1>7

LEMMA CoresSorted ==
  ASSUME Running
  PROVE  LET S == {CoreWith(cpus) : cpus \in FoundCores}
         IN  Cores \in Seq(S) /\ \A x \in S : \E i \in 1 .. Len(Cores) : Cores[i] = x
<1> DEFINE S == {CoreWith(cpus) : cpus \in FoundCores}
           low == [x \in S |-> Min(x.logical_cpus)]
           down == FALSE
           R == {p \in S \X S : Ahead(low, low, down, p[1], p[2])}
<1>1. Cores = Ordered(S, LAMBDA a, b : Min(a.logical_cpus) < Min(b.logical_cpus))
  BY DEF Cores, build_physical_core_groups, CoreWith, FoundCores, Members
<1>2. IsFiniteSet(S)
  <2> DEFINE at == [cpus \in FoundCores |-> CoreWith(cpus)]
  <2>1. S = {at[cpus] : cpus \in FoundCores}
    OBVIOUS
  <2> HIDE DEF at, S
  <2> QED
    BY <2>1, FoundAre, FiniteImage
<1>3. \A x \in S : x.logical_cpus \in FoundCores /\ x = CoreWith(x.logical_cpus)
  <2>1. \A cpus : CoreWith(cpus).logical_cpus = cpus
    BY DEF CoreWith
  <2> QED
    BY <2>1
<1>4. \A x \in S : low[x] = Min(x.logical_cpus)
  OBVIOUS
<1> HIDE DEF S, low
<1>5. \A x \in S : low[x] \in Int /\ low[x] \in x.logical_cpus
  BY <1>3, <1>4, FoundAre
<1>6. ASSUME NEW x \in S, NEW y \in S, low[x] = low[y] PROVE x = y
  <2>1. x.logical_cpus = y.logical_cpus
    BY <1>3, <1>5, <1>6, FoundAre
  <2> QED
    BY <1>3, <2>1
<1>7. StrictOrder(S, R)
  <2>1. down \in BOOLEAN
    OBVIOUS
  <2> HIDE DEF down
  <2> QED
    BY <1>2, <1>5, <1>6, <2>1, ByTwoKeys
<1>8. \A x, y \in S : Min(x.logical_cpus) < Min(y.logical_cpus) <=> <<x, y>> \in R
  BY <1>4 DEF Ahead
<1> HIDE DEF R
<1>9. Cores = InPlaces(S, R)
  <2>1. \A x \in S : {y \in S : Min(y.logical_cpus) < Min(x.logical_cpus)}
                       = {y \in S : <<y, x>> \in R}
    BY <1>8
  <2>2. \A x \in S : Cardinality({y \in S : Min(y.logical_cpus) < Min(x.logical_cpus)})
                       = PlaceUnder(S, R, x)
    BY <2>1 DEF PlaceUnder
  <2> QED
    BY <1>1, <2>2 DEF Ordered, InPlaces
<1>10. /\ Cardinality(S) \in Nat /\ Cores \in [1 .. Cardinality(S) -> S]
       /\ \A x \in S : \E i \in 1 .. Cardinality(S) : Cores[i] = x
  BY <1>7, <1>9, SortedMembers
<1>11. Cores \in Seq(S) /\ Len(Cores) = Cardinality(S)
  BY <1>10, LenProperties
<1>12. \A x \in S : \E i \in 1 .. Len(Cores) : Cores[i] = x
  BY <1>10, <1>11
<1> QED
  BY <1>11, <1>12 DEF S

\* While no CPU departs, every CPU has its core among them, or there is none at all.
LEMMA CoresAre ==
  ASSUME Running, Steady, Cores # <<>>, NEW c \in running
  PROVE  \E i \in 1 .. Len(Cores) : Cores[i].kind = Kinds[c]
<1>1. DOMAIN Groups = 0 .. Reach /\ (NoGroups \/ TrueGroups)
  BY GroupsAre
<1> DEFINE S == {CoreWith(cpus) : cpus \in FoundCores}
<1>2. Cores \in Seq(S) /\ \A x \in S : \E i \in 1 .. Len(Cores) : Cores[i] = x
  BY CoresSorted
<1>3. CASE NoGroups
  <2>1. Range(Groups) \ {None} = {}
    BY <1>1, <1>3 DEF NoGroups, Range
  <2>2. S = {}
    BY <2>1 DEF FoundCores
  <2> HIDE DEF S
  <2>3. Len(Cores) = 0
    <3>1. Len(Cores) \in Nat /\ \A i \in 1 .. Len(Cores) : Cores[i] \in S
      BY <1>2, LenProperties, ElementOfSeq
    <3> QED
      BY <2>2, <3>1
  <2> QED
    BY <1>2, <2>3, EmptySeq
<1>4. CASE TrueGroups
  <2>1. running \subseteq 0 .. Reach
    BY AskedAre DEF Steady
  <2>2. Mates(c) = Members(Groups[c]) /\ Groups[c] \in Range(Groups) \ {None}
    BY <1>1, <1>4, <2>1 DEF TrueGroups, Mates, Range, Members
  <2>3. Mates(c) \in FoundCores
    BY <2>2 DEF FoundCores
  <2>4. c \in Mates(c) /\ Min(Mates(c)) \in Mates(c)
    BY MatesAre
  <2>5. \A d \in Mates(c) : Kinds[d] = Kinds[c]
    BY KindsOfACore DEF Mates
  <2>6. {Kinds[d] : d \in Mates(c)} = {Kinds[c]}
    BY <2>4, <2>5
  <2>7. Cardinality({Kinds[d] : d \in Mates(c)}) = 1
    BY <2>6, FS_Singleton
  <2>8. CoreWith(Mates(c)).kind = Kinds[c]
    BY <2>4, <2>5, <2>7 DEF CoreWith
  <2> QED
    BY <1>2, <2>3, <2>8
<1> QED
  BY <1>1, <1>3, <1>4

-----------------------------------------------------------------------------
(* The usage of each CPU.                                                  *)

CpusListed(level) ==
  LET ids == Ordered(running, LAMBDA a, b : a < b)
  IN  [i \in DOMAIN ids |-> [id |-> ids[i], value |-> level[ids[i]]]]
UsageOf(level) == [c \in 0 .. Highest |-> IF c \in running THEN level[c] ELSE 0]

\* The CPUs that are online are listed, each once.
LEMMA ListedAre ==
  ASSUME Running
  PROVE  LET ids == Ordered(running, LAMBDA a, b : a < b)
         IN  /\ ids \in Seq(running)
             /\ \A c \in running : \E i \in DOMAIN ids : ids[i] = c
<1> DEFINE S == running
           R == {p \in S \X S : p[1] < p[2]}
           ids == Ordered(S, LAMBDA a, b : a < b)
<1>1. IsFiniteSet(S) /\ S \subseteq Nat
  BY RunningAre
<1> HIDE DEF S
<1>2. \A x, y \in S : <<x, y>> \in R <=> x < y
  OBVIOUS
<1> HIDE DEF R
<1>3. StrictOrder(S, R)
  <2>1. /\ \A x \in S : <<x, x>> \notin R
        /\ \A x, y \in S : x # y => <<x, y>> \in R \/ <<y, x>> \in R
        /\ \A x, y, z \in S : <<x, y>> \in R /\ <<y, z>> \in R => <<x, z>> \in R
    BY <1>1, <1>2
  <2> QED
    BY <1>1, <2>1 DEF StrictOrder
<1>4. ids = InPlaces(S, R)
  <2>1. \A x \in S : {y \in S : y < x} = {y \in S : <<y, x>> \in R}
    BY <1>2
  <2>2. \A x \in S : Cardinality({y \in S : y < x}) = PlaceUnder(S, R, x)
    BY <2>1 DEF PlaceUnder
  <2> QED
    BY <2>2 DEF Ordered, InPlaces
<1> HIDE DEF ids
<1>5. /\ Cardinality(S) \in Nat /\ ids \in [1 .. Cardinality(S) -> S]
      /\ \A x \in S : \E i \in 1 .. Cardinality(S) : ids[i] = x
  BY <1>3, <1>4, SortedMembers
<1>6. ids \in Seq(S) /\ \A x \in S : \E i \in DOMAIN ids : ids[i] = x
  BY <1>5, LenProperties
<1> QED
  BY <1>6 DEF ids, S

\* Each CPU's usage stands at its own number, and a hole has none.
LEMMA UsagesAre ==
  ASSUME Running, NEW level
  PROVE  per_cpu_usage_by_id(CpusListed(level)) = UsageOf(level)
<1> DEFINE ids == Ordered(running, LAMBDA a, b : a < b)
           cpus == CpusListed(level)
           numbers == {cpus[i].id : i \in DOMAIN cpus}
           value(c) == (CHOOSE cpu \in ToSet(cpus) : cpu.id = c).value
<1>1. ids \in Seq(running) /\ \A c \in running : \E i \in DOMAIN ids : ids[i] = c
  BY ListedAre
<1>2. cpus = [i \in DOMAIN ids |-> [id |-> ids[i], value |-> level[ids[i]]]]
  BY DEF CpusListed
<1>3. \A i \in DOMAIN ids : ids[i] \in running
  BY <1>1, LenProperties, ElementOfSeq
<1> HIDE DEF ids
<1>4. DOMAIN cpus = DOMAIN ids /\ \A i \in DOMAIN ids : cpus[i].id = ids[i] /\ cpus[i].value = level[ids[i]]
  BY <1>2
<1>5. per_cpu_usage_by_id(cpus) = [c \in 0 .. Max(numbers) |-> IF c \in numbers THEN value(c) ELSE 0]
  BY DEF per_cpu_usage_by_id
<1> HIDE DEF cpus
<1>6. numbers = running
  BY <1>1, <1>3, <1>4
<1>7. ToSet(cpus) = {cpus[i] : i \in DOMAIN cpus}
  BY DEF ToSet
<1>8. ASSUME NEW c \in running PROVE value(c) = level[c]
  <2>1. \E cpu \in ToSet(cpus) : cpu.id = c
    BY <1>1, <1>4, <1>7
  <2>2. \A cpu \in ToSet(cpus) : cpu.id = c => cpu.value = level[c]
    BY <1>4, <1>7
  <2> QED
    BY <2>1, <2>2
<1> HIDE DEF numbers, value
<1>9. per_cpu_usage_by_id(cpus) = [c \in 0 .. Highest |-> IF c \in running THEN level[c] ELSE 0]
  <2>1. per_cpu_usage_by_id(cpus) = [c \in 0 .. Max(running) |-> IF c \in running THEN value(c) ELSE 0]
    BY <1>5, <1>6
  <2> QED
    BY <1>8, <2>1 DEF Highest
<1> QED
  BY <1>9 DEF UsageOf, cpus

LEMMA LoadsAre ==
  ASSUME Running, NEW level \in CpuLoads
  PROVE  /\ \A c \in running : level[c] \in Nat
         /\ DOMAIN UsageOf(level) = 0 .. Highest
         /\ \A c \in 0 .. Highest : UsageOf(level)[c] \in Nat
         /\ \A c \in running : c \in 0 .. Highest /\ UsageOf(level)[c] = level[c]
<1>1. \A c \in running : level[c] \in Nat /\ c \in 0 .. Highest
  BY RunningAre, TopologyAssumption DEF Running, AllCpus
<1> QED
  BY <1>1 DEF UsageOf

\* The cells: those of the CPUs that stay show their own load, the holes nothing.
CellsAre(cells, level) ==
  \A c \in DOMAIN cells :
    /\ c \in Stays => cells[c].percent = level[c]
    /\ c \in running \ Stays => cells[c].percent \in {level[c], None}
    /\ c \notin running /\ "online" \in offers /\ (\E d \in Stays : c < d) => cells[c].percent = None
    /\ cells[c].bold => \A d \in running : level[d] <= cells[c].percent

LEMMA CellsShow ==
  ASSUME Running, NEW level \in CpuLoads, NEW t, t.online = [c \in 0 .. Reach |-> c \in Asked]
  PROVE  CellsAre(draw_system_cells(t, UsageOf(level)), level)
<1> DEFINE usages == UsageOf(level)
           cells == draw_system_cells(t, usages)
           busiest == Busiest(usages)
<1>1. /\ \A c \in running : level[c] \in Nat
      /\ DOMAIN usages = 0 .. Highest
      /\ \A c \in 0 .. Highest : usages[c] \in Nat
      /\ \A c \in running : c \in 0 .. Highest /\ usages[c] = level[c]
  BY LoadsAre
<1>2. Highest \in Nat /\ running \subseteq Nat
  BY RunningAre
<1>3. /\ \A c \in 0 .. Highest : c \in Stays => ~ShownOffline(t.online, c)
      /\ \A c \in 0 .. Highest : c \notin running /\ "online" \in offers /\ (\E d \in Stays : c < d) =>
           ShownOffline(t.online, c)
  <2>1. /\ Stays \subseteq Asked /\ Stays \subseteq running /\ Asked \subseteq 0 .. Reach /\ Reach \in Nat
        /\ "online" \in offers /\ Stays # {} => Asked \subseteq running
    BY AskedAre
  <2>2. \A c : ShownOffline(t.online, c) <=> c \in 0 .. Reach /\ c \notin Asked
    BY DEF ShownOffline
  <2>3. ASSUME NEW c \in 0 .. Highest, c \notin running, "online" \in offers, NEW d \in Stays, c < d
        PROVE  ShownOffline(t.online, c)
    <3>1. c \notin Asked /\ d \in 0 .. Reach
      BY <2>1, <2>3
    <3>2. c \in 0 .. Reach
      BY <1>2, <2>1, <2>3, <3>1
    <3> QED
      BY <2>2, <3>1, <3>2
  <2> QED
    BY <2>1, <2>2, <2>3
<1> HIDE DEF usages
<1>4. /\ DOMAIN cells = 0 .. Highest
      /\ \A c \in 0 .. Highest :
           /\ cells[c].percent = IF ShownOffline(t.online, c) THEN None ELSE usages[c]
           /\ cells[c].bold <=> (~ShownOffline(t.online, c) /\ c = busiest)
  BY <1>1 DEF draw_system_cells, core_heatmap_cell
<1>5. \A c \in 0 .. Highest : usages[c] <= usages[busiest]
  <2> DEFINE C == 0 .. Highest
             V == {usages[c] : c \in C}
             most == Max(V)
             B == {c \in 0 .. Highest : usages[c] = most}
  <2>1. IsFiniteSet(0 .. Highest)
    BY <1>2, UpTo
  <2>2. IsFiniteSet(V)
    <3>1. IsFiniteSet(C)
      BY <2>1
    <3> HIDE DEF C
    <3> QED
      BY <3>1, FiniteImage
  <2>3. V \in SUBSET Int /\ usages[0] \in V
    BY <1>1, <1>2
  <2>4. most \in V /\ \A y \in V : most >= y
    BY <2>2, <2>3, MaxOfFinite
  <2>5. Range(usages) = V
    BY <1>1 DEF Range
  <2> HIDE DEF most
  <2>6. B # {} /\ B \in SUBSET (0 .. Highest) /\ B \in SUBSET Int
    BY <1>2, <2>4
  <2>7. IsFiniteSet(B)
    BY <2>1, <2>6, FS_Subset
  <2>8. Max(B) \in B
    BY <2>6, <2>7, MaxOfFinite
  <2>9. busiest = Max(B)
    BY <1>1, <2>5 DEF Busiest, most
  <2> HIDE DEF busiest
  <2>10. usages[busiest] = most
    BY <2>8, <2>9
  <2>11. most \in Nat
    BY <1>1, <2>4
  <2> QED
    BY <1>1, <2>4, <2>10, <2>11
<1> HIDE DEF busiest, cells
<1>6. ASSUME NEW c \in 0 .. Highest
      PROVE  /\ c \in Stays => cells[c].percent = level[c]
             /\ c \in running \ Stays => cells[c].percent \in {level[c], None}
             /\ c \notin running /\ "online" \in offers /\ (\E d \in Stays : c < d) => cells[c].percent = None
             /\ cells[c].bold => \A d \in running : level[d] <= cells[c].percent
  <2>1. Stays \subseteq running
    BY AskedAre
  <2>2. cells[c].bold => cells[c].percent = usages[busiest]
    BY <1>4
  <2>3. \A d \in running : level[d] <= usages[busiest]
    BY <1>1, <1>5
  <2> QED
    BY <1>1, <1>3, <1>4, <2>1, <2>2, <2>3
<1> QED
  BY <1>4, <1>6 DEF CellsAre, cells, usages

-----------------------------------------------------------------------------
(* The bars of the cores.                                                  *)

BarWith(cpus, level) ==
  [cpus |-> cpus, percent |-> [part |-> SumFunctionOnSet(UsageOf(level), cpus), whole |-> Cardinality(cpus)]]
Bars(level) == {BarWith(cpus, level) : cpus \in FoundCores}
Owned(bar, level) ==
  /\ bar.cpus # {} /\ bar.cpus \subseteq running
  /\ bar.percent.part * Cardinality(bar.cpus) = SumFunctionOnSet(level, bar.cpus) * bar.percent.whole
OnlineNow == [c \in 0 .. Reach |-> c \in Asked]

LEMMA BarsOwn ==
  ASSUME Running, NEW level \in CpuLoads, NEW bar \in Bars(level)
  PROVE  Owned(bar, level)
<1>1. PICK cpus \in FoundCores : bar = BarWith(cpus, level)
  BY DEF Bars
<1> DEFINE u == UsageOf(level)
<1>2. cpus # {} /\ cpus \subseteq running /\ IsFiniteSet(cpus)
  BY FoundAre
<1>3. \A d \in cpus : u[d] = level[d] /\ level[d] \in Int
  BY <1>2, LoadsAre
<1>4. bar.cpus = cpus /\ bar.percent.part = SumFunctionOnSet(u, cpus) /\ bar.percent.whole = Cardinality(cpus)
  BY <1>1 DEF BarWith
<1> HIDE DEF u
<1>5. SumFunctionOnSet(u, cpus) = SumFunctionOnSet(level, cpus)
  BY <1>2, <1>3, SumSame
<1> QED
  BY <1>2, <1>4, <1>5 DEF Owned

\* The average of a core is over all of the CPUs that detection found in it.
LEMMA AverageIs ==
  ASSUME Running, NEW level \in CpuLoads, NEW cpus \in FoundCores
  PROVE  [cpus |-> CoreWith(cpus).logical_cpus,
          percent |-> physical_core_average(CoreWith(cpus), UsageOf(level), OnlineNow)] = BarWith(cpus, level)
<1> DEFINE core == CoreWith(cpus)
           u == UsageOf(level)
           shown == {d \in core.logical_cpus : ~ShownOffline(OnlineNow, d) /\ d \in DOMAIN u}
<1>1. core.logical_cpus = cpus
  BY DEF CoreWith
<1>2. cpus # {} /\ cpus \subseteq running /\ cpus \subseteq Asked
  BY FoundAre
<1>3. \A d \in running : d \in DOMAIN u
  BY LoadsAre
<1>4. \A d \in Asked : ~ShownOffline(OnlineNow, d)
  BY DEF ShownOffline, OnlineNow
<1> HIDE DEF core, u
<1>5. shown = cpus /\ shown # {}
  BY <1>1, <1>2, <1>3, <1>4
<1>6. physical_core_average(core, u, OnlineNow) =
        IF shown = {} THEN [part |-> 0, whole |-> 1]
        ELSE [part |-> SumFunctionOnSet(u, shown), whole |-> Cardinality(shown)]
  BY DEF physical_core_average
<1> HIDE DEF shown
<1>7. physical_core_average(core, u, OnlineNow) =
        [part |-> SumFunctionOnSet(u, cpus), whole |-> Cardinality(cpus)]
  BY <1>5, <1>6
<1> QED
  BY <1>1, <1>7 DEF BarWith, core, u

\* Each core of a kind has its bar, and nothing else has.
LEMMA BarsOfKind ==
  ASSUME Running, NEW level \in CpuLoads, NEW kind
  PROVE  LET bars == BarsOf(kind, UsageOf(level), OnlineNow, Cores)
         IN  /\ Range(bars) \subseteq Bars(level)
             /\ \A i \in 1 .. Len(Cores) : Cores[i].kind = kind => bars # <<>>
<1> DEFINE T == Bars(level)
           bar(core) == [cpus |-> core.logical_cpus,
                         percent |-> physical_core_average(core, UsageOf(level), OnlineNow)]
           parts == [i \in DOMAIN Cores |-> IF Cores[i].kind = kind THEN <<bar(Cores[i])>> ELSE <<>>]
           bars == BarsOf(kind, UsageOf(level), OnlineNow, Cores)
<1>1. bars = FlattenSeq(parts)
  BY DEF BarsOf
<1>2. Len(Cores) \in Nat /\ DOMAIN Cores = 1 .. Len(Cores)
      /\ \A i \in 1 .. Len(Cores) : \E cpus \in FoundCores : Cores[i] = CoreWith(cpus)
  <2> DEFINE S == {CoreWith(cpus) : cpus \in FoundCores}
  <2>1. Cores \in Seq(S)
    BY CoresSorted
  <2> HIDE DEF S
  <2>2. Len(Cores) \in Nat /\ DOMAIN Cores = 1 .. Len(Cores) /\ \A i \in 1 .. Len(Cores) : Cores[i] \in S
    BY <2>1, LenProperties, ElementOfSeq
  <2> QED
    BY <2>2 DEF S
<1>3. \A cpus \in FoundCores : bar(CoreWith(cpus)) = BarWith(cpus, level) /\ BarWith(cpus, level) \in T
  BY AverageIs DEF Bars
<1> HIDE DEF bar, T
<1>4. \A i \in 1 .. Len(Cores) : bar(Cores[i]) \in T
  BY <1>2, <1>3
<1>5. ASSUME NEW i \in 1 .. Len(Cores) PROVE parts[i] \in Seq(T)
  <2>1. parts[i] = IF Cores[i].kind = kind THEN <<bar(Cores[i])>> ELSE <<>>
    BY <1>2
  <2> QED
    BY <1>4, <2>1
<1>6. parts \in Seq(Seq(T)) /\ Len(parts) = Len(Cores)
  <2>1. parts \in [1 .. Len(Cores) -> Seq(T)]
    BY <1>2, <1>5
  <2> QED
    BY <1>2, <2>1, LenProperties
<1>7. ASSUME NEW i \in 1 .. Len(Cores), Cores[i].kind = kind
      PROVE  bar(Cores[i]) \in Range(parts[i])
  <2> DEFINE x == bar(Cores[i])
             part == parts[i]
  <2>1. part = <<x>>
    BY <1>2, <1>7
  <2> HIDE DEF x, part
  <2>2. 1 \in DOMAIN part /\ part[1] = x
    BY <2>1
  <2> QED
    BY <2>2 DEF Range, x, part
<1> HIDE DEF parts
<1>8. /\ bars \in Seq(T)
      /\ \A i \in 1 .. Len(parts) : Range(parts[i]) \subseteq Range(bars)
  BY <1>1, <1>6, Flattened
<1> HIDE DEF bars
<1>9. Range(bars) \subseteq T
  BY <1>8, LenProperties, ElementOfSeq DEF Range
<1>10. ASSUME NEW i \in 1 .. Len(Cores), Cores[i].kind = kind PROVE bars # <<>>
  <2>1. bar(Cores[i]) \in Range(bars)
    BY <1>6, <1>7, <1>8, <1>10
  <2>2. Range(<<>>) = {}
    BY DEF Range
  <2> QED
    BY <2>1, <2>2
<1> QED
  BY <1>9, <1>10 DEF bars, T

LEMMA BarsShow ==
  ASSUME Running, NEW level \in CpuLoads
  PROVE  LET bars == physical_core_minibar_rows(UsageOf(level), OnlineNow, Cores)
         IN  /\ \A bar \in Range(bars.p) \union Range(bars.e) : Owned(bar, level)
             /\ Steady /\ has_both_core_kinds(Kinds) /\ Cores # <<>> => bars.p # <<>>
<1> DEFINE p == BarsOf("Performance", UsageOf(level), OnlineNow, Cores)
           e == BarsOf("Efficiency", UsageOf(level), OnlineNow, Cores)
           bars == physical_core_minibar_rows(UsageOf(level), OnlineNow, Cores)
<1>1. bars = IF p = <<>> \/ e = <<>> THEN [p |-> <<>>, e |-> <<>>] ELSE [p |-> p, e |-> e]
  BY DEF physical_core_minibar_rows
<1>2. Range(p) \subseteq Bars(level) /\ Range(e) \subseteq Bars(level)
  BY BarsOfKind
<1>3. ASSUME Steady, has_both_core_kinds(Kinds), Cores # <<>> PROVE p # <<>> /\ e # <<>>
  <2>1. PICK a \in running, b \in running : Kinds[a] = "Performance" /\ Kinds[b] = "Efficiency"
    <3>1. DOMAIN Kinds = 0 .. Reach /\ \A c \in 0 .. Reach : Kinds[c] # "Unknown" => c \in running
      BY KindsTyped
    <3>2. "Performance" \in Range(Kinds) /\ "Efficiency" \in Range(Kinds)
      BY <1>3 DEF has_both_core_kinds
    <3> QED
      BY <3>1, <3>2 DEF Range
  <2>2. PICK i \in 1 .. Len(Cores), j \in 1 .. Len(Cores) :
          Cores[i].kind = "Performance" /\ Cores[j].kind = "Efficiency"
    BY <1>3, <2>1, CoresAre
  <2> QED
    BY <2>2, BarsOfKind
<1>4. \A bar \in Bars(level) : Owned(bar, level)
  BY BarsOwn
<1>5. Range(<<>>) = {}
  BY DEF Range
<1> HIDE DEF p, e, bars, Bars
<1>6. CASE p = <<>> \/ e = <<>>
  <2>1. bars.p = <<>> /\ bars.e = <<>>
    BY <1>1, <1>6
  <2> QED
    BY <1>3, <1>5, <1>6, <2>1 DEF bars
<1>7. CASE ~(p = <<>> \/ e = <<>>)
  <2>1. bars = [p |-> p, e |-> e]
    BY <1>1, <1>7
  <2>2. bars.p = p /\ bars.e = e
    BY <2>1
  <2> QED
    BY <1>2, <1>4, <1>7, <2>2 DEF bars
<1> QED
  BY <1>6, <1>7

-----------------------------------------------------------------------------
(* The heatmap: each CPU has one cell.                                     *)

LEMMA Quotient ==
  ASSUME NEW a \in Nat, NEW k \in Nat \ {0}
  PROVE  a \div k \in Nat /\ (a \div k) * k <= a /\ a < (a \div k) * k + k
  OBVIOUS

LEMMA Product ==
  ASSUME NEW a \in Nat, NEW b \in Nat, NEW k \in Nat, a <= b
  PROVE  a * k <= b * k /\ a * k \in Nat /\ b * k \in Nat
  OBVIOUS

LEMMA CeilingIs ==
  ASSUME NEW n \in Nat \ {0}, NEW k \in Nat \ {0}
  PROVE  /\ CeilDiv(n, k) \in Nat \ {0}
         /\ (CeilDiv(n, k) - 1) * k < n /\ n <= CeilDiv(n, k) * k
<1> DEFINE a == n + k - 1
           q == a \div k
<1>1. a \in Nat /\ a >= k
  OBVIOUS
<1> HIDE DEF a
<1>2. q \in Nat /\ q * k <= a /\ a < q * k + k
  BY <1>1, Quotient
<1>3. CeilDiv(n, k) = q
  BY DEF CeilDiv, a
<1> HIDE DEF q
<1> DEFINE s == q * k
<1>4. s \in Nat
  BY <1>2
<1>5. (q - 1) * k = s - k
  BY <1>2
<1>6. q # 0
  <2> SUFFICES ASSUME q = 0 PROVE FALSE
    OBVIOUS
  <2>1. s = 0
    OBVIOUS
  <2> HIDE DEF s
  <2> QED
    BY <1>1, <1>2, <2>1 DEF s
<1>7. s - k < n /\ n <= s
  <2>1. s <= a /\ a < s + k
    BY <1>2
  <2> HIDE DEF s
  <2> QED
    BY <1>4, <2>1 DEF a
<1> QED
  BY <1>2, <1>3, <1>5, <1>6, <1>7

\* No more rows than fit all.
LEMMA CeilingLeast ==
  ASSUME NEW n \in Nat \ {0}, NEW k \in Nat \ {0}, NEW r \in Nat, n <= r * k
  PROVE  CeilDiv(n, k) <= r
<1> DEFINE m == CeilDiv(n, k)
<1>1. m \in Nat \ {0} /\ (m - 1) * k < n
  BY CeilingIs
<1> HIDE DEF m
<1> SUFFICES ASSUME m > r PROVE FALSE
  BY <1>1 DEF m
<1> DEFINE l == m - 1
<1>2. l \in Nat /\ r <= l /\ l * k < n
  BY <1>1
<1> HIDE DEF l
<1>3. r * k <= l * k /\ r * k \in Nat /\ l * k \in Nat
  BY <1>2, Product
<1> QED
  BY <1>2, <1>3

\* Full rows, and a last one with what is left, put end to end.
LEMMA RowsCover ==
  ASSUME NEW n \in Nat \ {0}, NEW k \in Nat \ {0}, NEW rows \in Nat, CeilDiv(n, k) <= rows
  PROVE  FlattenSeq(RowsOf(n, k, rows)) = [i \in 1 .. n |-> i - 1]
<1> DEFINE m == CeilDiv(n, k)
           start(r) == (r - 1) * k
           row(r) == [j \in 1 .. (Lower(start(r) + k, n) - start(r)) |-> start(r) + j - 1]
           seqs == RowsOf(n, k, rows)
           cells(c) == [i \in 1 .. c |-> i - 1]
<1>1. m \in Nat \ {0} /\ (m - 1) * k < n /\ n <= m * k
  BY CeilingIs
<1>2. Lower(rows, m) = m
  BY <1>1 DEF Lower
<1>3. seqs = [r \in 1 .. m |-> row(r)]
  BY <1>2 DEF RowsOf
<1> HIDE DEF m, seqs
<1>4. Len(seqs) = m
  BY <1>1, <1>3
<1> DEFINE f == CHOOSE f : Flattening(seqs, m, f)
<1>5. Flattening(seqs, m, f)
  BY <1>1, FlatteningExists
<1>6. FlattenSeq(seqs) = f[m]
  BY <1>1, <1>4 DEF FlattenSeq, Flattening
<1> HIDE DEF f
<1>7. \A r \in 1 .. m : f[r] = IF r = 1 THEN seqs[r] ELSE f[r - 1] \o seqs[r]
  BY <1>5 DEF Flattening
<1>8. \A r \in 1 .. m : seqs[r] = row(r)
  BY <1>3
<1> HIDE DEF row, start
\* The first r rows hold the first CPUs.
<1> DEFINE S == {r \in Nat : r \in 1 .. m => f[r] = cells(Lower(r * k, n))}
<1>9. 0 \in S
  OBVIOUS
<1>10. ASSUME NEW p \in Nat, p \in S, p + 1 \in 1 .. m PROVE f[p + 1] = cells(Lower((p + 1) * k, n))
  <2> DEFINE r == p + 1
             s == p * k
  <2>1. r \in 1 .. m /\ r - 1 = p /\ r \in Nat /\ (r = 1 <=> p = 0)
    BY <1>10
  <2>2. s \in Nat
    OBVIOUS
  <2>3. r * k = s + k
    OBVIOUS
  <2>4. start(r) = s
    BY <2>1 DEF start
  <2>5. s < n
    <3>1. p <= m - 1 /\ m - 1 \in Nat
      BY <1>1, <2>1
    <3> DEFINE l == m - 1
    <3>2. p <= l /\ l \in Nat /\ l * k < n
      BY <1>1, <3>1
    <3> HIDE DEF l
    <3>3. p * k <= l * k /\ l * k \in Nat
      BY <3>2, Product
    <3> QED
      BY <2>2, <3>2, <3>3
  <2> DEFINE e == Lower(s + k, n)
  <2>6. e \in Nat /\ s < e /\ e = Lower(r * k, n)
    BY <2>2, <2>3, <2>5 DEF Lower
  <2>7. f[r] = IF p = 0 THEN seqs[r] ELSE f[p] \o seqs[r]
    BY <1>7, <2>1
  <2>8. seqs[r] = [j \in 1 .. (e - s) |-> s + j - 1]
    BY <1>8, <2>1, <2>4 DEF row
  <2>9. p # 0 => f[p] = cells(s)
    <3> SUFFICES ASSUME p # 0 PROVE f[p] = cells(s)
      OBVIOUS
    <3>1. p \in 1 .. m
      BY <1>1, <2>1
    <3>2. f[p] = cells(Lower(s, n))
      BY <1>10, <3>1
    <3>3. Lower(s, n) = s
      BY <2>5 DEF Lower
    <3> QED
      BY <3>2, <3>3
  <2> HIDE DEF S, s, e, r, cells
  <2>10. CASE p = 0
    <3>1. s = 0
      BY <2>10 DEF s
    <3>2. f[r] = [j \in 1 .. (e - s) |-> s + j - 1]
      BY <2>7, <2>8, <2>10
    <3>3. f[r] = [j \in 1 .. e |-> j - 1]
      BY <2>6, <3>1, <3>2
    <3> QED
      BY <2>6, <3>3 DEF cells, r
  <2>11. CASE p # 0
    <3>1. f[r] = cells(s) \o seqs[r]
      BY <2>7, <2>9, <2>11
    <3>2. cells(s) \in Seq(Nat) /\ Len(cells(s)) = s /\ \A i \in 1 .. s : cells(s)[i] = i - 1
      <4>1. cells(s) \in [1 .. s -> Nat]
        BY <2>2 DEF cells
      <4> QED
        BY <2>2, <4>1, LenProperties DEF cells
    <3>3. /\ seqs[r] \in Seq(Nat) /\ Len(seqs[r]) = e - s
          /\ \A j \in 1 .. (e - s) : seqs[r][j] = s + j - 1
      <4> DEFINE d == e - s
                 q == seqs[r]
      <4>1. d \in Nat
        BY <2>2, <2>6
      <4>2. q = [j \in 1 .. d |-> s + j - 1]
        BY <2>8
      <4> HIDE DEF d, q
      <4>3. q \in [1 .. d -> Nat] /\ \A j \in 1 .. d : q[j] = s + j - 1
        BY <2>2, <4>2
      <4>4. q \in Seq(Nat) /\ Len(q) = d
        BY <4>1, <4>3, LenProperties
      <4> QED
        BY <4>3, <4>4 DEF d, q
    <3> DEFINE x == cells(s)
               y == seqs[r]
               z == x \o y
               d == e - s
    <3>4. d \in Nat /\ s + d = e
      BY <2>2, <2>6
    <3>5. x \in Seq(Nat) /\ y \in Seq(Nat) /\ Len(x) = s /\ Len(y) = d
      BY <3>2, <3>3
    <3>6. \A i \in 1 .. s : x[i] = i - 1
      BY <3>2
    <3>7. \A j \in 1 .. d : y[j] = s + j - 1
      BY <3>3
    <3> HIDE DEF x, y, d
    <3>8. z \in Seq(Nat) /\ Len(z) = e
          /\ \A i \in 1 .. e : z[i] = IF i <= s THEN x[i] ELSE y[i - s]
      BY <3>4, <3>5, ConcatProperties
    <3> HIDE DEF z
    <3>9. \A i \in 1 .. e : z[i] = i - 1
      <4> TAKE i \in 1 .. e
      <4>1. CASE i <= s
        <5>1. i \in 1 .. s /\ z[i] = x[i]
          BY <2>2, <3>8, <4>1
        <5> QED
          BY <3>6, <5>1
      <4>2. CASE ~(i <= s)
        <5>1. i - s \in 1 .. d
          BY <2>2, <2>6, <3>4, <4>2
        <5> DEFINE j == i - s
        <5>2. y[j] = s + j - 1 /\ s + j = i /\ j \in Int
          BY <2>2, <3>7, <5>1
        <5>3. z[i] = y[j]
          BY <3>8, <4>2
        <5> HIDE DEF j
        <5> QED
          BY <2>2, <5>2, <5>3
      <4> QED
        BY <4>1, <4>2
    <3>10. z = [i \in 1 .. e |-> i - 1]
      <4>1. z = [i \in 1 .. e |-> z[i]]
        BY <3>8, LenProperties
      <4> QED
        BY <3>9, <4>1
    <3> QED
      BY <2>6, <3>1, <3>10 DEF x, y, z, cells, r
  <2> QED
    BY <2>10, <2>11
<1>11. ASSUME NEW p \in Nat, p \in S PROVE p + 1 \in S
  <2> DEFINE r == p + 1
  <2>1. r \in Nat
    OBVIOUS
  <2>2. r \in 1 .. m => f[r] = cells(Lower(r * k, n))
    BY <1>10, <1>11
  <2> HIDE DEF r
  <2>3. r \in S
    BY <2>1, <2>2
  <2> QED
    BY <2>3 DEF r
<1>12. m \in S
  <2> HIDE DEF S
  <2> QED
    BY <1>1, <1>9, <1>11, SetInduction
<1>13. f[m] = cells(Lower(m * k, n))
  BY <1>1, <1>12
<1>14. Lower(m * k, n) = n
  BY <1>1 DEF Lower
<1> QED
  BY <1>6, <1>13, <1>14 DEF seqs

\* Whatever the width, each CPU has exactly one cell.
LEMMA HeatmapCovers ==
  ASSUME NEW n \in Nat \ {0}, NEW width \in Nat, NEW show_kind \in BOOLEAN
  PROVE  FlattenSeq(core_heatmap_rows(n, width, show_kind)) = [i \in 1 .. n |-> i - 1]
<1> DEFINE cell_width == Digits(n) + (IF show_kind THEN 1 ELSE 0) + 2
           wide == Minus(width, 2) \div cell_width
           max_cols == Max({wide, 1})
           four == CeilDiv(n, HeatmapRowLimit)
           six == Lower(6, max_cols)
           cols == Max({six, four})
<1>1. cell_width \in Nat \ {0}
  BY DEF Digits
<1>2. Minus(width, 2) \in Nat
  BY DEF Minus
<1> HIDE DEF cell_width
<1>3. wide \in Nat
  BY <1>1, <1>2, Quotient
<1> HIDE DEF wide
<1>4. max_cols \in Nat \ {0}
  BY <1>3, MaxOfTwo
<1> HIDE DEF max_cols
<1>5. four \in Nat \ {0} /\ n <= four * 4
  BY CeilingIs DEF HeatmapRowLimit
<1>6. six \in Nat \ {0}
  BY <1>4 DEF Lower
<1> HIDE DEF four, six
<1>7. cols \in Nat \ {0} /\ four <= cols
  <2>1. cols = IF six >= four THEN six ELSE four
    BY <1>5, <1>6, MaxOfTwo
  <2> HIDE DEF cols
  <2> QED
    BY <1>5, <1>6, <2>1
<1>8. core_heatmap_rows(n, width, show_kind) =
        IF cols <= max_cols THEN RowsOf(n, cols, Lower(CeilDiv(n, cols), HeatmapRowLimit))
        ELSE compact_core_heatmap_rows(n)
  BY DEF core_heatmap_rows, max_cols, wide, cell_width, six, four
<1> HIDE DEF cols
<1>9. FlattenSeq(RowsOf(n, cols, Lower(CeilDiv(n, cols), HeatmapRowLimit))) = [i \in 1 .. n |-> i - 1]
  <2>1. n <= 4 * cols
    BY <1>5, <1>7
  <2>2. CeilDiv(n, cols) <= 4
    BY <1>7, <2>1, CeilingLeast
  <2>3. CeilDiv(n, cols) \in Nat
    BY <1>7, CeilingIs
  <2>4. Lower(CeilDiv(n, cols), HeatmapRowLimit) = CeilDiv(n, cols)
    BY <2>2, <2>3 DEF Lower, HeatmapRowLimit
  <2> QED
    BY <1>7, <2>3, <2>4, RowsCover
<1>10. FlattenSeq(compact_core_heatmap_rows(n)) = [i \in 1 .. n |-> i - 1]
  <2> DEFINE rows == Lower(n, HeatmapRowLimit)
             per_row == CeilDiv(n, rows)
  <2>1. rows \in Nat \ {0}
    BY DEF Lower, HeatmapRowLimit
  <2>2. compact_core_heatmap_rows(n) = RowsOf(n, per_row, rows)
    BY DEF compact_core_heatmap_rows
  <2> HIDE DEF rows
  <2>3. per_row \in Nat \ {0} /\ n <= per_row * rows
    BY <2>1, CeilingIs
  <2> HIDE DEF per_row
  <2>4. n <= rows * per_row
    BY <2>1, <2>3
  <2>5. CeilDiv(n, per_row) <= rows
    BY <2>1, <2>3, <2>4, CeilingLeast
  <2> QED
    BY <2>1, <2>2, <2>3, <2>5, RowsCover
<1> QED
  BY <1>8, <1>9, <1>10

-----------------------------------------------------------------------------
(* The view.                                                               *)

\* What the fast worker detects once it has seen the CPUs online.
Detected == detect_topology(Highest + 1)

LEMMA DetectedIs ==
  ASSUME Running
  PROVE  /\ Detected.logical_cpus = Cardinality(Asked)
         /\ Detected.physical_cores = count_unique_groups(Groups)
         /\ Detected.performance_cores = count_kind_groups(Groups, Kinds, "Performance")
         /\ Detected.efficiency_cores = count_kind_groups(Groups, Kinds, "Efficiency")
         /\ Detected.low_power_cores = count_kind_groups(Groups, Kinds, "LowPower")
         /\ Detected.core_kinds = Kinds
         /\ Detected.physical_core_groups = Cores
         /\ Detected.online = OnlineNow
<1> DEFINE n == Highest + 1
           indices == online_cpu_indices(n)
           span == Max(indices) + 1
           groups == read_core_groups(indices, span)
           kinds == ResolvedKinds(indices, span)
<1>1. indices = Asked
  BY DEF Asked
<1>2. span = Reach + 1
  BY <1>1 DEF Reach
<1>3. span - 1 = Reach
  <2>1. Reach \in Nat
    BY AskedAre
  <2> HIDE DEF span
  <2> QED
    BY <1>2, <2>1
<1>4. Detected =
        [logical_cpus |-> Cardinality(indices), physical_cores |-> count_unique_groups(groups),
         performance_cores |-> count_kind_groups(groups, kinds, "Performance"),
         efficiency_cores |-> count_kind_groups(groups, kinds, "Efficiency"),
         low_power_cores |-> count_kind_groups(groups, kinds, "LowPower"),
         core_kinds |-> kinds, physical_core_groups |-> build_physical_core_groups(groups, kinds),
         online |-> [c \in 0 .. (span - 1) |-> c \in indices]]
  BY DEF Detected, detect_topology
<1> HIDE DEF n, indices, span
<1>5. groups = Groups
  BY <1>1, <1>2 DEF Groups
<1>6. kinds = Kinds
  BY <1>1, <1>2 DEF Kinds
<1> HIDE DEF groups, kinds
<1>7. build_physical_core_groups(groups, kinds) = Cores
  BY <1>5, <1>6 DEF Cores
<1>8. [c \in 0 .. (span - 1) |-> c \in indices] = OnlineNow
  BY <1>1, <1>3 DEF OnlineNow
<1> DEFINE online == [c \in 0 .. (span - 1) |-> c \in indices]
           cores == build_physical_core_groups(groups, kinds)
           unique == count_unique_groups(groups)
           p == count_kind_groups(groups, kinds, "Performance")
           e == count_kind_groups(groups, kinds, "Efficiency")
           l == count_kind_groups(groups, kinds, "LowPower")
           cpus == Cardinality(indices)
<1> HIDE DEF online, cores, unique, p, e, l, cpus
<1>9. Detected = [logical_cpus |-> cpus, physical_cores |-> unique, performance_cores |-> p,
                  efficiency_cores |-> e, low_power_cores |-> l, core_kinds |-> kinds,
                  physical_core_groups |-> cores, online |-> online]
  BY <1>4 DEF online, cores, unique, p, e, l, cpus
<1>10. /\ Detected.logical_cpus = cpus /\ Detected.physical_cores = unique
       /\ Detected.performance_cores = p /\ Detected.efficiency_cores = e
       /\ Detected.low_power_cores = l /\ Detected.core_kinds = kinds
       /\ Detected.physical_core_groups = cores /\ Detected.online = online
  BY <1>9
<1>11. online = OnlineNow /\ cores = Cores
  BY <1>7, <1>8 DEF online, cores
<1> QED
  BY <1>1, <1>5, <1>6, <1>10, <1>11 DEF cpus, unique, p, e, l

LEMMA TitleShows ==
  ASSUME Running, Steady, "p" \in DOMAIN system_panel_title(Detected)
  PROVE  LET title == system_panel_title(Detected)
         IN  /\ title.p + title.e + title.low = Cardinality({hardware.core[c] : c \in running})
             /\ (WholeCores \/ Told) /\ Two =>
                  /\ title.p = Cardinality(TrueCores("P"))
                  /\ title.e = Cardinality(TrueCores("E"))
                  /\ title.low = Cardinality(TrueCores("L"))
<1> DEFINE t == Detected
           title == system_panel_title(t)
<1>1. /\ t.performance_cores = count_kind_groups(Groups, Kinds, "Performance")
      /\ t.efficiency_cores = count_kind_groups(Groups, Kinds, "Efficiency")
      /\ t.low_power_cores = count_kind_groups(Groups, Kinds, "LowPower")
      /\ t.core_kinds = Kinds
  BY DetectedIs
<1> HIDE DEF t
<1>2. title = IF ~is_hybrid(t) THEN [cores |-> t.physical_cores, threads |-> t.logical_cpus]
              ELSE IF t.performance_cores = None \/ t.efficiency_cores = None
              THEN [p_threads |-> threads(t, "Performance"), e_threads |-> threads(t, "Efficiency"),
                    low |-> t.low_power_cores]
              ELSE [p |-> t.performance_cores, e |-> t.efficiency_cores, threads |-> t.logical_cpus,
                    low |-> t.low_power_cores]
  BY DEF system_panel_title
<1>3. "p" \in DOMAIN title
  BY DEF t
<1> HIDE DEF title
<1>4. /\ is_hybrid(t) /\ t.performance_cores # None
      /\ title = [p |-> t.performance_cores, e |-> t.efficiency_cores, threads |-> t.logical_cpus,
                  low |-> t.low_power_cores]
  BY <1>2, <1>3
<1>5. has_both_core_kinds(Kinds)
  BY <1>1, <1>4 DEF is_hybrid
<1>6. title.p = t.performance_cores /\ title.e = t.efficiency_cores /\ title.low = t.low_power_cores
  BY <1>4
<1>7. /\ "Performance" \in CoreKinds \ {"Unknown"} /\ "Efficiency" \in CoreKinds \ {"Unknown"}
      /\ "LowPower" \in CoreKinds \ {"Unknown"}
  BY DEF CoreKinds
<1>8. /\ title.p = Cardinality(CoresOf("Performance")) /\ title.e = Cardinality(CoresOf("Efficiency"))
      /\ title.low = Cardinality(CoresOf("LowPower"))
  <2>1. \A kind \in CoreKinds \ {"Unknown"} :
          count_kind_groups(Groups, Kinds, kind) = Cardinality(CoresOf(kind))
    BY <1>1, <1>4, <1>5, KindsCounted
  <2> QED
    BY <1>1, <1>6, <1>7, <2>1
<1>9. title.p + title.e + title.low = Cardinality({hardware.core[c] : c \in running})
  <2>1. PICK a \in 0 .. Reach : Kinds[a] = "Performance"
    <3>1. DOMAIN Kinds = 0 .. Reach /\ "Performance" \in Range(Kinds)
      BY <1>5, KindsTyped DEF has_both_core_kinds
    <3> QED
      BY <3>1 DEF Range
  <2>2. Cardinality(CoresOf("Performance")) + Cardinality(CoresOf("Efficiency"))
          + Cardinality(CoresOf("LowPower")) = Cardinality({hardware.core[c] : c \in running})
    BY <2>1, KindsPartition
  <2> QED
    BY <1>8, <2>2
<1>10. ASSUME WholeCores \/ Told, Two
       PROVE  /\ title.p = Cardinality(TrueCores("P"))
              /\ title.e = Cardinality(TrueCores("E"))
              /\ title.low = Cardinality(TrueCores("L"))
  <2>1. \A class \in Classes : CoresOf(KindOf(class)) = TrueCores(class)
    BY <1>5, <1>10, KindsExact, ExactlyCounted
  <2>2. KindOf("P") = "Performance" /\ KindOf("E") = "Efficiency" /\ KindOf("L") = "LowPower"
    BY DEF KindOf
  <2>3. "P" \in Classes /\ "E" \in Classes /\ "L" \in Classes
    BY DEF Classes
  <2> QED
    BY <1>8, <2>1, <2>2, <2>3
<1> QED
  BY <1>9, <1>10 DEF title, t

\* The view is of the CPUs as they were detected, and of their last loads.
TopologyInv ==
  /\ Running
  /\ \/ usage_of = None /\ topology = None
     \/ loads \in CpuLoads /\ usage_of = UsageOf(loads) /\ topology = Detected

LEMMA ViewIsTrue == ASSUME TopologyInv PROVE CoreViewIsTrue
<1> SUFFICES ASSUME topology # None PROVE CoreViewIsTrue
  BY DEF CoreViewIsTrue
<1>1. Running /\ loads \in CpuLoads /\ usage_of = UsageOf(loads) /\ topology = Detected
  BY DEF TopologyInv
<1> DEFINE cells == draw_system_cells(topology, usage_of)
           title == system_panel_title(topology)
           bars == physical_core_minibar_rows(usage_of, topology.online, topology.physical_core_groups)
           Own(bar) == bar.percent.part * Cardinality(bar.cpus) =
                         SumFunctionOnSet(loads, bar.cpus) * bar.percent.whole
<1>2. /\ topology.logical_cpus = Cardinality(Asked)
      /\ topology.physical_cores = count_unique_groups(Groups)
      /\ topology.core_kinds = Kinds
      /\ topology.physical_core_groups = Cores
      /\ topology.online = OnlineNow
  BY <1>1, DetectedIs
<1>3. ASSUME NEW a \in DOMAIN topology.core_kinds, NEW b \in DOMAIN topology.core_kinds,
             topology.core_kinds[a] = "Performance", topology.core_kinds[b] = "Efficiency"
      PROVE  a \in AllCpus /\ b \in AllCpus /\ SpeedOf(ClassOf(a)) >= SpeedOf(ClassOf(b))
  <2>1. DOMAIN Kinds = 0 .. Reach
    BY <1>1, KindsTyped
  <2>2. a \in 0 .. Reach /\ b \in 0 .. Reach /\ Kinds[a] = "Performance" /\ Kinds[b] = "Efficiency"
    BY <1>2, <1>3, <2>1
  <2> QED
    BY <1>1, <2>2, FasterIsPerformance
<1>4. ASSUME Steady
      PROVE  /\ topology.physical_cores \in {None, Cardinality({hardware.core[c] : c \in running})}
             /\ "online" \in offers => topology.logical_cpus = Cardinality(running)
  <2>1. "online" \in offers => Asked = running
    BY <1>1, <1>4, AskedAre DEF Steady
  <2>2. count_unique_groups(Groups) \in {None, Cardinality({hardware.core[c] : c \in running})}
    BY <1>1, <1>4, CoresCounted
  <2> QED
    BY <1>2, <2>1, <2>2
<1>5. ASSUME Steady, "p" \in DOMAIN title
      PROVE  /\ title.p + title.e + title.low = Cardinality({hardware.core[c] : c \in running})
             /\ (WholeCores \/ Told) /\ Two =>
                  /\ title.p = Cardinality(TrueCores("P"))
                  /\ title.e = Cardinality(TrueCores("E"))
                  /\ title.low = Cardinality(TrueCores("L"))
  BY <1>1, <1>5, TitleShows
<1>6. CellsAre(cells, loads)
  <2>1. topology.online = [d \in 0 .. Reach |-> d \in Asked]
    BY <1>2 DEF OnlineNow
  <2>2. CellsAre(draw_system_cells(topology, UsageOf(loads)), loads)
    BY <1>1, <2>1, CellsShow
  <2> QED
    BY <1>1, <2>2
<1>7. /\ \A bar \in Range(bars.p) \union Range(bars.e) :
           bar.cpus # {} /\ bar.cpus \subseteq running /\ Own(bar)
      /\ Steady /\ HasMinibar(topology) => bars.p # <<>>
  <2>1. HasMinibar(topology) => has_both_core_kinds(Kinds) /\ Cores # <<>>
    BY <1>2 DEF HasMinibar, is_hybrid
  <2> DEFINE shown == physical_core_minibar_rows(UsageOf(loads), OnlineNow, Cores)
  <2>2. bars = shown
    BY <1>1, <1>2
  <2>3. /\ \A bar \in Range(shown.p) \union Range(shown.e) : Owned(bar, loads)
        /\ Steady /\ has_both_core_kinds(Kinds) /\ Cores # <<>> => shown.p # <<>>
    BY <1>1, BarsShow
  <2> HIDE DEF bars, shown
  <2>4. \A bar : Owned(bar, loads) => bar.cpus # {} /\ bar.cpus \subseteq running /\ Own(bar)
    BY DEF Owned
  <2> QED
    BY <2>1, <2>2, <2>3, <2>4
<1>8. ASSUME NEW n \in Spans \union {Cardinality(DOMAIN usage_of)}, NEW width \in Widths,
             NEW show_kind \in BOOLEAN
      PROVE  FlattenSeq(core_heatmap_rows(n, width, show_kind)) = [i \in 1 .. n |-> i - 1]
  <2>1. DOMAIN usage_of = 0 .. Highest /\ Highest \in Nat
    BY <1>1, LoadsAre, RunningAre
  <2>2. Cardinality(DOMAIN usage_of) \in Nat \ {0}
    <3>1. Cardinality(0 .. Highest) = Highest + 1
      BY <2>1, UpTo
    <3> QED
      BY <2>1, <3>1
  <2>3. Spans \subseteq Nat \ {0} /\ Widths \subseteq Nat
    BY TopologyAssumption
  <2>4. n \in Nat \ {0} /\ width \in Nat
    BY <2>2, <2>3
  <2> QED
    BY <2>4, HeatmapCovers
<1> HIDE DEF cells, title, bars, Own
<1> QED
  BY <1>3, <1>4, <1>5, <1>6, <1>7, <1>8
     DEF CoreViewIsTrue, CellsAre, cells, title, bars, Own, Steady, Stays, WholeCores, Told, Two, Types

\* What was detected stays so: the machine does not change.
Machine == <<hardware, offers, running, departs>>

LEMMA DetectedStays ==
  ASSUME UNCHANGED Machine
  PROVE  /\ Running' <=> Running
         /\ Highest' = Highest
         /\ Detected' = Detected
         /\ \A level : UsageOf(level)' = UsageOf(level)
<1>1. hardware' = hardware /\ offers' = offers /\ running' = running /\ departs' = departs
  BY DEF Machine
<1>2. AllCpus' = AllCpus
  BY <1>1 DEF AllCpus
<1>3. Running' <=> Running
  BY <1>1, <1>2 DEF Running
<1>4. Highest' = Highest
  BY <1>1 DEF Highest
<1>5. \A stage, n : ReadAt(stage, n)' = ReadAt(stage, n)
  BY <1>2 DEF ReadAt
<1>6. \A read : Up(read)' = Up(read)
  BY <1>1 DEF Up
<1>7. \A c : ClassOf(c)' = ClassOf(c)
  BY <1>1 DEF ClassOf
<1>8. \A c, read : core_cpus_list(c, read)' = core_cpus_list(c, read)
  BY <1>1, <1>6 DEF core_cpus_list
<1>9. \A class, read : cpus_mask(class, read)' = cpus_mask(class, read)
  BY <1>1, <1>6, <1>7 DEF cpus_mask
<1>10. \A c, read : cpu_capacity(c, read)' = cpu_capacity(c, read)
  BY <1>1, <1>6, <1>7 DEF cpu_capacity
<1>11. \A n : online_cpu_indices(n)' = online_cpu_indices(n)
  BY <1>1, <1>5, <1>6 DEF online_cpu_indices
<1>12. \A c : read_core_group(c)' = read_core_group(c)
  BY <1>1, <1>5, <1>6, <1>8 DEF read_core_group
<1>13. \A indices, span : read_core_groups(indices, span)' = read_core_groups(indices, span)
  BY <1>12 DEF read_core_groups
<1>14. \A span : detect_kernel_core_groups(span)' = detect_kernel_core_groups(span)
  BY <1>5, <1>9 DEF detect_kernel_core_groups
<1>15. \A indices, span : detect_capacity_classes(indices, span)' = detect_capacity_classes(indices, span)
  BY <1>5, <1>10 DEF detect_capacity_classes
<1>16. \A indices, span : detect_smt_classes(indices, span)' = detect_smt_classes(indices, span)
  BY <1>5, <1>8 DEF detect_smt_classes
<1>17. \A indices, span : ResolvedKinds(indices, span)' = ResolvedKinds(indices, span)
  BY <1>1, <1>14, <1>15, <1>16 DEF ResolvedKinds
<1>18. Detected' = Detected
  BY <1>4, <1>11, <1>13, <1>17 DEF Detected, detect_topology
<1>19. \A level : UsageOf(level)' = UsageOf(level)
  BY <1>1, <1>4 DEF UsageOf
<1> QED
  BY <1>3, <1>4, <1>18, <1>19

LEMMA TopologySteps == TopologyInv /\ [TopologyNext]_topologyVars => TopologyInv'
<1> SUFFICES ASSUME TopologyInv, [TopologyNext]_topologyVars PROVE TopologyInv'
  OBVIOUS
<1>1. Running
  BY DEF TopologyInv
<1>2. CASE RefreshSystem
  <2>1. PICK level \in CpuLoads :
          LET usages == per_cpu_usage_by_id(CpusListed(level))
          IN  /\ loads' = level
              /\ usage_of' = usages
              /\ topology' = IF topology # None THEN topology
                             ELSE detect_topology(Cardinality(DOMAIN usages))
              /\ UNCHANGED <<hardware, offers, running, departs>>
    BY <1>2 DEF RefreshSystem, CpusListed
  <2>2. per_cpu_usage_by_id(CpusListed(level)) = UsageOf(level)
    BY <1>1, UsagesAre
  <2>3. Cardinality(DOMAIN UsageOf(level)) = Highest + 1
    <3>1. DOMAIN UsageOf(level) = 0 .. Highest /\ Highest \in Nat
      BY <1>1, LoadsAre, RunningAre
    <3>2. Cardinality(0 .. Highest) = Highest + 1
      BY <3>1, UpTo
    <3> QED
      BY <3>1, <3>2
  <2>4. UNCHANGED Machine
    BY <2>1 DEF Machine
  <2>5. Running' /\ Detected' = Detected /\ UsageOf(level)' = UsageOf(level)
    BY <1>1, <2>4, DetectedStays
  <2>6. topology' = Detected
    <3>1. topology' = IF topology # None THEN topology ELSE Detected
      BY <2>1, <2>2, <2>3 DEF Detected
    <3> QED
      BY <3>1 DEF TopologyInv
  <2>7. loads' \in CpuLoads /\ usage_of' = UsageOf(loads')
    BY <2>1, <2>2
  <2>8. \A x : UsageOf(x)' = UsageOf(x)
    BY <2>4, DetectedStays
  <2>9. (usage_of = UsageOf(loads))'
    BY <2>7, <2>4 DEF UsageOf, Highest, Machine
  <2> QED
    BY <2>5, <2>6, <2>7, <2>9 DEF TopologyInv
<1>3. CASE UNCHANGED topologyVars
  <2>1. UNCHANGED Machine /\ usage_of' = usage_of /\ loads' = loads /\ topology' = topology
    BY <1>3 DEF topologyVars, Machine
  <2>2. Running' /\ Detected' = Detected
    BY <1>1, <2>1, DetectedStays
  <2>3. UsageOf(loads)' = UsageOf(loads)
    BY <2>1 DEF UsageOf, Highest, Machine
  <2> QED
    BY <2>1, <2>2, <2>3 DEF TopologyInv
<1> QED
  BY <1>2, <1>3 DEF TopologyNext

\* The cells, the bars and the order of the kinds are true whatever the machine, what
\* its kernel offers, which CPUs are online, which one goes offline while detection
\* reads, and however often the loads are refreshed; the counts while no CPU goes
\* offline, with the conditions that CoreViewIsTrue names.
THEOREM CoreViewSafe == TopologySpec => []CoreViewIsTrue
<1>1. TopologyInit => TopologyInv
  BY DEF TopologyInit, TopologyInv, Running
<1>2. TopologyInv /\ [TopologyNext]_topologyVars => TopologyInv'
  BY TopologySteps
<1>3. TopologyInv => CoreViewIsTrue
  BY ViewIsTrue
<1> QED
  BY <1>1, <1>2, <1>3, PTL DEF TopologySpec
==============================================================================

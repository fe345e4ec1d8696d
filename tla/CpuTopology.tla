----------------------------- MODULE CpuTopology -----------------------------
(***************************************************************************)
(* The CPU topology (cpu.rs), detected once by the fast worker, and the    *)
(* view of the cores that the system panel paints from it and from the     *)
(* usage of each CPU (app/process.rs, ui/system.rs).                       *)
(*                                                                         *)
(* Detection reads many files one after the other, and a CPU may go        *)
(* offline between two of them.  CPUs are numbered from 0, as in the       *)
(* kernel.  The model name, colours and glyphs are left out.               *)
(***************************************************************************)
EXTENDS Options, Sequences, SequencesExt, FiniteSetsExt

CONSTANTS
  Hardwares,    \* [core : cpu -> core, class : core -> "P", "E" or "L", vendor]
  Kernels,      \* what a kernel offers: sets of "online", "list", "ids", "masks", "capacity"
  Capacity,     \* the cpu_capacity of each class
  CpuLoads,     \* functions from CPU numbers to their loads
  Widths, Spans \* widths of the panel, and CPU counts it is laid out for

VARIABLES
  hardware,     \* constant
  offers,       \* what this kernel offers; constant
  running,      \* the CPUs that are online at the start
  departs,      \* None or [cpu, at]: cpu goes offline before the read numbered at
  usage_of,     \* per_cpu_usage of the last snapshot
  loads,        \* auxiliary: the loads at that time
  topology      \* cpu_topology of the fast worker

topologyVars == <<hardware, offers, running, departs, usage_of, loads, topology>>

CoreKinds == {"Unknown", "Performance", "Efficiency", "LowPower"}

\* The faster a class, the larger its capacity; an E-core is slower by more than the
\* 5 % that detection calls a difference.  On Intel only a P-core has several threads,
\* as the fall-back to siblings assumes ("P-cores have more sibling threads").
ASSUME TopologyAssumption ==
  /\ \A h \in Hardwares :
       LET cpus == DOMAIN h.core
           threads_of(c) == {d \in cpus : h.core[d] = h.core[c]}
       IN  /\ IsFiniteSet(cpus) /\ cpus # {} /\ cpus = 0..(Cardinality(cpus) - 1)
           /\ \A c \in cpus : h.core[c] \in DOMAIN h.class
           /\ \A g \in DOMAIN h.class : h.class[g] \in {"P", "E", "L"}
           /\ h.vendor = "Intel" => \A c, d \in cpus :
                /\ h.class[h.core[c]] # "P" => Cardinality(threads_of(c)) = 1
                /\ h.class[h.core[c]] = h.class[h.core[d]] =>
                     Cardinality(threads_of(c)) = Cardinality(threads_of(d))
           /\ \A c \in SUBSET cpus : None # c /\ None # <<"list", c>>
           /\ \A g \in DOMAIN h.class : None # <<"ids", g>>
           /\ \A n \in cpus : \A kinds \in [0..n -> CoreKinds] : None # kinds
           /\ \A now \in CpuLoads, c \in cpus : now[c] \in Nat
  /\ {Capacity["P"], Capacity["E"], Capacity["L"]} \subseteq Nat \ {0}
  /\ Capacity["L"] <= Capacity["E"] /\ Capacity["E"] * 100 <= Capacity["P"] * 95
  /\ Widths \subseteq Nat /\ Spans \subseteq Nat \ {0} /\ None \notin Nat

-----------------------------------------------------------------------------
(* The kernel's files.  A read is numbered by its stage and, within it, by *)
(* the CPU or the file it is about.                                        *)

AllCpus == DOMAIN hardware.core
ReadAt(stage, n) == stage * Cardinality(AllCpus) + n
Up(read) == {c \in running : departs = None \/ departs.cpu # c \/ read < departs.at}
ClassOf(c) == hardware.class[hardware.core[c]]

core_cpus_list(c, read) ==
  IF "list" \in offers /\ c \in Up(read)
  THEN {d \in Up(read) : hardware.core[d] = hardware.core[c]} ELSE None

\* A hybrid part has a mask of the online CPUs of each class.
cpus_mask(class, read) ==
  IF "masks" \in offers /\ Cardinality(Range(hardware.class)) > 1
  THEN {c \in Up(read) : ClassOf(c) = class} ELSE {}

cpu_capacity(c, read) ==
  IF "capacity" \in offers /\ c \in Up(read) THEN Capacity[ClassOf(c)] ELSE None

-----------------------------------------------------------------------------
(* Detection.                                                              *)

online_cpu_indices(logical_cpus) ==
  IF "online" \in offers /\ Up(ReadAt(0, 0)) # {} THEN Up(ReadAt(0, 0)) ELSE 0..(logical_cpus - 1)

has_multiple_core_kinds(kinds) == Cardinality(Range(kinds)) >= 2
has_both_core_kinds(kinds) == {"Performance", "Efficiency"} \subseteq Range(kinds)

read_core_group(c) ==
  LET read == ReadAt(1, c)
  IN  IF core_cpus_list(c, read) # None THEN <<"list", core_cpus_list(c, read)>>
      ELSE IF "ids" \in offers /\ c \in Up(read) THEN <<"ids", hardware.core[c]>>
      ELSE None

read_core_groups(indices, span) ==
  [c \in 0..(span - 1) |-> IF c \in indices THEN read_core_group(c) ELSE None]

\* The masks are disjoint; what lies outside the span is ignored.
detect_kernel_core_groups(span) ==
  [c \in 0..(span - 1) |->
     IF c \in cpus_mask("L", ReadAt(2, 2)) THEN "LowPower"
     ELSE IF c \in cpus_mask("E", ReadAt(2, 1)) THEN "Efficiency"
     ELSE IF c \in cpus_mask("P", ReadAt(2, 0)) THEN "Performance"
     ELSE "Unknown"]

\* Over the CPUs that reported a capacity; a difference below 5 % is none.
classify_capacity_values(values) ==
  LET known == Range(values) \ {None}
      split == (Min(known) + Max(known) + 1) \div 2
      kinds == [c \in DOMAIN values |-> IF values[c] = None THEN "Unknown"
                                        ELSE IF values[c] >= split THEN "Performance"
                                        ELSE "Efficiency"]
  IN  IF known = {} THEN None
      ELSE IF Max(known) = 0 \/ Min(known) * 100 > Max(known) * 95 THEN None
      ELSE IF has_both_core_kinds(kinds) THEN kinds ELSE None

detect_capacity_classes(indices, span) ==
  classify_capacity_values(
    [c \in 0..(span - 1) |-> IF c \in indices THEN cpu_capacity(c, ReadAt(3, c)) ELSE None])

\* Only the largest and the smallest number of siblings are classes.
classify_sibling_counts(counts) ==
  LET known == Range(counts) \ {None}
      kinds == [c \in DOMAIN counts |-> IF counts[c] = None THEN "Unknown"
                                        ELSE IF counts[c] = Max(known) THEN "Performance"
                                        ELSE "Efficiency"]
  IN  IF Cardinality(known) # 2 \/ Min(known) = 0 THEN None ELSE kinds

detect_smt_classes(indices, span) ==
  LET siblings == [c \in 0..(span - 1) |->
                     IF c \in indices THEN core_cpus_list(c, ReadAt(4, c)) ELSE None]
  IN  classify_sibling_counts(
        [c \in DOMAIN siblings |-> IF siblings[c] = None THEN None ELSE Cardinality(siblings[c])])

\* A core whose CPUs disagree is of no known kind.
build_physical_core_groups(groups, kinds) ==
  LET members(g) == {c \in DOMAIN groups : groups[c] = g}
      found == {members(g) : g \in Range(groups) \ {None}}
      core(cpus) == [logical_cpus |-> cpus,
                     kind |-> IF Cardinality({kinds[c] : c \in cpus}) = 1
                              THEN kinds[Min(cpus)] ELSE "Unknown"]
  IN  Ordered({core(cpus) : cpus \in found},
              LAMBDA a, b : Min(a.logical_cpus) < Min(b.logical_cpus))

\* Without any group the number of cores is unknown.
count_unique_groups(groups) ==
  LET found == Range(groups) \ {None} IN IF found = {} THEN None ELSE Cardinality(found)

count_kind_groups(groups, kinds, target) ==
  LET found == {groups[c] : c \in {c \in DOMAIN kinds : kinds[c] = target}}
  IN  IF ~has_multiple_core_kinds(kinds) \/ None \in found THEN None ELSE Cardinality(found)

\* The kernel's masks, else the capacities, else on Intel the siblings, else nothing.
ResolvedKinds(indices, span) ==
  LET masks == detect_kernel_core_groups(span)
      capacities == Or(detect_capacity_classes(indices, span), masks)
      siblings == Or(detect_smt_classes(indices, span), capacities)
      first == IF has_multiple_core_kinds(masks) THEN masks ELSE capacities
      second == IF has_multiple_core_kinds(first) \/ hardware.vendor # "Intel"
                THEN first ELSE siblings
  IN  IF has_multiple_core_kinds(second) THEN second ELSE [c \in 0..(span - 1) |-> "Unknown"]

detect_topology(logical_cpus) ==
  LET indices == online_cpu_indices(logical_cpus)
      span == Max(indices) + 1
      groups == read_core_groups(indices, span)
      kinds == ResolvedKinds(indices, span)
  IN  [logical_cpus |-> Cardinality(indices), physical_cores |-> count_unique_groups(groups),
       performance_cores |-> count_kind_groups(groups, kinds, "Performance"),
       efficiency_cores |-> count_kind_groups(groups, kinds, "Efficiency"),
       low_power_cores |-> count_kind_groups(groups, kinds, "LowPower"),
       core_kinds |-> kinds, physical_core_groups |-> build_physical_core_groups(groups, kinds),
       online |-> [c \in 0..(span - 1) |-> c \in indices]]

-----------------------------------------------------------------------------
(* The view.                                                               *)

\* Mutant: the order of the list is taken for the number of the CPU.
per_cpu_usage_by_id_compact(cpus) == [i \in 0..(Len(cpus) - 1) |-> cpus[i + 1].value]

\* By the CPU's number, which its name carries on Linux; holes stay 0.
per_cpu_usage_by_id(cpus) ==
  LET ids == {cpus[i].id : i \in DOMAIN cpus}
  IN  [c \in 0..Max(ids) |->
         IF c \in ids THEN (CHOOSE cpu \in ToSet(cpus) : cpu.id = c).value ELSE 0]

is_hybrid(t) == has_both_core_kinds(t.core_kinds)
threads(t, kind) == Cardinality({c \in DOMAIN t.core_kinds : t.core_kinds[c] = kind})

system_panel_title(t) ==
  IF ~is_hybrid(t) THEN [cores |-> t.physical_cores, threads |-> t.logical_cpus]
  ELSE IF t.performance_cores = None \/ t.efficiency_cores = None
  THEN [p_threads |-> threads(t, "Performance"), e_threads |-> threads(t, "Efficiency"),
        low |-> t.low_power_cores]
  ELSE [p |-> t.performance_cores, e |-> t.efficiency_cores, threads |-> t.logical_cpus,
        low |-> t.low_power_cores]

ShownOffline(online, c) == c \in DOMAIN online /\ ~online[c]

\* Offline siblings do not count; the average is the fraction part / whole.
physical_core_average(core, usages, online) ==
  LET counted == {c \in core.logical_cpus : ~ShownOffline(online, c) /\ c \in DOMAIN usages}
  IN  IF counted = {} THEN [part |-> 0, whole |-> 1]
      ELSE [part |-> SumFunctionOnSet(usages, counted), whole |-> Cardinality(counted)]

\* The bars of the cores of one kind, in their order.
BarsOf(kind, usages, online, cores) ==
  LET bar(core) == [cpus |-> core.logical_cpus,
                    percent |-> physical_core_average(core, usages, online)]
  IN  FlattenSeq([i \in DOMAIN cores |->
                    IF cores[i].kind = kind THEN <<bar(cores[i])>> ELSE <<>>])

physical_core_minibar_rows(usages, online, cores) ==
  LET bars(kind) == BarsOf(kind, usages, online, cores)
      p == bars("Performance")
      e == bars("Efficiency")
  IN  IF p = <<>> \/ e = <<>> THEN [p |-> <<>>, e |-> <<>>] ELSE [p |-> p, e |-> e]

CeilDiv(m, n) == (m + n - 1) \div n
Digits(n) == IF n <= 100 THEN 2 ELSE IF n <= 1000 THEN 3 ELSE 4
HeatmapRowLimit == 4

\* The CPUs of each of at most that many rows.
RowsOf(n, per_row, rows) ==
  LET start(r) == (r - 1) * per_row
  IN  [r \in 1..Lower(rows, CeilDiv(n, per_row)) |->
         [k \in 1..(Lower(start(r) + per_row, n) - start(r)) |-> start(r) + k - 1]]

compact_core_heatmap_rows(n) ==
  LET rows == Lower(n, HeatmapRowLimit) IN RowsOf(n, CeilDiv(n, rows), rows)

\* Up to six numbered cells in a row, more if the rows do not suffice, and cells
\* without numbers if the width does not.
core_heatmap_rows(n, width, show_kind) ==
  LET cell_width == Digits(n) + (IF show_kind THEN 1 ELSE 0) + 2
      max_cols == Max({Minus(width, 2) \div cell_width, 1})
      cols == Max({Lower(6, max_cols), CeilDiv(n, HeatmapRowLimit)})
  IN  IF cols <= max_cols THEN RowsOf(n, cols, Lower(CeilDiv(n, cols), HeatmapRowLimit))
      ELSE compact_core_heatmap_rows(n)

\* One cell of the heatmap: a hole is a dash, not an idle CPU.
core_heatmap_cell(c, usages, kinds, online, busiest) ==
  [kind |-> IF c \in DOMAIN kinds THEN kinds[c] ELSE "Unknown",
   percent |-> IF ShownOffline(online, c) THEN None ELSE usages[c],
   bold |-> ~ShownOffline(online, c) /\ c = busiest]

\* The last of the CPUs with the largest usage.
Busiest(usages) == Max({c \in DOMAIN usages : usages[c] = Max(Range(usages))})

HasMinibar(t) == is_hybrid(t) /\ t.physical_core_groups # <<>>

draw_system_cells(t, usages) ==
  [c \in DOMAIN usages |->
     core_heatmap_cell(c, usages, t.core_kinds, t.online, Busiest(usages))]

-----------------------------------------------------------------------------
TopologyInit ==
  /\ hardware \in Hardwares
  /\ offers \in Kernels
  /\ running \in (SUBSET AllCpus) \ {{}}
  /\ departs \in {None} \union [cpu : running, at : 0..ReadAt(5, 0)]
  /\ running # {IF departs = None THEN None ELSE departs.cpu}
  /\ usage_of = None /\ loads = None /\ topology = None

\* The system cadence of the fast worker; sysinfo lists the CPUs it first saw.
RefreshSystem == \E now \in CpuLoads :
  LET ids == Ordered(running, LAMBDA a, b : a < b)
      cpus == [i \in DOMAIN ids |-> [id |-> ids[i], value |-> now[ids[i]]]]
      usages == per_cpu_usage_by_id(cpus)
  IN  /\ loads' = now
      /\ usage_of' = usages
      /\ topology' = IF topology # None THEN topology
                     ELSE detect_topology(Cardinality(DOMAIN usages))
      /\ UNCHANGED <<hardware, offers, running, departs>>

TopologyNext == RefreshSystem

-----------------------------------------------------------------------------
(* Properties.                                                             *)

TrueCores(class) == {hardware.core[c] : c \in {c \in running : ClassOf(c) = class}}
SpeedOf(class) == CASE class = "P" -> 3 [] class = "E" -> 2 [] class = "L" -> 1

\* Whatever the kernel offers and whichever CPU goes offline between two reads,
\* detection never takes the slower of two CPUs for the P-core and the faster for the
\* E-core (detect_topology); each cell shows the usage of its own CPU, unless that is
\* the one that went, and each bar that of its own core, although the online CPUs need
\* not be a prefix; no CPU has more to do than a bold one; and each CPU has exactly one
\* cell at every width (per_cpu_usage_by_id, core_heatmap_rows).  Where the kernel
\* lists the online CPUs, a hole below one that stays is never an idle CPU.
\* While no CPU goes offline the cores are counted as they are, and each has one of
\* the kinds of the title; how many have which is known if every core has all of its
\* threads or the kernel tells the classes apart, and there are not three of them or
\* the kernel has masks.
CoreViewIsTrue ==
  topology # None =>
    LET listed == "online" \in offers
        stays == IF departs = None THEN running ELSE running \ {departs.cpu}
        cells == draw_system_cells(topology, usage_of)
        cores == {hardware.core[c] : c \in running}
        classes == {ClassOf(c) : c \in running}
        whole == \A c \in running, d \in AllCpus :
                   hardware.core[c] = hardware.core[d] => d \in running
        told == Cardinality(classes) > 1 /\ offers \intersect {"masks", "capacity"} # {}
        two == "L" \notin classes \/ "masks" \in offers
        bars == physical_core_minibar_rows(usage_of, topology.online,
                                           topology.physical_core_groups)
        Own(bar) == bar.percent.part * Cardinality(bar.cpus) =
                      SumFunctionOnSet(loads, bar.cpus) * bar.percent.whole
        title == system_panel_title(topology)
    IN  /\ \A a, b \in DOMAIN topology.core_kinds :
             topology.core_kinds[a] = "Performance" /\ topology.core_kinds[b] = "Efficiency" =>
               a \in AllCpus /\ b \in AllCpus /\ SpeedOf(ClassOf(a)) >= SpeedOf(ClassOf(b))
        /\ \A c \in DOMAIN cells :
             /\ c \in stays => cells[c].percent = loads[c]
             /\ c \in running \ stays => cells[c].percent \in {loads[c], None}
             /\ c \notin running /\ listed /\ (\E d \in stays : c < d) => cells[c].percent = None
             /\ cells[c].bold => \A d \in running : loads[d] <= cells[c].percent
        /\ \A bar \in Range(bars.p) \union Range(bars.e) :
             bar.cpus # {} /\ bar.cpus \subseteq running /\ Own(bar)
        /\ departs = None =>
             /\ topology.physical_cores \in {None, Cardinality(cores)}
             /\ listed => topology.logical_cpus = Cardinality(running)
             /\ HasMinibar(topology) => bars.p # <<>>
             /\ "p" \in DOMAIN title => title.p + title.e + title.low = Cardinality(cores)
             /\ (whole \/ told) /\ two /\ "p" \in DOMAIN title =>
                  /\ title.p = Cardinality(TrueCores("P"))
                  /\ title.e = Cardinality(TrueCores("E"))
                  /\ title.low = Cardinality(TrueCores("L"))
        /\ \A n \in Spans \union {Cardinality(DOMAIN usage_of)}, width \in Widths :
             \A show_kind \in BOOLEAN :
               FlattenSeq(core_heatmap_rows(n, width, show_kind)) = [i \in 1..n |-> i - 1]
==============================================================================

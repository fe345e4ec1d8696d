----------------------------- MODULE GpuDevices ------------------------------
(***************************************************************************)
(* The GPU that is shown and the GPUs a server uses: discovery             *)
(* (discovery.rs), the choice of a provider and its device (gpu.rs,        *)
(* providers/), the evidence for a process (gpu_map.rs) and the mark in    *)
(* the panel that joins them (ui/gpu_panel.rs).                            *)
(*                                                                         *)
(* The identities come from three sources, the DRM directories, the        *)
(* provider's NVML handle and that of the scan, and any of them may not    *)
(* tell all of it.  An identity is a tuple: <<"bdf", b>>, <<"uuid", u>> of *)
(* a physical GPU, <<"legacy", u, i>> of instance i of GPU u,              *)
(* <<"opaque", m>> of a MIG device, <<"synthetic", parent, slot>> of one   *)
(* without a UUID.  The readings themselves are left out.                  *)
(***************************************************************************)
EXTENDS Options, Sequences, FiniteSets, FiniteSetsExt, SequencesExt

CONSTANTS
  Machines,     \* sets of GPUs: [bdf, order, class, pci_vendor, driver, uuid, children]
  MaxUnread,    \* bound on the GPUs whose identity an enumeration cannot read in full
  MaxUses,      \* bound on the uses a process makes of the GPUs
  Selectors     \* [by |-> "Auto"], [by |-> "Index", index], [by |-> "PciBusId" or "Uuid", key]

VARIABLES
  machine,      \* the GPUs of this machine; constant
  usage,        \* how the server process uses them; constant: a scan keeps nothing of the last
  provider,     \* the GpuProvider of the fast worker
  panel,        \* GpuStats of the last sample, with the GPU that was read
  mig_topology, \* mig_children of the fast worker, captured once
  gpu_map,      \* GpuMapping of the last scan
  named         \* auxiliary: there was a scan, and NVML named all GPUs to the last one

\* The cards of a machine have one address each, and NVIDIA GPUs one UUID each; the
\* nvidia driver binds display controllers; the UUID of a MIG device, when it tells an
\* instance, tells the GPU.
ASSUME MachinesAssumption ==
  /\ \A cards \in Machines :
       /\ IsFiniteSet(cards)
       /\ \A g \in cards :
            /\ g.order \in Int /\ None \notin {<<"bdf", g.bdf>>, <<"uuid", g.uuid>>}
            /\ g.driver = "nvidia" => g.class # "other"
            /\ \A slot \in DOMAIN g.children :
                 \/ g.children[slot] = None \/ g.children[slot][1] = "opaque"
                 \/ g.children[slot] = <<"legacy", g.uuid, g.children[slot][3]>>
       /\ \A g, h \in cards :
            g # h => /\ g.order # h.order /\ g.bdf # h.bdf
                     /\ g.driver = "nvidia" /\ h.driver = "nvidia" => g.uuid # h.uuid
  /\ \A selector \in Selectors : selector.by = "Index" => selector.index \in Nat

gpuVars == <<machine, usage, provider, panel, mig_topology, gpu_map, named>>

-----------------------------------------------------------------------------
(* Identities.                                                             *)

DeviceId(pci_bdf, uuid) == [pci_bdf |-> pci_bdf, uuid |-> uuid]
key(device) == Or(device.pci_bdf, device.uuid)

mig_instance(uuid) == IF uuid # None /\ uuid[1] = "legacy" THEN uuid[3] ELSE None

mig_parent_uuid(device) ==
  IF device.uuid = None THEN None
  ELSE IF device.uuid[1] = "legacy" THEN <<"uuid", device.uuid[2]>>
  ELSE IF device.uuid[1] = "synthetic" THEN device.uuid[2]
  ELSE None

\* What NVML tells of a device: its bus id and UUID may each be missing.
NvmlGpus == {g \in machine : g.driver = "nvidia"}
NvmlIndex(g) == Cardinality({h \in NvmlGpus : h.order < g.order})
Unread(knows) == {g \in NvmlGpus : knows[g] # {"bdf", "uuid"}}
NvmlKnows ==
  {knows \in [NvmlGpus -> SUBSET {"bdf", "uuid"}] : Cardinality(Unread(knows)) <= MaxUnread}

NvmlDevice(g, knows) ==
  DeviceId(IF "bdf" \in knows[g] THEN <<"bdf", g.bdf>> ELSE None,
           IF "uuid" \in knows[g] THEN <<"uuid", g.uuid>> ELSE None)

-----------------------------------------------------------------------------
(* Discovery.                                                              *)

vendor_from_pci_id(id) == IF id \in {"Nvidia", "Amd", "Intel"} THEN id ELSE "Other"

\* The bound driver decides, else the PCI id.
VendorOf(g) ==
  CASE g.driver = "nvidia" -> "Nvidia"
    [] g.driver = "amdgpu" -> "Amd"
    [] g.driver \in {"i915", "xe"} -> "Intel"
    [] OTHER -> vendor_from_pci_id(g.pci_vendor)

InBusOrder(cards) == Ordered(cards, LAMBDA g, h : g.order < h.order)

\* Every card but those of another PCI class, by bus address.
discover_gpus(cards) ==
  LET displays == InBusOrder({g \in cards : g.class # "other"})
  IN  [i \in DOMAIN displays |->
         [device_id |-> DeviceId(<<"bdf", displays[i].bdf>>, None),
          vendor |-> VendorOf(displays[i]), driver |-> displays[i].driver]]

-----------------------------------------------------------------------------
(* The provider.                                                           *)

\* Iterator::nth over positions that are counted from 1; 0 for None.
nth(positions, n) ==
  IF n < Cardinality(positions)
  THEN CHOOSE i \in positions : Cardinality({j \in positions : j < i}) = n ELSE 0

\* The position in the discovery list.
resolve_discovered(selector, gpus) ==
  LET nvidia == {i \in DOMAIN gpus : gpus[i].vendor = "Nvidia"}
      choice == IF nvidia # {} THEN nvidia ELSE DOMAIN gpus
  IN  CASE selector.by = "Auto" -> nth(choice, 0)
        [] selector.by = "Index" -> nth(choice, selector.index)
        [] selector.by = "PciBusId" ->
             nth({i \in DOMAIN gpus : key(gpus[i].device_id) = selector.key}, 0)
        [] OTHER -> 0

\* A MIG device without a usable UUID is named after its parent and its slot.
mig_child_key(child, parent, slot) ==
  IF child # None THEN child
  ELSE <<"synthetic", Or(Or(parent.uuid, parent.pci_bdf), <<"bdf", "nvidia">>), slot>>

mig_children_of(g, parent) ==
  {[parent_index |-> NvmlIndex(g), parent |-> g.bdf,
    key |-> mig_child_key(g.children[slot], parent, slot)] : slot \in DOMAIN g.children}

\* The enumeration of an NVIDIA provider, taken once.
Enumeration(knows) ==
  LET gpus == InBusOrder(NvmlGpus)
  IN  [i \in DOMAIN gpus |-> [index |-> i - 1, device |-> NvmlDevice(gpus[i], knows),
                              bdf |-> gpus[i].bdf]]

NvidiaGpuProvider(selector, knows) ==
  [kind |-> "nvidia", selector |-> selector, devices |-> Enumeration(knows),
   mig_children |-> UNION {mig_children_of(g, NvmlDevice(g, knows)) : g \in NvmlGpus}]

new_gpu_provider(selector, gpus, knows) ==
  LET at == resolve_discovered(selector, gpus)
  IN  IF selector.by = "Uuid" THEN NvidiaGpuProvider(selector, knows)
      ELSE IF at = 0 THEN [kind |-> "unavailable"]
      ELSE IF gpus[at].vendor = "Nvidia" THEN NvidiaGpuProvider(selector, knows)
      ELSE IF gpus[at].vendor \in {"Amd", "Intel"}
      THEN [kind |-> "sysfs", device |-> gpus[at].device_id, index |-> at - 1]
      ELSE [kind |-> "unavailable"]

\* GpuSelector::resolve, against the provider's own enumeration.
resolve(selector, devices) ==
  LET matching ==
        {i \in DOMAIN devices :
           CASE selector.by = "Auto" -> TRUE
             [] selector.by = "Index" -> devices[i].index = selector.index
             [] selector.by = "Uuid" -> devices[i].device.uuid = selector.key
             [] OTHER -> devices[i].device.pci_bdf = selector.key}
  IN  IF matching = {} THEN None ELSE devices[Min(matching)]

NoSample == [available |-> FALSE, device |-> DeviceId(None, None), from |-> None]

\* A MIG device is sampled through its parent; a name that matches nothing, or a
\* device that cannot be opened, gives no sample.
resolve_sample(p) ==
  LET children == {c \in p.mig_children : p.selector.by = "Uuid" /\ c.key = p.selector.key}
      physical == resolve(p.selector, p.devices)
  IN  IF children # {}
      THEN LET child == CHOOSE c \in children : TRUE
           IN  [available |-> TRUE, device |-> DeviceId(None, child.key), from |-> child.parent]
      ELSE IF physical = None THEN NoSample
      ELSE [available |-> TRUE, device |-> physical.device, from |-> physical.bdf]

\* The outcomes of GpuProvider::sample: a sysfs provider keeps its identity when
\* its directory cannot be read.
Samples(p) ==
  IF p.kind = "unavailable" THEN {NoSample}
  ELSE IF p.kind = "nvidia" THEN {NoSample, resolve_sample(p)}
  ELSE {[available |-> readable, device |-> p.device, from |-> p.device.pci_bdf[2]] :
          readable \in BOOLEAN}

-----------------------------------------------------------------------------
(* The evidence for a process.                                             *)

\* By the device numbers of its open render nodes.
process_render_gpus(gpus) ==
  {gpus[i].device_id : i \in {i \in DOMAIN gpus :
     \E use \in usage : use.by = "node" /\ <<"bdf", use.bdf>> = gpus[i].device_id.pci_bdf}}

\* Mutant: an instance goes to any child of the device.
attribute_process_key_any(parent, children, instance) ==
  LET known == {c \in children : mig_instance(c.key) # None}
  IN  IF instance = None \/ known = {} THEN parent
      ELSE DeviceId(None, (CHOOSE c \in known : TRUE).key)

\* A placement on an instance belongs to the child that is known to be it.
attribute_process_key(parent, children, instance) ==
  LET matching == {c \in children : mig_instance(c.key) = instance}
  IN  IF instance = None \/ matching = {} THEN parent
      ELSE DeviceId(None, (CHOOSE c \in matching : TRUE).key)

\* A device of which NVML tells neither bus id nor UUID is left out.
nvml_compute_gpus(knows) ==
  UNION {{attribute_process_key(NvmlDevice(g, knows),
                                {c \in mig_topology : c.parent_index = NvmlIndex(g)},
                                use.instance) :
            use \in {use \in usage : use.by = "compute" /\ use.bdf = g.bdf}} :
         g \in {g \in NvmlGpus : knows[g] # {}}}

\* One device for each key; the render node's account of it is kept.
combine_gpus(render, nvml) == render \union {d \in nvml : \A r \in render : key(r) # key(d)}

\* Equal keys, or a MIG device and its parent.
gpu_in_mapping(device, devices) ==
  /\ key(device) # None
  /\ \E mapped \in devices :
       \/ key(mapped) = key(device)
       \/ mig_parent_uuid(device) # None /\ mig_parent_uuid(device) = mapped.uuid
       \/ mig_parent_uuid(mapped) # None /\ mig_parent_uuid(mapped) = device.uuid

-----------------------------------------------------------------------------
\* How a process can use a GPU: its render node, or as a compute client of the
\* GPU or one of its instances.
Uses ==
  {[by |-> "node", bdf |-> g.bdf, instance |-> None] : g \in machine} \union
  UNION {{[by |-> "compute", bdf |-> g.bdf, instance |-> i] :
            i \in {None} \union DOMAIN g.children} : g \in NvmlGpus}

GpuInit ==
  /\ machine \in Machines
  /\ usage \in UNION {kSubset(n, Uses) : n \in 0..MaxUses}
  /\ provider \in {new_gpu_provider([by |-> "Auto"], discover_gpus(machine), knows) :
                     knows \in NvmlKnows}
  /\ panel = NoSample
  /\ mig_topology \in {UNION {mig_children_of(g, NvmlDevice(g, knows)) :
                                g \in {g \in NvmlGpus : knows[g] # {}}} : knows \in NvmlKnows}
  /\ gpu_map = {} /\ named = FALSE

\* Another GPU is selected: the provider is built again.
SelectGpu == \E selector \in Selectors, knows \in NvmlKnows :
  /\ provider' = new_gpu_provider(selector, discover_gpus(machine), knows)
  /\ UNCHANGED <<machine, usage, panel, mig_topology, gpu_map, named>>

SampleGpu ==
  /\ panel' \in Samples(provider)
  /\ UNCHANGED <<machine, usage, provider, mig_topology, gpu_map, named>>

\* map_server_gpus on the process cadence; without evidence nothing is mapped.
ScanProcess == \E knows \in NvmlKnows :
  /\ gpu_map' = combine_gpus(process_render_gpus(discover_gpus(machine)),
                             nvml_compute_gpus(knows))
  /\ named' = (Unread(knows) = {})
  /\ UNCHANGED <<machine, usage, provider, panel, mig_topology>>

GpuNext == SelectGpu \/ SampleGpu \/ ScanProcess

-----------------------------------------------------------------------------
(* Properties.                                                             *)

\* The panel is marked as the server's only if the server was found on the very
\* GPU whose readings it shows, and for a MIG device with known instance ids, not
\* only on other such devices of that GPU; and when NVML could name every GPU, a
\* physical GPU the server was found on is marked (gpu_in_mapping, combine_gpus,
\* attribute_process_keys).
MarkIsTrue ==
  LET marked == gpu_in_mapping(panel.device, gpu_map)
      instance == mig_instance(panel.device.uuid)
      Here == {use \in usage : use.bdf = panel.from}
      OnAnother(use) ==
        /\ use.instance # instance
        /\ \E c \in mig_topology : c.parent = use.bdf /\ mig_instance(c.key) = use.instance
  IN  /\ marked => Here # {}
      /\ marked /\ instance # None =>
           \E use \in Here : use.instance = None \/ ~OnAnother(use)
      /\ named /\ panel.device.pci_bdf # None /\ Here # {} =>
           marked \/ panel.device.uuid = None
==============================================================================

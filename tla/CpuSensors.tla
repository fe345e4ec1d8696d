----------------------------- MODULE CpuSensors ------------------------------
(***************************************************************************)
(* The CPU sensors and counters of the fast worker (cpu_sensors.rs,        *)
(* app/process.rs): package power from two reads of the energy counters,   *)
(* temperature, frequency and I/O wait.                                    *)
(*                                                                         *)
(* The packages burn energy while the files are read one by one.  Any read *)
(* may fail, energy counters wrap, and the kernel may take I/O wait back.  *)
(* Power is kept as energy and time; the texts of the files are left out.  *)
(***************************************************************************)
EXTENDS Options, Sequences, SequencesExt, FiniteSetsExt, Functions

CONSTANTS
  Packages,     \* CPU packages
  Powercaps,    \* the zones of a kernel: sequences of [driver, name, package, udelay, max_range]
  Hwmons,       \* sequences of temperature inputs [driver, label]
  Policies,     \* sequences of cpufreq policies [cpus]
  EnergyRange,  \* an energy counter wraps at this value
  RAPL_SAMPLE_US,
  Courses,      \* what happens in a unit of time: [energy : Packages -> Nat, io_wait : Int]
  Temperatures, \* raw readings of an input
  Frequencies,  \* readings of a policy, and of /proc/cpuinfo
  MaxSensorTime, MaxReads \* bounds on the clock and on the refreshes of the counters

ASSUME SensorAssumption ==
  /\ EnergyRange \in Nat \ {0} /\ RAPL_SAMPLE_US \in Nat \ {0} /\ MaxSensorTime \in Nat \ {0}
  /\ None \notin Int \union [energy : Int, elapsed : Int]
  /\ Powercaps \subseteq
       Seq([driver : STRING, name : STRING, package : Packages,
            udelay : Nat \union {None}, max_range : Nat \union {None}])
  /\ Hwmons \subseteq Seq([driver : STRING, label : STRING])
  /\ Policies \subseteq Seq([cpus : Nat])
  /\ Temperatures \subseteq Int \union {None} /\ Frequencies \subseteq Nat \union {None}
  \* the kernel names a package once, but for the mirrors
  /\ \A zones \in Powercaps : \A i, j \in DOMAIN zones :
       /\ zones[i].name = "package" /\ zones[i].driver # "mmio"
       /\ zones[j].name = "package" /\ zones[j].driver # "mmio"
       => i = j \/ zones[i].package # zones[j].package
  \* a measurement is too short for a counter to wrap twice, and I/O wait is a part of
  \* the time
  /\ \A course \in Courses :
       /\ \A p \in Packages :
            course.energy[p] \in Nat /\ course.energy[p] * MaxSensorTime < EnergyRange
       /\ course.io_wait \in Int /\ course.io_wait <= 1

VARIABLES
  powercap, hwmon, policies,  \* SensorLayout, as discovered; constant
  instant, energy, io_wait,   \* the clock, the energy burnt by each package, I/O wait so far
  meter,        \* the step of sample_power_w with its locals
  cpu_power_w,
  evidence,     \* auxiliary: the energy burnt while cpu_power_w was measured
  thermal,      \* [value, inputs]: cpu_temperature_c and, auxiliary, what was read
  clocks,       \* [value, policies]: cpu_frequency_mhz likewise
  counted       \* [previous, pct, reads]: previous_cpu_times and io_wait_pct

layoutVars == <<powercap, hwmon, policies>>
worldVars == <<instant, energy, io_wait>>
powerVars == <<meter, cpu_power_w, evidence>>
counterVars == <<thermal, clocks, counted>>
sensorVars == <<layoutVars, worldVars, powerVars, counterVars>>

-----------------------------------------------------------------------------
(* Discovery, once.                                                        *)

\* Mutant: the mirror of a package is a zone of its own.
IsPackageZone_mirrored(zone) ==
  zone.name = "package" /\ (zone.udelay # None \/ zone.max_range # None)

\* Packages only, each once, and only with evidence of a bounded window.
IsPackageZone(zone) ==
  /\ zone.driver # "mmio"
  /\ zone.name = "package"
  /\ zone.udelay # None \/ zone.max_range # None

window_us(zone) ==
  Lower(IF zone.udelay # None THEN Minus(zone.udelay, 1) \div 2 ELSE RAPL_SAMPLE_US,
        RAPL_SAMPLE_US)

discover_power_zones(zones) ==
  LET found == Ordered({i \in DOMAIN zones : IsPackageZone(zones[i])}, <)
  IN  [n \in DOMAIN found |-> [package |-> zones[found[n]].package,
                              window_us |-> window_us(zones[found[n]])]]

discover_temp_sensors(inputs) ==
  LET found == SelectSeq(inputs, LAMBDA input : input.driver = "cpu")
  IN  [i \in DOMAIN found |-> [preferred |-> found[i].label = "package"]]

-----------------------------------------------------------------------------
(* Power.                                                                  *)

AtRest == [step |-> "rest"]
EnergyUj(zone) == energy[zone.package] % EnergyRange

\* A counter that went back measured nothing.
rapl_watts(sample) == IF sample.to < sample.from THEN None ELSE sample.to - sample.from

\* Every zone is divided by the same time.
sum_rapl_watts(samples, elapsed) ==
  LET measured == {i \in DOMAIN samples : rapl_watts(samples[i]) # None}
  IN  IF measured = {} THEN None
      ELSE [energy |-> SumFunction([i \in measured |-> rapl_watts(samples[i])]),
            elapsed |-> elapsed]

\* sample_power_w: the baselines, one after the other.
StartPower ==
  /\ meter = AtRest
  /\ IF powercap = <<>> THEN cpu_power_w' = None /\ UNCHANGED <<meter, evidence>>
     ELSE /\ meter' = [step |-> "baselines", read |-> <<>>, begun |-> energy]
          /\ UNCHANGED <<cpu_power_w, evidence>>
  /\ UNCHANGED <<layoutVars, worldVars, counterVars>>

ReadBaseline == \E readable \in BOOLEAN :
  LET n == Len(meter.read) + 1
      read == Append(meter.read, IF readable THEN EnergyUj(powercap[n]) ELSE None)
      shortest == Min({powercap[i].window_us : i \in DOMAIN powercap})
  IN  /\ meter.step = "baselines"
      /\ IF n < Len(powercap)
         THEN meter' = [meter EXCEPT !.read = read] /\ UNCHANGED <<cpu_power_w, evidence>>
         ELSE IF shortest = 0
         THEN meter' = AtRest /\ cpu_power_w' = None /\ evidence' = None
         ELSE /\ meter' = [step |-> "sleep", read |-> read, begun |-> meter.begun,
                           started |-> instant, until |-> instant + shortest, slept |-> energy]
              /\ UNCHANGED <<cpu_power_w, evidence>>
      /\ UNCHANGED <<layoutVars, worldVars, counterVars>>

\* The sleep takes at least the window.
WakeUp ==
  /\ meter.step = "sleep" /\ instant >= meter.until
  /\ meter' = [step |-> "again", read |-> meter.read, begun |-> meter.begun,
               elapsed |-> Max({instant - meter.started, 1}), next |-> 1, samples |-> <<>>,
               burnt |-> [p \in Packages |-> energy[p] - meter.slept[p]]]
  /\ UNCHANGED <<layoutVars, worldVars, cpu_power_w, evidence, counterVars>>

\* A zone without a baseline is not read again.
ReadAgain == \E readable \in BOOLEAN :
  LET n == meter.next
      sample == [package |-> powercap[n].package, from |-> meter.read[n],
                 to |-> EnergyUj(powercap[n])]
      samples == IF meter.read[n] = None \/ ~readable THEN meter.samples
                 ELSE Append(meter.samples, sample)
  IN  /\ meter.step = "again"
      /\ IF n < Len(powercap)
         THEN /\ meter' = [meter EXCEPT !.next = n + 1, !.samples = samples]
              /\ UNCHANGED <<cpu_power_w, evidence>>
         ELSE /\ meter' = AtRest
              /\ cpu_power_w' = sum_rapl_watts(samples, meter.elapsed)
              /\ evidence' = [total |-> [p \in Packages |-> energy[p] - meter.begun[p]],
                              burnt |-> meter.burnt, samples |-> ToSet(samples)]
      /\ UNCHANGED <<layoutVars, worldVars, counterVars>>

-----------------------------------------------------------------------------
(* Temperature, frequency and I/O wait.                                    *)

\* An input below zero does not parse; one above 150 degrees is no reading.
Plausible(raw) == raw # None /\ raw >= 0 /\ raw <= 150

\* The hottest package sensor, else the hottest other one.
sample_temperature_c(sensors, inputs) ==
  LET of(preferred) == {inputs[i] : i \in {i \in DOMAIN sensors :
                          sensors[i].preferred = preferred /\ Plausible(inputs[i])}}
  IN  IF of(TRUE) # {} THEN Max(of(TRUE)) ELSE IF of(FALSE) # {} THEN Max(of(FALSE)) ELSE None

\* The average, rounded down, of the policies that report one, by their CPUs.
sample_frequency_mhz(readings) ==
  LET known == {i \in DOMAIN policies : readings[i] # None /\ readings[i] > 0}
      weight(i) == Max({policies[i].cpus, 1})
  IN  IF known = {} THEN None
      ELSE SumFunction([i \in known |-> readings[i] * weight(i)])
             \div SumFunction([i \in known |-> weight(i)])

io_wait_percent(previous, current) ==
  LET total == Minus(current.total, previous.total)
  IN  IF total = 0 THEN None ELSE (Minus(current.io_wait, previous.io_wait) * 100) \div total

\* The slow cadence.
RefreshTemperature == \E inputs \in [DOMAIN hwmon -> Temperatures] :
  /\ thermal' = [value |-> sample_temperature_c(hwmon, inputs), inputs |-> inputs]
  /\ UNCHANGED <<layoutVars, worldVars, powerVars, clocks, counted>>

\* The system cadence: a read of /proc/stat that fails keeps the baseline, and
\* /proc/cpuinfo stands in for the policies.
RefreshCounters == \E readable \in BOOLEAN, readings \in [DOMAIN policies -> Frequencies],
                      cpuinfo \in Frequencies :
  LET current == [total |-> instant, io_wait |-> io_wait]
  IN  /\ counted.reads < MaxReads
      /\ counted' = [previous |-> IF readable THEN current ELSE counted.previous,
                     pct |-> IF readable /\ counted.previous # None
                             THEN io_wait_percent(counted.previous, current) ELSE None,
                     reads |-> counted.reads + 1]
      /\ clocks' = [value |-> Or(sample_frequency_mhz(readings),
                                 IF cpuinfo = 0 THEN None ELSE cpuinfo),
                    policies |-> readings]
      /\ UNCHANGED <<layoutVars, worldVars, powerVars, thermal>>

-----------------------------------------------------------------------------
SensorInit ==
  /\ powercap \in {discover_power_zones(zones) : zones \in Powercaps}
  /\ hwmon \in {discover_temp_sensors(inputs) : inputs \in Hwmons}
  /\ policies \in Policies
  /\ instant = 0 /\ io_wait = 1
  /\ energy \in [Packages -> {0, EnergyRange - 1}]
  /\ meter = AtRest /\ cpu_power_w = None /\ evidence = None
  /\ thermal = [value |-> None, inputs |-> <<>>]
  /\ clocks = [value |-> None, policies |-> <<>>]
  /\ counted = [previous |-> None, pct |-> None, reads |-> 0]

Elapse == \E course \in Courses :
  /\ instant < MaxSensorTime
  /\ instant' = instant + 1
  /\ energy' = [p \in Packages |-> energy[p] + course.energy[p]]
  /\ io_wait' = Max({io_wait + course.io_wait, 0})
  /\ UNCHANGED <<layoutVars, powerVars, counterVars>>

PowerNext == Elapse \/ StartPower \/ ReadBaseline \/ WakeUp \/ ReadAgain
CountersNext == Elapse \/ RefreshTemperature \/ RefreshCounters

-----------------------------------------------------------------------------
(* Properties.                                                             *)

\* The reported power is energy the packages really burnt, each counted once:
\* at least what those that could be measured burnt during the window it is divided
\* by, at most what they burnt from the first read to the last, whichever reads fail
\* and wherever a counter wraps; without a measured package there is none
\* (sample_power_w).  I/O wait is a share of the time although the kernel may take
\* some back and reads may fail in between, the frequency lies between the slowest
\* and the fastest policy, and a temperature is shown if and only if a sensor gives a
\* plausible one.
SensorsAreMeasured ==
  /\ evidence # None =>
       LET packages == {s.package : s \in {s \in evidence.samples : s.from <= s.to}}
       IN  /\ cpu_power_w = None <=> packages = {}
           /\ cpu_power_w # None =>
                /\ SumFunctionOnSet(evidence.burnt, packages) <= cpu_power_w.energy
                /\ cpu_power_w.energy <= SumFunctionOnSet(evidence.total, packages)
                /\ cpu_power_w.elapsed > 0
  /\ counted.pct # None => counted.pct \in 0..100
  /\ LET shown == {f \in Range(clocks.policies) : f # None /\ f > 0}
     IN  shown # {} => clocks.value >= Min(shown) /\ clocks.value <= Max(shown)
  /\ thermal.value # None <=> \E raw \in Range(thermal.inputs) : Plausible(raw)
==============================================================================

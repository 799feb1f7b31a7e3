----------------------------- MODULE GpuSensors -----------------------------
(***************************************************************************)
(* The GPU fields of the frame.  Two sensors write them on schedules of    *)
(* their own: tegrastats (its process is the subject of TegraStats), and   *)
(* the GPU sensor the agent chose at start, NVML or, where NVML cannot be  *)
(* used, one that only writes zeros.  Some fields belong to one sensor,    *)
(* the others are written by both.                                         *)
(*                                                                         *)
(* A field holds the sample it was taken from, None for 0.                 *)
(***************************************************************************)
EXTENDS Naturals, Sequences

CONSTANTS
    GpuPeriod, TegraPeriod,     \* every_ticks of the two sensors
    Samples,                    \* distinct readings of either source
    MaxTicks                    \* bound on the ticks

ASSUME GpuAssumption ==
    /\ GpuPeriod \in Nat \ {0} /\ TegraPeriod \in Nat \ {0}
    /\ MaxTicks \in Nat

VARIABLES
    stage,          \* where the agent is: "start", "choose", "tegra", "gpu", "end"
    switched_on,    \* the sensors the configuration enables
    library,        \* library_ != nullptr
    initialized,    \* initialized_
    available,      \* available_
    limits,         \* which of max clock and power limit are known
    chosen,         \* gpu_sensor_: "nvml" or "none"
    tegra_enabled,  \* TegraStatsSensor::enabled_
    raw,            \* TegraStatsSensor::raw_
    frame,          \* the GPU fields of frame_
    tick,           \* sampler_.tick_count_
    loads, inits,   \* the process's dlopen and nvmlInit less their opposites
    nvmlGot,        \* history: what the last collect() obtained
    tegraGot,       \* history: raw_ at the last successful sample()
    nvmlTick, tegraTick     \* history: 1 + tick of the last write, 0 for none

libraryVars == <<library, initialized, available, limits, loads, inits>>
tegraVars   == <<tegra_enabled, raw>>
gotVars     == <<nvmlGot, tegraGot, nvmlTick, tegraTick>>
gpuVars     == <<stage, switched_on, libraryVars, chosen, tegraVars, frame, tick, gotVars>>

None == [from |-> "none", n |-> 0]
Nvml(n) == [from |-> "nvml", n |-> n]
Tegra(n) == [from |-> "tegra", n |-> n]

NvmlFields == {"nvml_gpu_util", "nvml_gpu_temp", "nvml_gpu_power_ratio", "gpu_mem_util",
               "gpu_mem_free", "gpu_clock_ratio", "gpu_throttle"}
TegraFields == {"tegra_gpu_util", "tegra_emc_util", "tegra_gpu_temp", "tegra_gpu_power_mw"}
SharedFields == {"gpu_util", "emc_util", "gpu_temp", "gpu_power_ratio"}
GpuFields == NvmlFields \union TegraFields \union SharedFields

RawFields == {"gpu", "emc", "temp", "power"}

GpuInit ==
    /\ stage = "start"
    /\ switched_on \in SUBSET {"gpu", "tegrastats"}
    /\ library = FALSE /\ initialized = FALSE /\ available = FALSE
    /\ limits = {}
    /\ chosen = "none"
    /\ tegra_enabled \in BOOLEAN
    /\ raw = [f \in RawFields |-> None]
    /\ frame = [f \in GpuFields |-> None]
    /\ tick = 0
    /\ loads = 0 /\ inits = 0
    /\ nvmlGot = None
    /\ tegraGot = [f \in RawFields |-> None]
    /\ nvmlTick = 0 /\ tegraTick = 0

-----------------------------------------------------------------------------
(***************************************************************************)
(* The agent's constructor.                                                *)
(***************************************************************************)
\* NvmlGpuSensor::init(): it stops at the first of these steps that fails.
InitSteps == <<"dlopen", "resolve", "nvmlInit", "device", "done">>

InitNvml(reached, known) ==
    /\ stage = "start"
    /\ stage' = "choose"
    /\ library' = (reached > 1)
    /\ loads' = IF reached > 1 THEN loads + 1 ELSE loads
    /\ initialized' = (reached > 3)
    /\ inits' = IF reached > 3 THEN inits + 1 ELSE inits
    /\ available' = (reached = Len(InitSteps))
    /\ limits' = IF reached = Len(InitSteps) THEN known ELSE {}
    /\ UNCHANGED <<switched_on, chosen, tegraVars, frame, tick, gotVars>>

\* mutant: shuts NVML down only if a device was found
ReleaseIfAvailable ==
    /\ inits' = IF available THEN inits - 1 ELSE inits
    /\ loads' = IF library THEN loads - 1 ELSE loads
    /\ initialized' = FALSE /\ library' = FALSE

\* ~NvmlGpuSensor()
Release ==
    /\ inits' = IF initialized THEN inits - 1 ELSE inits
    /\ loads' = IF library THEN loads - 1 ELSE loads
    /\ initialized' = FALSE /\ library' = FALSE

\* A sensor that is not available is replaced, and so destroyed.
ChooseSensor ==
    /\ stage = "choose"
    /\ stage' = "tegra"
    /\ IF available
         THEN chosen' = "nvml" /\ UNCHANGED libraryVars
         ELSE chosen' = "none" /\ Release /\ UNCHANGED <<available, limits>>
    /\ UNCHANGED <<switched_on, tegraVars, frame, tick, gotVars>>

-----------------------------------------------------------------------------
(***************************************************************************)
(* One tick of collect_sensors(): tegrastats, then the GPU sensor.         *)
(***************************************************************************)
Due(period) == tick % period = 0

TegraDue == "tegrastats" \in switched_on /\ Due(TegraPeriod)
GpuDue == "gpu" \in switched_on /\ Due(GpuPeriod)

\* What a successful TegraStatsSensor::sample() writes: temperature and power
\* only if they are known.
TegraWrites(fr, rw) ==
    [fr EXCEPT !["gpu_util"] = rw["gpu"],
               !["emc_util"] = rw["emc"],
               !["tegra_gpu_util"] = rw["gpu"],
               !["tegra_emc_util"] = rw["emc"],
               !["gpu_temp"] = IF rw["temp"] = None THEN @ ELSE rw["temp"],
               !["tegra_gpu_temp"] = IF rw["temp"] = None THEN @ ELSE rw["temp"],
               !["gpu_power_ratio"] = IF rw["power"] = None THEN @ ELSE rw["power"],
               !["tegra_gpu_power_mw"] = IF rw["power"] = None THEN @ ELSE rw["power"]]

\* The fields a new line may set, all from the same reading n; rails that
\* match may add up to 0.  A sample without a new line sets none.
Parsed(rw, matched, n, powered) ==
    [f \in RawFields |-> IF f \notin matched THEN rw[f]
                         ELSE IF f = "power" /\ ~powered THEN None
                         ELSE Tegra(n)]

\* mutant: clears the Jetson fields too
SetDefaultsAll(fr) == [f \in GpuFields |-> None]

\* set_defaults(), and NoneGpuSensor::collect()
SetDefaults(fr) ==
    [f \in GpuFields |-> IF f \in TegraFields THEN fr[f] ELSE None]

\* a ratio to a limit that is not known is 0
Unknown(f) == \/ f = "gpu_clock_ratio" /\ "clock" \notin limits
              \/ f \in {"gpu_power_ratio", "nvml_gpu_power_ratio"} /\ "power" \notin limits

\* mutant: leaves the memory-bus load to tegrastats
NvmlWritesNoEmc(fr, n) ==
    [f \in GpuFields |-> IF f \in TegraFields \union {"emc_util"} THEN fr[f]
                         ELSE IF Unknown(f) THEN None ELSE Nvml(n)]

\* NvmlGpuSensor::collect() when its six calls succeed.
NvmlWrites(fr, n) ==
    [f \in GpuFields |-> IF f \in TegraFields THEN fr[f]
                         ELSE IF f = "emc_util" \/ Unknown(f) THEN None ELSE Nvml(n)]

\* collect() of the sensor chosen; any of the six calls may fail.
Collect(fr, success, n) ==
    IF chosen = "nvml" /\ success THEN NvmlWrites(fr, n) ELSE SetDefaults(fr)

TegraSkips ==
    /\ stage = "tegra"
    /\ ~TegraDue \/ ~tegra_enabled
    /\ stage' = "gpu"
    /\ UNCHANGED <<switched_on, libraryVars, chosen, tegraVars, frame, tick, gotVars>>

\* The child is gone, or its output cannot be read or parsed: disabled for
\* good, and the frame keeps what it had, whatever lines were parsed before.
TegraFails(matched, n, powered) ==
    /\ stage = "tegra"
    /\ TegraDue /\ tegra_enabled
    /\ stage' = "gpu"
    /\ raw' = Parsed(raw, matched, n, powered)
    /\ tegra_enabled' = FALSE
    /\ UNCHANGED <<switched_on, libraryVars, chosen, frame, tick, gotVars>>

\* Without a new line the child may be found dead; the frame is written still.
TegraSamples(matched, n, powered) ==
    /\ stage = "tegra"
    /\ TegraDue /\ tegra_enabled
    /\ stage' = "gpu"
    /\ raw' = Parsed(raw, matched, n, powered)
    /\ frame' = TegraWrites(frame, raw')
    /\ tegra_enabled' \in IF matched = {} THEN BOOLEAN ELSE {TRUE}
    /\ tegraGot' = raw'
    /\ tegraTick' = tick + 1
    /\ UNCHANGED <<switched_on, libraryVars, chosen, tick, nvmlGot, nvmlTick>>

GpuSkips ==
    /\ stage = "gpu"
    /\ ~GpuDue
    /\ stage' = "tegra"
    /\ tick' = tick + 1
    /\ UNCHANGED <<switched_on, libraryVars, chosen, tegraVars, frame, gotVars>>

GpuCollects(success, n) ==
    /\ stage = "gpu"
    /\ GpuDue
    /\ stage' = "tegra"
    /\ tick' = tick + 1
    /\ frame' = Collect(frame, success, n)
    /\ nvmlGot' = IF chosen = "nvml" /\ success THEN Nvml(n) ELSE None
    /\ nvmlTick' = tick + 1
    /\ UNCHANGED <<switched_on, libraryVars, chosen, tegraVars, tegraGot, tegraTick>>

\* The agent is destroyed between two ticks, and its GPU sensor with it.
DestroyAgent ==
    /\ stage = "tegra"
    /\ stage' = "end"
    /\ IF chosen = "nvml" THEN Release /\ UNCHANGED <<available, limits>>
                          ELSE UNCHANGED libraryVars
    /\ UNCHANGED <<switched_on, chosen, tegraVars, frame, tick, gotVars>>

GpuNext ==
    \/ \E reached \in 1..Len(InitSteps), known \in SUBSET {"clock", "power"} :
           InitNvml(reached, known)
    \/ ChooseSensor
    \/ tick < MaxTicks /\ TegraSkips
    \/ /\ tick < MaxTicks
       /\ \E matched \in SUBSET RawFields, n \in Samples, powered \in BOOLEAN :
              TegraFails(matched, n, powered) \/ TegraSamples(matched, n, powered)
    \/ GpuSkips
    \/ \E success \in BOOLEAN, n \in Samples : GpuCollects(success, n)
    \/ DestroyAgent

GpuSpec == GpuInit /\ [][GpuNext]_gpuVars

-----------------------------------------------------------------------------
(***************************************************************************)
(* The fields only one of the two sensors writes, every published GPU      *)
(* field among them, hold the last sample of that sensor and nothing else, *)
(* whatever the other did since: all of one NVML sample or all zero after  *)
(* a failed one, and what tegrastats last said.  Only the rail power may   *)
(* be older, when the rails last added up to nothing.                      *)
(***************************************************************************)
OwnFields ==
    /\ \A f \in NvmlFields : frame[f] = IF Unknown(f) THEN None ELSE nvmlGot
    /\ frame["tegra_gpu_util"] = tegraGot["gpu"]
    /\ frame["tegra_emc_util"] = tegraGot["emc"]
    /\ frame["tegra_gpu_temp"] = tegraGot["temp"]
    /\ tegraGot["power"] # None => frame["tegra_gpu_power_mw"] = tegraGot["power"]

(***************************************************************************)
(* The four fields both sensors write belong to the one that ran last, the *)
(* GPU sensor when both ran in the same tick: utilisation and memory-bus   *)
(* load are never of two sources at once.  So an agent without NVML shows  *)
(* the zeros of its stand-in from every GPU tick to the next of            *)
(* tegrastats.  Where tegrastats knows no temperature the GPU sensor's     *)
(* stays, and where its rails add up to nothing gpu_power_ratio stays the  *)
(* GPU sensor's or the power tegrastats last wrote.  These fields live in  *)
(* the frame only: the sink publishes none of them.                        *)
(***************************************************************************)
NvmlRatio == IF Unknown("gpu_power_ratio") THEN None ELSE nvmlGot

SharedLastWriter ==
    /\ nvmlTick >= tegraTick =>
         /\ frame["gpu_util"] = nvmlGot /\ frame["gpu_temp"] = nvmlGot
         /\ frame["emc_util"] = None /\ frame["gpu_power_ratio"] = NvmlRatio
    /\ nvmlTick < tegraTick =>
         /\ frame["gpu_util"] = tegraGot["gpu"] /\ frame["emc_util"] = tegraGot["emc"]
         /\ frame["gpu_temp"] = IF tegraGot["temp"] = None THEN nvmlGot ELSE tegraGot["temp"]
         /\ frame["gpu_power_ratio"] \in
              IF tegraGot["power"] = None THEN {NvmlRatio, frame["tegra_gpu_power_mw"]}
                                          ELSE {tegraGot["power"]}

(***************************************************************************)
(* NVML is initialised and loaded exactly while a sensor that uses it is   *)
(* there: whichever step of init() fails, the agent that falls back to no  *)
(* GPU has shut down and unloaded what it had, and so has one that ends.   *)
(***************************************************************************)
NvmlBalanced ==
    /\ stage \in {"tegra", "gpu"} => /\ inits = IF chosen = "nvml" THEN 1 ELSE 0
                                     /\ loads = inits
    /\ stage = "end" => inits = 0 /\ loads = 0
    /\ available /\ stage # "end" => initialized /\ library
=============================================================================

----------------------------- MODULE SensorProofs -----------------------------
(***************************************************************************)
(* Proofs about the sensors, for any devices, readings, counters, periods  *)
(* and number of samples: the gauge, GPU and counter sensors of            *)
(* FrameFields.  The facts about sums, maxima and minima over finite sets  *)
(* that they rest on are in LatencyJitterProofs, as is the proof of the    *)
(* interval statistics.                                                    *)
(***************************************************************************)
EXTENDS FrameFields, LatencyJitterProofs

(***************************************************************************)
(* The GPU half.                                                           *)
(***************************************************************************)
\* The types the steps depend on.
GpuTypes ==
    /\ stage \in {"start", "choose", "tegra", "gpu", "end"}
    /\ chosen \in {"nvml", "none"}
    /\ library \in BOOLEAN /\ initialized \in BOOLEAN /\ available \in BOOLEAN
    /\ DOMAIN frame = GpuFields
    /\ DOMAIN raw = RawFields
    /\ tick \in Nat /\ nvmlTick \in Nat /\ tegraTick \in Nat
    /\ inits \in Int /\ loads \in Int

\* Until a sensor is chosen nothing was sampled.
NothingYet ==
    stage \in {"start", "choose"} =>
        /\ \A f \in GpuFields : frame[f] = None
        /\ nvmlGot = None
        /\ \A f \in RawFields : raw[f] = None
        /\ nvmlTick = 0 /\ tegraTick = 0

\* In a tick tegrastats writes before the GPU sensor.
TickOrder ==
    /\ nvmlTick <= tick
    /\ tegraTick <= IF stage = "gpu" THEN tick + 1 ELSE tick

\* What the process holds of NVML is what the sensor's flags say, at every
\* stage of its life.
NvmlHeld ==
    /\ stage = "start" => ~library /\ ~initialized /\ ~available
    /\ stage # "end" => /\ inits = IF initialized THEN 1 ELSE 0
                        /\ loads = IF library THEN 1 ELSE 0
                        /\ available => initialized /\ library
    /\ stage \in {"tegra", "gpu"} => /\ chosen = "nvml" => available
                                     /\ chosen = "none" => ~initialized /\ ~library
    /\ stage = "end" => inits = 0 /\ loads = 0

\* While tegrastats runs, what it said is what its last sample wrote.
RawShown == tegra_enabled => tegraGot = raw

GpuInv ==
    /\ GpuTypes /\ NothingYet /\ TickOrder /\ NvmlHeld
    /\ RawShown
    /\ OwnFields /\ SharedLastWriter

USE DEF GpuFields, NvmlFields, TegraFields, SharedFields, RawFields

\* A reading of either source is never the absence of one.
LEMMA ReadingIsSome == \A n : Tegra(n) # None /\ Nvml(n) # None
  BY DEF Tegra, Nvml, None

\* Before the agent is constructed nothing is loaded or sampled.
LEMMA GpuStart == GpuInit => GpuInv
<1> SUFFICES ASSUME GpuInit PROVE GpuInv  OBVIOUS
<1> USE DEF GpuInit
<1>1. GpuTypes
  <2>1. DOMAIN frame = GpuFields /\ DOMAIN raw = RawFields  OBVIOUS
  <2>2. library \in BOOLEAN /\ initialized \in BOOLEAN /\ available \in BOOLEAN
    OBVIOUS
  <2>3. /\ stage \in {"start", "choose", "tegra", "gpu", "end"}
        /\ chosen \in {"nvml", "none"}
    OBVIOUS
  <2>4. /\ tick \in Nat /\ nvmlTick \in Nat /\ tegraTick \in Nat
        /\ inits \in Int /\ loads \in Int
    OBVIOUS
  <2> HIDE DEF GpuInit
  <2> QED  BY <2>1, <2>2, <2>3, <2>4 DEF GpuTypes
<1>2. NothingYet /\ TickOrder /\ NvmlHeld  BY DEF NothingYet, TickOrder, NvmlHeld
<1>3. OwnFields  BY DEF OwnFields
<1>4. SharedLastWriter /\ RawShown  BY DEF SharedLastWriter, RawShown, NvmlRatio
<1> QED  BY <1>1, <1>2, <1>3, <1>4 DEF GpuInv

\* initialize_nvml(), however far it gets, holds what its flags say.
LEMMA InitNvmlKeeps ==
  ASSUME GpuInv, NEW reached \in 1..Len(InitSteps), NEW known, InitNvml(reached, known)
  PROVE  GpuInv'
<1>1. Len(InitSteps) = 5  BY DEF InitSteps
<1> USE DEF GpuInv
<1>2. GpuTypes'  BY <1>1 DEF GpuTypes, InitNvml, tegraVars, gotVars
<1>3. NothingYet'  BY DEF NothingYet, InitNvml, tegraVars, gotVars
<1>4. TickOrder'  BY DEF TickOrder, InitNvml, tegraVars, gotVars
<1>5. NvmlHeld'
  <2>1. /\ stage = "start" /\ stage' = "choose" /\ inits = 0 /\ loads = 0
        /\ inits' = IF reached > 3 THEN inits + 1 ELSE inits
        /\ loads' = IF reached > 1 THEN loads + 1 ELSE loads
    BY DEF NvmlHeld, InitNvml
  <2>2. /\ (reached > 3 <=> initialized') /\ (reached > 1 <=> library')
        /\ (reached = 5 <=> available')
    BY <1>1 DEF InitNvml
  <2>3. available' => initialized' /\ library'  BY <2>2
  <2>4. inits' = IF initialized' THEN 1 ELSE 0  BY <2>1, <2>2
  <2>5. loads' = IF library' THEN 1 ELSE 0  BY <2>1, <2>2
  <2> QED  BY <2>1, <2>3, <2>4, <2>5 DEF NvmlHeld
<1>6. OwnFields'
  BY DEF OwnFields, NothingYet, InitNvml, tegraVars, gotVars, Unknown
<1>7. SharedLastWriter' /\ RawShown'
  <2>1. frame["gpu_power_ratio"] = None /\ nvmlGot = None /\ nvmlTick = 0 /\ tegraTick = 0
    BY DEF NothingYet, InitNvml
  <2>2. NvmlRatio' = None  BY <2>1 DEF NvmlRatio, InitNvml, gotVars
  <2>3. SharedLastWriter'
    BY <2>1, <2>2 DEF SharedLastWriter, InitNvml, tegraVars, gotVars
  <2> QED  BY <2>3 DEF RawShown, InitNvml, tegraVars, gotVars
<1> QED  BY <1>2, <1>3, <1>4, <1>5, <1>6, <1>7

\* Steps that write nothing keep what the fields hold.
LEMMA FieldsUnchanged ==
  ASSUME GpuInv, UNCHANGED <<frame, tegraVars, gotVars, limits>>
  PROVE  OwnFields' /\ SharedLastWriter' /\ RawShown'
<1>1. OwnFields'  BY DEF GpuInv, OwnFields, gotVars, Unknown
<1>2. SharedLastWriter'  BY DEF GpuInv, SharedLastWriter, NvmlRatio, Unknown, gotVars
<1>3. RawShown'  BY DEF GpuInv, RawShown, tegraVars, gotVars
<1> QED  BY <1>1, <1>2, <1>3

\* A sensor not chosen gives back what its attempt had loaded.
LEMMA ChooseSensorKeeps == GpuInv /\ ChooseSensor => GpuInv'
<1> SUFFICES ASSUME GpuInv, ChooseSensor PROVE GpuInv'  OBVIOUS
<1>1. GpuTypes' /\ NvmlHeld'
  <2>1. CASE available
    BY <2>1 DEF GpuInv, GpuTypes, NvmlHeld, ChooseSensor, libraryVars, tegraVars, gotVars
  <2>2. CASE ~available
    <3>1. /\ stage = "choose" /\ stage' = "tegra" /\ chosen' = "none"
          /\ initialized' = FALSE /\ library' = FALSE /\ available' = available
      BY <2>2 DEF ChooseSensor, Release
    <3>2. inits' = 0 /\ loads' = 0
      BY <2>2 DEF GpuInv, NvmlHeld, ChooseSensor, Release
    <3>3. /\ frame' = frame /\ raw' = raw /\ tick' = tick
          /\ nvmlTick' = nvmlTick /\ tegraTick' = tegraTick
      BY DEF ChooseSensor, tegraVars, gotVars
    <3>4. GpuTypes'
      <4>1. library' \in BOOLEAN /\ initialized' \in BOOLEAN  BY <3>1
      <4>2. available' \in BOOLEAN  BY <3>1 DEF GpuInv, GpuTypes
      <4>3. stage' \in {"start", "choose", "tegra", "gpu", "end"} /\ chosen' \in {"nvml", "none"}
        BY <3>1 DEF GpuInv, GpuTypes
      <4>4. inits' \in Int /\ loads' \in Int  BY <3>2
      <4> QED  BY <3>3, <4>1, <4>2, <4>3, <4>4 DEF GpuInv, GpuTypes
    <3>5. NvmlHeld'  BY <2>2, <3>1, <3>2 DEF NvmlHeld
    <3> QED  BY <3>4, <3>5
  <2> QED  BY <2>1, <2>2
<1>2. TickOrder'  BY DEF GpuInv, TickOrder, ChooseSensor, gotVars
<1>3. NothingYet'  BY DEF NothingYet, ChooseSensor
<1>4. OwnFields' /\ SharedLastWriter' /\ RawShown'
  BY FieldsUnchanged DEF ChooseSensor, libraryVars
<1> QED  BY <1>1, <1>2, <1>3, <1>4 DEF GpuInv

\* A tick in which a sensor is not due writes nothing.
LEMMA SkipKeeps == GpuInv /\ (TegraSkips \/ GpuSkips) => GpuInv'
<1> SUFFICES ASSUME GpuInv, TegraSkips \/ GpuSkips PROVE GpuInv'  OBVIOUS
<1> USE DEF TegraSkips, GpuSkips, libraryVars, tegraVars, gotVars
<1>1. GpuTypes'  BY DEF GpuInv, GpuTypes
<1>2. NvmlHeld'  BY DEF GpuInv, NvmlHeld
<1>3. TickOrder'  BY DEF GpuInv, GpuTypes, TickOrder
<1>4. NothingYet'  BY DEF NothingYet
<1>5. OwnFields' /\ SharedLastWriter' /\ RawShown'  BY FieldsUnchanged
<1> QED  BY <1>1, <1>2, <1>3, <1>4, <1>5 DEF GpuInv

\* What the failing sample still parsed is never written.
LEMMA TegraFailsKeeps ==
  ASSUME GpuInv, NEW matched, NEW n, NEW powered, TegraFails(matched, n, powered)
  PROVE  GpuInv'
<1> USE DEF libraryVars, gotVars
<1>1. GpuTypes'
  <2>1. DOMAIN raw' = RawFields  BY DEF TegraFails, Parsed
  <2> QED  BY <2>1 DEF GpuInv, GpuTypes, TegraFails
<1>2. NvmlHeld'  BY DEF GpuInv, NvmlHeld, TegraFails
<1>3. TickOrder'  BY DEF GpuInv, GpuTypes, TickOrder, TegraFails
<1>4. NothingYet'  BY DEF NothingYet, TegraFails
<1>5. OwnFields'  BY DEF GpuInv, OwnFields, Unknown, TegraFails
<1>6. SharedLastWriter'
  BY DEF GpuInv, SharedLastWriter, NvmlRatio, Unknown, TegraFails
<1>7. RawShown'  BY DEF RawShown, TegraFails
<1> QED  BY <1>1, <1>2, <1>3, <1>4, <1>5, <1>6, <1>7 DEF GpuInv

\* The destructor gives back all that is held.
LEMMA DestroyAgentKeeps == GpuInv /\ DestroyAgent => GpuInv'
<1> SUFFICES ASSUME GpuInv, DestroyAgent PROVE GpuInv'  OBVIOUS
<1>1. GpuTypes' /\ NvmlHeld'
  <2>1. CASE chosen = "nvml"
    <3>1. /\ stage = "tegra" /\ stage' = "end" /\ chosen' = chosen
          /\ initialized' = FALSE /\ library' = FALSE /\ available' = available
      BY <2>1 DEF DestroyAgent, Release
    <3>2. inits' = 0 /\ loads' = 0
      BY <2>1 DEF GpuInv, NvmlHeld, DestroyAgent, Release
    <3>3. /\ frame' = frame /\ raw' = raw /\ tick' = tick
          /\ nvmlTick' = nvmlTick /\ tegraTick' = tegraTick
      BY DEF DestroyAgent, tegraVars, gotVars
    <3>4. GpuTypes'
      <4>1. library' \in BOOLEAN /\ initialized' \in BOOLEAN  BY <3>1
      <4>2. available' \in BOOLEAN  BY <3>1 DEF GpuInv, GpuTypes
      <4>3. stage' \in {"start", "choose", "tegra", "gpu", "end"} /\ chosen' \in {"nvml", "none"}
        BY <3>1 DEF GpuInv, GpuTypes
      <4>4. inits' \in Int /\ loads' \in Int  BY <3>2
      <4> QED  BY <3>3, <4>1, <4>2, <4>3, <4>4 DEF GpuInv, GpuTypes
    <3>5. NvmlHeld'  BY <3>1, <3>2 DEF NvmlHeld
    <3> QED  BY <3>4, <3>5
  <2>2. CASE chosen = "none"
    BY <2>2 DEF GpuInv, GpuTypes, NvmlHeld, DestroyAgent, libraryVars, tegraVars, gotVars
  <2> QED  BY <2>1, <2>2 DEF GpuInv, GpuTypes
<1>2. TickOrder'  BY DEF GpuInv, TickOrder, DestroyAgent, gotVars
<1>3. NothingYet'  BY DEF NothingYet, DestroyAgent
<1>4. OwnFields' /\ SharedLastWriter' /\ RawShown'
  BY FieldsUnchanged DEF DestroyAgent, libraryVars
<1> QED  BY <1>1, <1>2, <1>3, <1>4 DEF GpuInv

\* A temperature or power once known stays known, unless the rails add up to 0.
LEMMA TegraSamplesKeeps ==
  ASSUME GpuInv, NEW matched, NEW n, NEW powered, TegraSamples(matched, n, powered)
  PROVE  GpuInv'
<1> USE DEF libraryVars
<1>1. /\ raw' = Parsed(raw, matched, n, powered) /\ tegraGot' = raw'
      /\ frame' = TegraWrites(frame, raw')
      /\ stage = "tegra" /\ stage' = "gpu" /\ tegraTick' = tick + 1
      /\ tick' = tick /\ nvmlTick' = nvmlTick /\ nvmlGot' = nvmlGot /\ limits' = limits
  BY DEF TegraSamples
<1>2. DOMAIN frame = GpuFields /\ DOMAIN raw' = RawFields
  BY <1>1 DEF GpuInv, GpuTypes, Parsed
<1>3. raw'["temp"] = None => tegraGot["temp"] = None
  <2>1. raw'["temp"] = None => raw["temp"] = None  BY <1>1, ReadingIsSome DEF Parsed
  <2> QED  BY <2>1 DEF GpuInv, RawShown, TegraSamples
<1>4. GpuTypes'
  <2>1. /\ tick' \in Nat /\ nvmlTick' \in Nat /\ tegraTick' \in Nat
        /\ stage' \in {"start", "choose", "tegra", "gpu", "end"}
    BY <1>1 DEF GpuInv, GpuTypes
  <2>2. DOMAIN frame' = GpuFields
    BY <1>1, <1>2 DEF GpuInv, GpuTypes, TegraWrites
  <2>3. /\ chosen' = chosen /\ library' = library /\ initialized' = initialized
        /\ available' = available /\ inits' = inits /\ loads' = loads
    BY DEF TegraSamples
  <2> QED  BY <1>2, <2>1, <2>2, <2>3 DEF GpuInv, GpuTypes
<1>5. NvmlHeld'  BY DEF GpuInv, NvmlHeld, TegraSamples
<1>6. TickOrder' /\ nvmlTick' < tegraTick'
  BY <1>1 DEF GpuInv, GpuTypes, TickOrder
<1>7. NothingYet'  BY <1>1 DEF NothingYet
<1>8. OwnFields'
  <2>1. \A f \in NvmlFields : frame'[f] = frame[f]
    BY <1>1, <1>2 DEF GpuInv, GpuTypes, TegraWrites
  <2>2. \A f \in NvmlFields : frame'[f] = IF Unknown(f)' THEN None ELSE nvmlGot'
    BY <1>1, <2>1 DEF GpuInv, OwnFields, Unknown
  <2>3. frame'["tegra_gpu_util"] = raw'["gpu"] /\ frame'["tegra_emc_util"] = raw'["emc"]
    BY <1>1, <1>2 DEF GpuInv, GpuTypes, TegraWrites
  <2>4. frame'["tegra_gpu_temp"] = raw'["temp"]
    BY <1>1, <1>2, <1>3 DEF GpuInv, OwnFields, TegraWrites
  <2>5. raw'["power"] # None => frame'["tegra_gpu_power_mw"] = raw'["power"]
    BY <1>1, <1>2 DEF TegraWrites
  <2> QED  BY <1>1, <2>2, <2>3, <2>4, <2>5 DEF OwnFields
<1>9. SharedLastWriter'
  <2>1. frame'["gpu_util"] = raw'["gpu"] /\ frame'["emc_util"] = raw'["emc"]
    BY <1>1, <1>2 DEF TegraWrites
  <2>2. frame'["gpu_temp"] = IF raw'["temp"] = None THEN nvmlGot ELSE raw'["temp"]
    <3>1. CASE raw'["temp"] = None
      <4>1. frame'["gpu_temp"] = frame["gpu_temp"]
        BY <1>1, <1>2, <3>1 DEF TegraWrites
      <4>2. frame["gpu_temp"] = nvmlGot
        BY <1>3, <3>1 DEF GpuInv, GpuTypes, SharedLastWriter
      <4> QED  BY <3>1, <4>1, <4>2
    <3>2. CASE raw'["temp"] # None
      BY <1>1, <1>2, <3>2 DEF TegraWrites
    <3> QED  BY <3>1, <3>2
  <2>3. ~(nvmlTick' >= tegraTick')  BY <1>4, <1>6 DEF GpuTypes
  <2>4. frame'["gpu_power_ratio"] \in
          IF raw'["power"] = None THEN {NvmlRatio', frame'["tegra_gpu_power_mw"]}
                                  ELSE {raw'["power"]}
    <3>1. CASE raw'["power"] # None
      BY <1>1, <1>2, <3>1 DEF TegraWrites
    <3>2. CASE raw'["power"] = None
      <4>1. /\ frame'["gpu_power_ratio"] = frame["gpu_power_ratio"]
            /\ frame'["tegra_gpu_power_mw"] = frame["tegra_gpu_power_mw"]
        BY <1>1, <1>2, <3>2 DEF TegraWrites
      <4>2. NvmlRatio' = NvmlRatio  BY <1>1 DEF NvmlRatio, Unknown
      <4>3. frame["gpu_power_ratio"] \in {NvmlRatio, frame["tegra_gpu_power_mw"]}
        <5>1. CASE nvmlTick >= tegraTick  BY <5>1 DEF GpuInv, SharedLastWriter
        <5>2. CASE nvmlTick < tegraTick
          <6>1. CASE tegraGot["power"] = None
            BY <5>2, <6>1 DEF GpuInv, SharedLastWriter
          <6>2. CASE tegraGot["power"] # None
            BY <5>2, <6>2 DEF GpuInv, SharedLastWriter, OwnFields
          <6> QED  BY <6>1, <6>2
        <5> QED  BY <5>1, <5>2 DEF GpuInv, GpuTypes
      <4> QED  BY <3>2, <4>1, <4>2, <4>3
    <3> QED  BY <3>1, <3>2
  <2> QED  BY <1>1, <2>1, <2>2, <2>3, <2>4 DEF SharedLastWriter
<1> QED  BY <1>1, <1>4, <1>5, <1>6, <1>7, <1>8, <1>9 DEF GpuInv, RawShown

\* A sample of the GPU sensor writes its fields after tegrastats did.
LEMMA GpuCollectsKeeps ==
  ASSUME GpuInv, NEW success \in BOOLEAN, NEW n, GpuCollects(success, n)
  PROVE  GpuInv'
<1>1. /\ frame' = Collect(frame, success, n)
      /\ nvmlGot' = IF chosen = "nvml" /\ success THEN Nvml(n) ELSE None
      /\ nvmlTick' = tick + 1 /\ tick' = tick + 1
      /\ stage = "gpu" /\ stage' = "tegra"
      /\ raw' = raw /\ tegraGot' = tegraGot /\ tegraTick' = tegraTick /\ limits' = limits
      /\ chosen' = chosen /\ library' = library /\ initialized' = initialized
      /\ available' = available /\ inits' = inits /\ loads' = loads
  BY DEF GpuCollects, libraryVars, tegraVars
<1>2. /\ DOMAIN frame' = GpuFields
      /\ \A f \in TegraFields : frame'[f] = frame[f]
      /\ \A f \in NvmlFields : frame'[f] = IF Unknown(f) THEN None ELSE nvmlGot'
      /\ frame'["gpu_util"] = nvmlGot' /\ frame'["gpu_temp"] = nvmlGot'
      /\ frame'["emc_util"] = None
      /\ frame'["gpu_power_ratio"] = IF Unknown("gpu_power_ratio") THEN None ELSE nvmlGot'
  <2>1. CASE chosen = "nvml" /\ success
    BY <1>1, <2>1 DEF Collect, NvmlWrites, Unknown
  <2>2. CASE ~(chosen = "nvml" /\ success)
    BY <1>1, <2>2 DEF Collect, SetDefaults
  <2> QED  BY <2>1, <2>2
<1>3. GpuTypes'  BY <1>1, <1>2 DEF GpuInv, GpuTypes
<1>4. TickOrder' /\ nvmlTick' >= tegraTick'
  BY <1>1 DEF GpuInv, GpuTypes, TickOrder
<1>5. NvmlHeld'  BY <1>1 DEF GpuInv, NvmlHeld
<1>6. NothingYet'  BY <1>1 DEF NothingYet
<1>7. OwnFields'
  <2>1. \A f \in NvmlFields : Unknown(f)' <=> Unknown(f)  BY <1>1 DEF Unknown
  <2> QED  BY <1>1, <1>2, <2>1 DEF GpuInv, OwnFields
<1>8. SharedLastWriter'
  <2>1. ~(nvmlTick' < tegraTick')  BY <1>3, <1>4 DEF GpuTypes
  <2>2. frame'["gpu_power_ratio"] = NvmlRatio'  BY <1>1, <1>2 DEF NvmlRatio, Unknown
  <2> QED  BY <1>2, <2>1, <2>2 DEF SharedLastWriter
<1>9. RawShown'  BY DEF GpuInv, RawShown, GpuCollects, tegraVars
<1> QED  BY <1>3, <1>4, <1>5, <1>6, <1>7, <1>8, <1>9 DEF GpuInv

\* Steps of the other half leave this one alone.
LEMMA GpuStutter == GpuInv /\ UNCHANGED gpuVars => GpuInv'
<1> SUFFICES ASSUME GpuInv, UNCHANGED gpuVars PROVE GpuInv'  OBVIOUS
<1> USE DEF gpuVars, libraryVars, tegraVars, gotVars
<1>1. GpuTypes'  BY DEF GpuInv, GpuTypes
<1>2. NvmlHeld'  BY DEF GpuInv, NvmlHeld
<1>3. TickOrder'  BY DEF GpuInv, TickOrder
<1>4. NothingYet'  BY DEF GpuInv, NothingYet
<1>5. OwnFields' /\ SharedLastWriter' /\ RawShown'  BY FieldsUnchanged
<1> QED  BY <1>1, <1>2, <1>3, <1>4, <1>5 DEF GpuInv

\* Every step of the GPU half keeps the invariant.
LEMMA GpuStep == GpuInv /\ GpuNext => GpuInv'
  BY InitNvmlKeeps, ChooseSensorKeeps, SkipKeeps, TegraFailsKeeps, DestroyAgentKeeps,
     TegraSamplesKeeps, GpuCollectsKeeps
  DEF GpuNext

HIDE DEF GpuFields, NvmlFields, TegraFields, SharedFields, RawFields

-----------------------------------------------------------------------------
(***************************************************************************)
(* The gauge half.                                                         *)
(***************************************************************************)
\* The types the steps depend on.
GaugeTypes ==
    /\ gauge \in Gauges /\ owns_files \in BOOLEAN
    /\ life \in {"new", "alive", "destroyed"}
    /\ prev \in Nat /\ since \in Nat /\ pgsteal \in Nat

\* The counter is the baseline and what was counted since.
Counted == has_prev /\ ~rewound => pgsteal = prev + since

\* A sensor has sampled nothing before it is constructed, and the files open
\* on its account are among those it knows, except after a failed discovery,
\* when it knows none and opens none.
Handles ==
    /\ life = "new" => open = {} /\ zones = {} /\ ~has_prev /\ ~ok
    /\ life = "alive" => \/ zones = FilesOf(gauge) /\ open \subseteq zones
                         \/ zones # FilesOf(gauge) /\ zones = {} /\ open = given

GaugeInv ==
    GaugeTypes /\ Counted /\ Handles /\ HandlesReturned /\ FailureShows

\* The history of the last sample determines what FailureShows speaks of.
LEMMA ShowsUnchanged ==
  ASSUME FailureShows, UNCHANGED <<gauge, reads, ok, field>>
  PROVE  FailureShows'
  BY DEF FailureShows, Enough

\* Before construction no file is open and nothing was counted.
LEMMA GaugeStart == GaugeInit => GaugeInv
<1> SUFFICES ASSUME GaugeInit PROVE GaugeInv  OBVIOUS
<1>1. GaugeTypes  BY DEF GaugeInit, GaugeTypes
<1>2. Counted /\ Handles /\ HandlesReturned
  BY DEF GaugeInit, Counted, Handles, HandlesReturned
<1>3. FailureShows
  <2>1. ~ok /\ gauge \in Gauges /\ reads = Unread /\ field = Blank  BY DEF GaugeInit
  <2>2. \A f \in FilesOf(gauge) : reads[f] = Error  BY <2>1 DEF Unread
  <2>3. Error.kind = "error" /\ Error.n = 0  BY DEF Error
  <2>4. CASE gauge = "psi"
    BY <2>1, <2>2, <2>3, <2>4 DEF FailureShows, Enough, FilesOf, FieldsOf, Blank, PsiFiles
  <2>5. CASE gauge = "memory"
    BY <2>1, <2>2, <2>3, <2>5 DEF FailureShows, Enough, FilesOf, FieldsOf, Blank, IsNumber
  <2>6. CASE gauge \in {"thermal", "cpufreq"}
    BY <2>1, <2>2, <2>3, <2>6 DEF FailureShows, Enough, FilesOf, FieldsOf, Blank, IsNumber
  <2> QED  BY <2>1, <2>4, <2>5, <2>6 DEF Gauges
<1> QED  BY <1>1, <1>2, <1>3 DEF GaugeInv

\* Construction keeps the invariant, also when discovery fails half-way.
LEMMA ConstructKeeps ==
  ASSUME GaugeInv, NEW found \in SUBSET FilesOf(gauge), Construct(found) \/ DiscoveryFails(found)
  PROVE  GaugeInv'
<1> USE DEF Construct, DiscoveryFails, restVars, memoryVars, freqVars
<1>1. GaugeTypes' /\ Counted'  BY DEF GaugeInv, GaugeTypes, Counted
<1>2. Handles'
  <2>1. life' = "alive" /\ gauge' = gauge /\ open' = found /\ given' = found  OBVIOUS
  <2>2. zones' = FilesOf(gauge) \/ zones' = {}  BY DEF GaugeInv, Handles
  <2>3. found \subseteq FilesOf(gauge) /\ FilesOf(gauge)' = FilesOf(gauge)
    BY <2>1 DEF FilesOf
  <2> QED  BY <2>1, <2>2, <2>3 DEF Handles
<1>3. HandlesReturned'  BY DEF HandlesReturned
<1>4. FailureShows'  BY ShowsUnchanged DEF GaugeInv
<1> QED  BY <1>1, <1>2, <1>3, <1>4 DEF GaugeInv

\* The destructor closes the sensor's own files.
LEMMA DestroyKeeps == GaugeInv /\ Destroy => GaugeInv'
<1> SUFFICES ASSUME GaugeInv, Destroy PROVE GaugeInv'  OBVIOUS
<1> USE DEF Destroy, restVars, memoryVars, freqVars
<1>1. GaugeTypes' /\ Counted'  BY DEF GaugeInv, GaugeTypes, Counted
<1>2. Handles'  BY DEF Handles
<1>3. HandlesReturned'
  BY DEF GaugeInv, Handles, HandlesReturned, GaugeTypes, FilesOf
<1>4. FailureShows'  BY ShowsUnchanged DEF GaugeInv
<1> QED  BY <1>1, <1>2, <1>3, <1>4 DEF GaugeInv

\* What the kernel reclaims is counted since the baseline.
LEMMA StealKeeps ==
  ASSUME GaugeInv, NEW n \in 0..MaxCount, Steal(n)
  PROVE  GaugeInv'
<1>1. GaugeTypes'
  BY GaugeAssumption DEF GaugeInv, GaugeTypes, Steal
<1>2. Counted'
  <2> SUFFICES ASSUME has_prev', ~rewound' PROVE pgsteal' = prev' + since'
    BY DEF Counted
  <2>1. has_prev' = has_prev /\ prev' = prev /\ pgsteal' = n  BY DEF Steal
  <2>2. ~rewound /\ ~(n < pgsteal)  BY DEF Steal
  <2>3. n > pgsteal /\ since' = since + (n - pgsteal)
    BY <2>2, GaugeAssumption DEF GaugeInv, GaugeTypes, Steal
  <2>4. pgsteal = prev + since  BY <2>1, <2>2 DEF GaugeInv, Counted
  <2> QED  BY <2>1, <2>3, <2>4, GaugeAssumption DEF GaugeInv, GaugeTypes
<1>3. Handles' /\ HandlesReturned'
  BY DEF GaugeInv, Handles, HandlesReturned, FilesOf, Steal
<1>4. FailureShows'  BY ShowsUnchanged DEF GaugeInv, Steal
<1> QED  BY <1>1, <1>2, <1>3, <1>4 DEF GaugeInv

\* A sample that leaves the files and the counters alone.
LEMMA SampleKeeps ==
  ASSUME GaugeInv, NEW v, NEW good, NEW got, Report(v, good, got),
         UNCHANGED <<open, prev, has_prev, since, rewound>>
  PROVE  GaugeTypes' /\ Counted' /\ Handles' /\ HandlesReturned'
<1> USE DEF Report
<1>1. GaugeTypes'  BY DEF GaugeInv, GaugeTypes
<1>2. Counted'  BY DEF GaugeInv, Counted
<1>3. Handles'  BY DEF GaugeInv, Handles, FilesOf
<1>4. HandlesReturned'  BY DEF GaugeInv, HandlesReturned, FilesOf
<1> QED  BY <1>1, <1>2, <1>3, <1>4

\* PsiSensor::sample() keeps the invariant, whatever the read gives.
LEMMA SamplePsiKeeps ==
  ASSUME GaugeInv, NEW r, SamplePsi(r)
  PROVE  GaugeInv'
<1> DEFINE got == Obtained(r, open)
<1>1. /\ gauge = "psi" /\ gauge' = "psi" /\ reads' = got
      /\ field' = [f \in PsiFiles |-> got[f].n]
      /\ ok' = (\A f \in PsiFiles : got[f].kind # "error")
  BY DEF SamplePsi, Report, PsiFields
<1>2. GaugeTypes' /\ Counted' /\ Handles' /\ HandlesReturned'
  BY SampleKeeps DEF SamplePsi, memoryVars
<1>3. FailureShows'  BY <1>1 DEF FailureShows, Enough
<1> QED  BY <1>2, <1>3 DEF GaugeInv

\* CpuFreqSensor::sample() keeps the invariant, whichever cores are read.
LEMMA SampleCpuFreqKeeps ==
  ASSUME GaugeInv, NEW r, SampleCpuFreq(r)
  PROVE  GaugeInv'
<1> DEFINE got == Obtained(r, open)
           cores == {c \in Devices : IsNumber(got[c])}
<1>1. gauge = "cpufreq" /\ UNCHANGED <<open, memoryVars>>  BY DEF SampleCpuFreq
<1>2. CASE cores = {}
  <2>1. Report([cpufreq |-> 0], FALSE, got)  BY <1>2 DEF SampleCpuFreq
  <2>2. GaugeTypes' /\ Counted' /\ Handles' /\ HandlesReturned'
    BY <1>1, <2>1, SampleKeeps DEF memoryVars
  <2>3. /\ gauge' = "cpufreq" /\ reads' = got /\ ok' = FALSE /\ field'["cpufreq"] = 0
    BY <1>1, <2>1 DEF Report
  <2>4. FailureShows'  BY <1>2, <2>3 DEF FailureShows, Enough
  <2> QED  BY <2>2, <2>4 DEF GaugeInv
<1>3. CASE cores # {}
  <2>1. Report([cpufreq |-> ema'], TRUE, got)  BY <1>3 DEF SampleCpuFreq
  <2>2. GaugeTypes' /\ Counted' /\ Handles' /\ HandlesReturned'
    BY <1>1, <2>1, SampleKeeps DEF memoryVars
  <2>3. gauge' = "cpufreq" /\ reads' = got /\ ok' = TRUE  BY <1>1, <2>1 DEF Report
  <2>4. FailureShows'  BY <1>3, <2>3 DEF FailureShows, Enough
  <2> QED  BY <2>2, <2>4 DEF GaugeInv
<1> QED  BY <1>2, <1>3

\* ThermalSensor::sample() keeps the invariant, whichever zones are read.
LEMMA SampleThermalKeeps ==
  ASSUME GaugeInv, NEW r, NEW openable \in SUBSET Devices, SampleThermal(r, openable)
  PROVE  GaugeInv'
<1> DEFINE got == Obtained(r, zones \intersect (open \union openable))
           temps == {got[z].n : z \in {y \in Devices : IsNumber(got[y])}}
           headroom == IF temps = {} THEN 0 ELSE Throttle - Hottest(temps)
<1>1. /\ gauge = "thermal" /\ Report([thermal |-> headroom], temps # {}, got)
      /\ open' = IF owns_files THEN open \union (zones \intersect openable) ELSE open
      /\ UNCHANGED memoryVars
  BY DEF SampleThermal
<1> HIDE DEF headroom
<1>2. GaugeTypes' /\ Counted'
  BY <1>1 DEF GaugeInv, GaugeTypes, Counted, Report, memoryVars
<1>3. Handles' /\ HandlesReturned'
  BY <1>1 DEF GaugeInv, Handles, HandlesReturned, FilesOf, Report, memoryVars
<1>4. FailureShows'
  <2>1. /\ gauge' = "thermal" /\ reads' = got /\ ok' = (temps # {})
        /\ field'["thermal"] = headroom
    BY <1>1 DEF Report
  <2>2. temps # {} <=> \E d \in Devices : IsNumber(got[d])  OBVIOUS
  <2>3. temps = {} => headroom = 0  BY DEF headroom
  <2> HIDE DEF temps, got
  <2> QED  BY <2>1, <2>2, <2>3 DEF FailureShows, Enough
<1> QED  BY <1>2, <1>3, <1>4 DEF GaugeInv

\* A successful sample starts the count anew; a failed one keeps it going.
LEMMA SampleMemoryStep ==
  ASSUME GaugeInv, NEW r \in Readings, SampleMemory(r)
  PROVE  /\ GaugeInv'
         /\ ok' /\ has_prev /\ ~rewound /\ ~rewound' => reclaim' = since
<1> DEFINE got == Obtained(r, open)
           good == IsNumber(got["meminfo"]) /\ got["vmstat"].kind # "error"
           total == got["vmstat"].n
           kilobytes == IF good THEN got["meminfo"].n ELSE 0
<1>1. /\ gauge = "memory" /\ Report([memory |-> kilobytes], good, got)
      /\ UNCHANGED open
  BY DEF SampleMemory
<1>2. /\ good => /\ reclaim' = IF has_prev /\ total >= prev THEN total - prev ELSE 0
                 /\ prev' = total /\ has_prev' = TRUE /\ since' = 0
                 /\ rewound' = (total # pgsteal)
      /\ ~good => UNCHANGED memoryVars
  BY DEF SampleMemory, KeepBaseline
<1>3. total \in Nat
  <2>1. {"meminfo", "vmstat"} = FilesOf(gauge)  BY <1>1 DEF FilesOf
  <2>2. r["vmstat"] \in Outcomes(gauge, "vmstat")  BY <2>1 DEF Readings
  <2>3. NumbersIn(gauge, "vmstat") = {pgsteal}  BY <1>1 DEF NumbersIn
  <2>4. r["vmstat"] \in {Error, Text, Number(pgsteal)}  BY <2>2, <2>3 DEF Outcomes
  <2>5. got["vmstat"] \in {Error, Text, Number(pgsteal)}  BY <2>1, <2>4 DEF Obtained
  <2>6. pgsteal \in Nat  BY DEF GaugeInv, GaugeTypes
  <2> QED  BY <2>5, <2>6 DEF Error, Text, Number
<1> HIDE DEF total, kilobytes
<1>4. FailureShows'
  <2>1. /\ gauge' = "memory" /\ reads' = got /\ ok' = good
        /\ field'["memory"] = kilobytes
    BY <1>1 DEF Report
  <2>2. ~good => kilobytes = 0  BY DEF kilobytes
  <2> QED  BY <2>1, <2>2 DEF FailureShows, Enough
<1> HIDE DEF good
<1>5. GaugeTypes'
  BY <1>1, <1>2, <1>3 DEF GaugeInv, GaugeTypes, Report, memoryVars
<1>6. Counted'
  <2> SUFFICES ASSUME has_prev', ~rewound' PROVE pgsteal' = prev' + since'
    BY DEF Counted
  <2>1. pgsteal' = pgsteal  BY <1>1 DEF Report
  <2>2. CASE good
    <3>1. total = pgsteal  BY <1>2, <2>2
    <3>2. prev' = total /\ since' = 0  BY <1>2, <2>2
    <3> QED  BY <1>3, <2>1, <3>1, <3>2
  <2>3. CASE ~good
    <3>1. /\ has_prev' = has_prev /\ rewound' = rewound /\ prev' = prev /\ since' = since
      BY <1>2, <2>3 DEF memoryVars
    <3>2. pgsteal = prev + since  BY <3>1 DEF GaugeInv, Counted
    <3> QED  BY <2>1, <3>1, <3>2
  <2> QED  BY <2>2, <2>3
<1>7. Handles' /\ HandlesReturned'
  BY <1>1 DEF GaugeInv, Handles, HandlesReturned, FilesOf, Report
<1>8. ASSUME ok', has_prev, ~rewound, ~rewound'
      PROVE  reclaim' = since
  <2>1. good  BY <1>1, <1>8 DEF Report
  <2>2. total = pgsteal  BY <1>2, <1>8, <2>1
  <2>3. pgsteal = prev + since  BY <1>8 DEF GaugeInv, Counted
  <2>4. total >= prev /\ total - prev = since
    BY <2>2, <2>3 DEF GaugeInv, GaugeTypes
  <2> QED  BY <1>2, <1>8, <2>1, <2>4
<1> QED  BY <1>4, <1>5, <1>6, <1>7, <1>8 DEF GaugeInv

\* Steps of the other half leave this one alone.
LEMMA GaugeStutter == GaugeInv /\ UNCHANGED gaugeVars => GaugeInv'
<1> SUFFICES ASSUME GaugeInv, UNCHANGED gaugeVars PROVE GaugeInv'  OBVIOUS
<1> USE DEF gaugeVars
<1>1. GaugeTypes' /\ Counted'  BY DEF GaugeInv, GaugeTypes, Counted
<1>2. Handles' /\ HandlesReturned'  BY DEF GaugeInv, Handles, HandlesReturned, FilesOf
<1>3. FailureShows'  BY ShowsUnchanged DEF GaugeInv
<1> QED  BY <1>1, <1>2, <1>3 DEF GaugeInv

\* Every step of the gauge half keeps the invariant.
LEMMA GaugeStep == GaugeInv /\ GaugeNext => GaugeInv'
  BY ConstructKeeps, DestroyKeeps, StealKeeps, SamplePsiKeeps, SampleCpuFreqKeeps,
     SampleThermalKeeps, SampleMemoryStep
  DEF GaugeNext

-----------------------------------------------------------------------------
(***************************************************************************)
(* What the thermal and the frequency sensor report.                       *)
(***************************************************************************)
\* The moving average lies between two frequencies read, and is what the last
\* sample that succeeded wrote.
FreqInv ==
    /\ range \subseteq Nat
    /\ has_ema => /\ ema \in Nat
                  /\ \E n \in range : n <= ema
                  /\ \E n \in range : ema <= n
    /\ gauge = "cpufreq" /\ ok => has_ema /\ field["cpufreq"] = ema

\* A number obtained is one the file may hold, whichever files can be read.
LEMMA ObtainedNumber ==
  ASSUME NEW r \in Readings, NEW readable, NEW f \in FilesOf(gauge),
         IsNumber(Obtained(r, readable)[f])
  PROVE  Obtained(r, readable)[f].n \in NumbersIn(gauge, f)
<1> DEFINE got == Obtained(r, readable)[f]
<1>1. r[f] \in Outcomes(gauge, f)  BY DEF Readings
<1>2. got = r[f] \/ got = Error  BY DEF Obtained
<1>3. got.kind = "number"  BY DEF IsNumber
<1>4. got # Error /\ got # Text  BY <1>3 DEF Error, Text
<1> HIDE DEF got
<1>5. got \in {Number(n) : n \in NumbersIn(gauge, f)}  BY <1>1, <1>2, <1>4 DEF Outcomes
<1>6. got.n \in NumbersIn(gauge, f)  BY <1>5 DEF Number
<1> QED  BY <1>6 DEF got

\* The zones read give a finite set of temperatures, which has a hottest one.
LEMMA SampleThermalReports ==
  ASSUME NEW r \in Readings, NEW openable \in SUBSET Devices, SampleThermal(r, openable)
  PROVE  HeadroomOfReadable'
<1> DEFINE got == Obtained(r, zones \intersect (open \union openable))
           read == {y \in Devices : IsNumber(got[y])}
           v == [z \in read |-> got[z].n]
           temps == {got[z].n : z \in read}
           headroom == IF temps = {} THEN 0 ELSE Throttle - Hottest(temps)
<1>1. /\ gauge = "thermal" /\ gauge' = gauge
      /\ field' = [thermal |-> headroom] /\ ok' = (temps # {}) /\ reads' = got
  BY DEF SampleThermal, Report
<1>2. \A z \in read : got[z].n \in Int
  <2> SUFFICES ASSUME NEW z \in read PROVE got[z].n \in Int  OBVIOUS
  <2>1. z \in FilesOf(gauge) /\ NumbersIn(gauge, z) = Temps
    BY <1>1 DEF FilesOf, NumbersIn
  <2>2. got[z].n \in Temps  BY <2>1, ObtainedNumber
  <2> QED  BY <2>2, GaugeAssumption
<1>3. IsFiniteSet(temps)
  <2>1. IsFiniteSet(read)  BY GaugeAssumption, FS_Subset
  <2>2. DOMAIN v = read  OBVIOUS
  <2>3. IsFiniteSet({v[z] : z \in read})
    <3> HIDE DEF v, read
    <3> QED  BY <2>1, <2>2, ImageFinite
  <2>4. {v[z] : z \in read} = temps  OBVIOUS
  <2> QED  BY <2>3, <2>4
<1>4. temps \subseteq Int  BY <1>2
<1>5. HeadroomOfReadable' = (ok' =>
        /\ \A t \in temps : field'["thermal"] <= Throttle - t
        /\ \E t \in temps : field'["thermal"] = Throttle - t)
  BY <1>1 DEF HeadroomOfReadable
<1> HIDE DEF got, read, temps
<1>6. ASSUME temps # {}
      PROVE  /\ \A t \in temps : field'["thermal"] <= Throttle - t
             /\ \E t \in temps : field'["thermal"] = Throttle - t
  <2>1. Hottest(temps) \in temps /\ \A t \in temps : Hottest(temps) >= t
    BY <1>3, <1>4, <1>6, MaxOfFinite DEF Hottest
  <2>2. field'["thermal"] = Throttle - Hottest(temps)  BY <1>1, <1>6
  <2>3. Hottest(temps) \in Int /\ Throttle \in Int  BY <1>4, <2>1, GaugeAssumption
  <2>4. \A t \in temps : Throttle - Hottest(temps) <= Throttle - t
    BY <1>4, <2>1, <2>3
  <2> QED  BY <2>1, <2>2, <2>4
<1> QED  BY <1>1, <1>5, <1>6

\* Rounding a weighted average down stays between bounds on both terms.
LEMMA SmoothedBetween ==
  ASSUME NEW a \in Nat, NEW b \in Nat, NEW lo \in Nat, NEW hi \in Nat,
         lo <= a, lo <= b, a <= hi, b <= hi
  PROVE  /\ (3 * a + b) \div 4 \in Nat
         /\ lo <= (3 * a + b) \div 4
         /\ (3 * a + b) \div 4 <= hi
  OBVIOUS

\* The average of the cores read, whichever they are, keeps the bounds.
LEMMA SampleCpuFreqReports ==
  ASSUME FreqInv, NEW r \in Readings, SampleCpuFreq(r)
  PROVE  FreqInv'
<1> DEFINE got == Obtained(r, open)
           cores == {c \in Devices : IsNumber(got[c])}
           v == [c \in cores |-> got[c].n]
           avg == Average(got, cores)
           seen == {got[c].n : c \in cores}
<1>1. gauge = "cpufreq" /\ gauge' = gauge
  BY DEF SampleCpuFreq, Report
<1>2. CASE cores = {}
  <2>1. ok' = FALSE /\ UNCHANGED freqVars  BY <1>2 DEF SampleCpuFreq, Report
  <2> QED  BY <2>1 DEF FreqInv, freqVars
<1>3. CASE cores # {}
  <2>1. /\ ema' = IF has_ema THEN (3 * ema + avg) \div 4 ELSE avg
        /\ has_ema' = TRUE /\ range' = range \union seen
        /\ field' = [cpufreq |-> ema']
    BY <1>3 DEF SampleCpuFreq, Report
  <2>2. v \in [cores -> Nat]
    <3> SUFFICES ASSUME NEW c \in cores PROVE got[c].n \in Nat  OBVIOUS
    <3>1. c \in FilesOf(gauge) /\ NumbersIn(gauge, c) = Levels
      BY <1>1 DEF FilesOf, NumbersIn
    <3>2. got[c].n \in Levels  BY <3>1, ObtainedNumber
    <3> QED  BY <3>2, GaugeAssumption
  <2>3. IsFiniteSet(cores)  BY GaugeAssumption, FS_Subset
  <2>4. avg = SumFunction(v) \div Cardinality(cores)  BY DEF Average
  <2>5. \A c \in cores : v[c] \in seen  OBVIOUS
  <2>6. seen \subseteq Nat  BY <2>2
  <2> HIDE DEF got, cores, v, avg, seen
  <2>7. /\ avg \in Nat
        /\ \E n \in seen : n <= avg
        /\ \E n \in seen : avg <= n
    BY <1>3, <2>2, <2>3, <2>4, <2>5, AverageBetween
  <2>8. range' \subseteq Nat  BY <2>1, <2>6 DEF FreqInv
  <2>9. /\ ema' \in Nat
        /\ \E n \in range' : n <= ema'
        /\ \E n \in range' : ema' <= n
    <3>1. CASE ~has_ema  BY <2>1, <2>7, <3>1
    <3>2. CASE has_ema
      <4>1. PICK l \in seen, h \in seen : l <= avg /\ avg <= h  BY <2>7
      <4>2. PICK k \in range, g \in range : k <= ema /\ ema <= g /\ ema \in Nat
        BY <3>2 DEF FreqInv
      <4>3. l \in Nat /\ h \in Nat /\ k \in Nat /\ g \in Nat  BY <2>6 DEF FreqInv
      <4>4. PICK lo \in {l, k} : lo <= ema /\ lo <= avg
        <5>1. CASE l <= k  BY <2>7, <4>1, <4>2, <4>3, <5>1
        <5>2. CASE k <= l  BY <2>7, <4>1, <4>2, <4>3, <5>2
        <5> QED  BY <4>3, <5>1, <5>2
      <4>5. PICK hi \in {h, g} : ema <= hi /\ avg <= hi
        <5>1. CASE h <= g  BY <2>7, <4>1, <4>2, <4>3, <5>1
        <5>2. CASE g <= h  BY <2>7, <4>1, <4>2, <4>3, <5>2
        <5> QED  BY <4>3, <5>1, <5>2
      <4>6. ema' = (3 * ema + avg) \div 4  BY <2>1, <3>2
      <4>7. lo \in Nat /\ hi \in Nat /\ lo \in range' /\ hi \in range'
        BY <2>1, <4>1, <4>2, <4>3
      <4>8. ema' \in Nat /\ lo <= ema' /\ ema' <= hi
        BY <2>7, <4>2, <4>4, <4>5, <4>6, <4>7, SmoothedBetween
      <4> QED  BY <4>7, <4>8
    <3> QED  BY <3>1, <3>2
  <2>10. field'["cpufreq"] = ema'  BY <2>1
  <2> QED  BY <2>1, <2>8, <2>9, <2>10 DEF FreqInv
<1> QED  BY <1>2, <1>3

\* Every step keeps both; a sensor that is not sampled shows what it showed.
LEMMA ReportsStep ==
  ASSUME HeadroomOfReadable, FreqInv, GaugeNext \/ UNCHANGED gaugeVars
  PROVE  HeadroomOfReadable' /\ FreqInv'
<1> USE DEF memoryVars, freqVars
<1>1. ASSUME UNCHANGED <<gauge, reads, ok, field, ema, has_ema, range>>
      PROVE  HeadroomOfReadable' /\ FreqInv'
  BY <1>1 DEF HeadroomOfReadable, FreqInv
<1>2. ASSUME NEW found \in SUBSET FilesOf(gauge), Construct(found) \/ DiscoveryFails(found)
      PROVE  HeadroomOfReadable' /\ FreqInv'
  BY <1>1, <1>2 DEF Construct, DiscoveryFails, restVars
<1>3. ASSUME Destroy PROVE HeadroomOfReadable' /\ FreqInv'
  BY <1>1, <1>3 DEF Destroy, restVars
<1>4. ASSUME NEW n \in 0..MaxCount, Steal(n) PROVE HeadroomOfReadable' /\ FreqInv'
  BY <1>1, <1>4 DEF Steal
<1>5. ASSUME NEW r \in Readings, SamplePsi(r) \/ SampleMemory(r)
      PROVE  HeadroomOfReadable' /\ FreqInv'
  <2>1. /\ gauge' = gauge /\ gauge \in {"psi", "memory"}
        /\ UNCHANGED <<ema, has_ema, range>>
    BY <1>5 DEF SamplePsi, SampleMemory, Report
  <2> QED  BY <2>1 DEF HeadroomOfReadable, FreqInv
<1>6. ASSUME NEW r \in Readings, NEW openable \in SUBSET Devices, SampleThermal(r, openable)
      PROVE  HeadroomOfReadable' /\ FreqInv'
  <2>1. gauge' = gauge /\ gauge = "thermal" /\ UNCHANGED <<ema, has_ema, range>>
    BY <1>6 DEF SampleThermal, Report
  <2>2. FreqInv'  BY <2>1 DEF FreqInv
  <2> QED  BY <1>6, <2>2, SampleThermalReports
<1>7. ASSUME NEW r \in Readings, SampleCpuFreq(r) PROVE HeadroomOfReadable' /\ FreqInv'
  <2>1. gauge' = "cpufreq"  BY <1>7 DEF SampleCpuFreq, Report
  <2>2. HeadroomOfReadable'  BY <2>1 DEF HeadroomOfReadable
  <2> QED  BY <1>7, <2>2, SampleCpuFreqReports
<1>8. ASSUME UNCHANGED gaugeVars PROVE HeadroomOfReadable' /\ FreqInv'
  BY <1>1, <1>8 DEF gaugeVars
<1> QED  BY <1>2, <1>3, <1>4, <1>5, <1>6, <1>7, <1>8 DEF GaugeNext

-----------------------------------------------------------------------------
(***************************************************************************)
(* Gauges and GPU together.                                                *)
(***************************************************************************)
\* Both invariants hold throughout.
LEMMA Inductive == Spec => [](GpuInv /\ GaugeInv)
<1>1. Init => GpuInv /\ GaugeInv  BY GpuStart, GaugeStart DEF Init
<1>2. GpuInv /\ GaugeInv /\ [Next]_vars => (GpuInv /\ GaugeInv)'
  BY GpuStep, GpuStutter, GaugeStep, GaugeStutter DEF Next, vars
<1> QED  BY <1>1, <1>2, PTL DEF Spec

\* For any periods and any order of failures, the fields named after NVML and
\* after tegrastats hold the last sample of their source alone.
THEOREM OwnFieldsSafety == Spec => []OwnFields
  BY Inductive, PTL DEF GpuInv

\* For any periods, the four fields both sensors write are of the one that ran
\* last, gpu_power_ratio included; where that one had no value the field is still
\* of a single source.
THEOREM SharedFieldsSafety == Spec => []SharedLastWriter
  BY Inductive, PTL DEF GpuInv

\* For any devices, whatever step of a start fails, NVML is given back, borrowed
\* files are as they were and a destroyed sensor has closed its own, but for
\* those of a thermal discovery that failed half-way, all of which stay open.
THEOREM ResourceSafety == Spec => []ResourcesReturned
<1>1. GpuInv => NvmlBalanced
  <2> SUFFICES ASSUME GpuInv PROVE NvmlBalanced  OBVIOUS
  <2>1. CASE stage \in {"tegra", "gpu"} /\ chosen = "nvml"
    <3>a. available  BY <2>1 DEF GpuInv, GpuTypes, NvmlHeld
    <3>b. stage # "end"  BY <2>1
    <3>1. initialized /\ library  BY <3>a, <3>b, Zenon DEF GpuInv, NvmlHeld
    <3>2. inits = 1 /\ loads = 1  BY <2>1, <3>1 DEF GpuInv, NvmlHeld
    <3> QED  BY <2>1, <3>1, <3>2 DEF NvmlBalanced
  <2>2. CASE stage \in {"tegra", "gpu"} /\ chosen = "none"
    <3>1. ~initialized /\ ~library  BY <2>2 DEF GpuInv, NvmlHeld
    <3>2. inits = 0 /\ loads = 0  BY <2>2, <3>1 DEF GpuInv, NvmlHeld
    <3>3. ~available  BY <2>2, <3>1 DEF GpuInv, NvmlHeld
    <3> QED  BY <2>2, <3>2, <3>3 DEF NvmlBalanced
  <2>3. CASE stage \notin {"tegra", "gpu"}
    BY <2>3 DEF GpuInv, NvmlHeld, NvmlBalanced
  <2> QED  BY <2>1, <2>2, <2>3 DEF GpuInv, GpuTypes
<1>2. GpuInv /\ GaugeInv => ResourcesReturned
  BY <1>1 DEF GaugeInv, ResourcesReturned
<1> QED  BY Inductive, <1>2, PTL

\* A failed sample of a gauge is reported as such, and never leaves an older
\* value behind.
THEOREM FailureSafety == Spec => []FailureShows
  BY Inductive, PTL DEF GaugeInv

\* MemorySensor's reclaim activity spans failed samples without loss.
THEOREM ReclaimSafety == Spec => ReclaimTrue
<1>1. ASSUME GaugeInv, [Next]_vars
      PROVE  [gauge = "memory" /\ life' = "alive" /\ pgsteal' = pgsteal /\ ok'
                /\ has_prev /\ ~rewound /\ ~rewound' => reclaim' = since]_gaugeVars
  <2> SUFFICES ASSUME GaugeNext, gauge = "memory", life' = "alive", pgsteal' = pgsteal,
                      ok', has_prev, ~rewound, ~rewound'
               PROVE  reclaim' = since
    BY <1>1 DEF Next, vars
  <2>1. life # "new"  BY <1>1 DEF GaugeInv, Handles
  <2>2. PICK r \in Readings : SampleMemory(r)
    BY <2>1 DEF GaugeNext, Construct, DiscoveryFails, SamplePsi, SampleCpuFreq,
                SampleThermal, Steal, Destroy
  <2> QED  BY <1>1, <2>2, SampleMemoryStep
<1> QED  BY Inductive, <1>1, PTL DEF Spec, ReclaimTrue

\* What the two sensors report is inductive on its own.
LEMMA ReportsInductive == Spec => [](HeadroomOfReadable /\ FreqInv)
<1>1. Init => HeadroomOfReadable /\ FreqInv
  BY DEF Init, GaugeInit, HeadroomOfReadable, FreqInv
<1>2. HeadroomOfReadable /\ FreqInv /\ [Next]_vars => (HeadroomOfReadable /\ FreqInv)'
  BY ReportsStep DEF Next, vars
<1> QED  BY <1>1, <1>2, PTL DEF Spec

\* For any zones and any integer temperatures, the headroom written is that of
\* the hottest zone that could be read.
THEOREM HeadroomSafety == Spec => []HeadroomOfReadable
  BY ReportsInductive, PTL

\* For any cores and any readings, the smoothed frequency stays among those read,
\* rounding included.
THEOREM FreqSafety == Spec => []FreqWithinSeen
<1>1. FreqInv => FreqWithinSeen  BY DEF FreqInv, FreqWithinSeen
<1> QED  BY ReportsInductive, <1>1, PTL

-----------------------------------------------------------------------------
(***************************************************************************)
(* The counter sensors.                                                    *)
(***************************************************************************)
\* What the kernel's counters of a sensor may be.
ReadingsOf(s) == [UnitsOf(s) -> [Fields[s] -> Nat]]

\* The types the steps depend on.
CounterTypes ==
    /\ sensor \in Sensors
    /\ counter \in ReadingsOf(sensor) /\ counted \in ReadingsOf(sensor)
    /\ baseline \in Nat /\ least \in Nat

\* b is what the sensor read last: unless reads failed then, a counter is what
\* it was and what was counted since, or less if it went back.  The clock never
\* does.
ReadLast(b) ==
    /\ previous = Kept(sensor, b)
    /\ has_previous /\ ~broken =>
          \A u \in UnitsOf(sensor), f \in Fields[sensor] :
              /\ counter[u][f] <= b[u][f] + counted[u][f]
              /\ ~went_back \/ f = "time" => counter[u][f] = b[u][f] + counted[u][f]

\* Only the sensors of many files have baselines spoiled by failed reads.
BrokenOnlyMany == broken => ReadsManyFiles(sensor)

\* The softirqs baseline averages deltas of which none is below the least.
BaselineAboveLeast == baseline >= S * least

CounterInv ==
    /\ CounterTypes /\ BrokenOnlyMany /\ BaselineAboveLeast
    /\ \E b \in ReadingsOf(sensor) : ReadLast(b)
    /\ InRange

\* The counters of every sensor, and the units it reads them for.
LEMMA CounterFields ==
  /\ Sensors = {"cpu", "interrupts", "softirqs", "disk", "network", "throttle"}
  /\ Fields["cpu"] = {"idle", "busy"} /\ Fields["interrupts"] = {"intr", "time"}
  /\ Fields["softirqs"] = {"total"} /\ Fields["disk"] = {"completed", "weighted"}
  /\ Fields["network"] = {"packets", "drops"} /\ Fields["throttle"] = {"core", "package"}
  BY DEF Sensors, Fields

\* There are finitely many units.
LEMMA UnitsFinite == \A s : IsFiniteSet(UnitsOf(s))
  BY CounterAssumption, FS_Singleton DEF UnitsOf, Whole

\* The sum of a counter over the units is a natural.
LEMMA SumOfUnits ==
  ASSUME NEW s \in Sensors, NEW r \in ReadingsOf(s), NEW f \in Fields[s]
  PROVE  Sum(r, f) \in Nat
<1> DEFINE v == [u \in UnitsOf(s) |-> r[u][f]]
<1>1. v \in [UnitsOf(s) -> Nat]  BY DEF ReadingsOf
<1>2. DOMAIN r = UnitsOf(s)  BY DEF ReadingsOf
<1>3. Sum(r, f) = SumFunction(v)  BY <1>2 DEF Sum
<1> HIDE DEF v
<1> QED  BY <1>1, <1>3, UnitsFinite, SumType

\* What holds of each unit's counter holds of the sum: it grew by what was
\* counted, or by less.
LEMMA SumCounted ==
  ASSUME NEW s \in Sensors, NEW f \in Fields[s],
         NEW now \in ReadingsOf(s), NEW b \in ReadingsOf(s), NEW c \in ReadingsOf(s)
  PROVE  /\ (\A u \in UnitsOf(s) : now[u][f] <= b[u][f] + c[u][f])
               => Sum(now, f) <= Sum(b, f) + Sum(c, f)
         /\ (\A u \in UnitsOf(s) : now[u][f] = b[u][f] + c[u][f])
               => Sum(now, f) = Sum(b, f) + Sum(c, f)
<1> DEFINE D == UnitsOf(s)
           n == [u \in D |-> now[u][f]]
           v == [u \in D |-> b[u][f]]
           w == [u \in D |-> c[u][f]]
           z == [u \in D |-> v[u] + w[u]]
<1>1. n \in [D -> Nat] /\ v \in [D -> Nat] /\ w \in [D -> Nat]  BY DEF ReadingsOf
<1>2. z \in [D -> Nat]  BY <1>1
<1>3. /\ Sum(now, f) = SumFunction(n) /\ Sum(b, f) = SumFunction(v)
      /\ Sum(c, f) = SumFunction(w)
  <2>1. DOMAIN now = D /\ DOMAIN b = D /\ DOMAIN c = D  BY DEF ReadingsOf
  <2> QED  BY <2>1 DEF Sum
<1>4. IsFiniteSet(D)  BY UnitsFinite
<1>5. SumFunction(z) = SumFunction(v) + SumFunction(w)
  <2> HIDE DEF D, v, w
  <2> QED  BY <1>1, <1>4, SumAdds
<1>6. ASSUME \A u \in D : now[u][f] <= b[u][f] + c[u][f]
      PROVE  SumFunction(n) <= SumFunction(z)
  <2>1. \A u \in D : n[u] <= z[u]  BY <1>6
  <2> HIDE DEF D, n, z
  <2> QED  BY <1>1, <1>2, <1>4, <2>1, SumMonotone
<1>7. ASSUME \A u \in D : now[u][f] = b[u][f] + c[u][f]
      PROVE  SumFunction(n) = SumFunction(z)
  <2>1. n = z  BY <1>7
  <2> QED  BY <2>1
<1> HIDE DEF D, n, v, w, z
<1> QED  BY <1>3, <1>5, <1>6, <1>7 DEF D

\* A guarded difference is a natural and never more than what was added.
LEMMA DeltaBounds ==
  ASSUME NEW now \in Nat, NEW before \in Nat
  PROVE  /\ Delta(now, before) \in Nat /\ Delta(now, before) <= now
         /\ \A c \in Nat : now <= before + c => Delta(now, before) <= c
         /\ \A c \in Nat : now = before + c => Delta(now, before) = c
  BY DEF Delta

-----------------------------------------------------------------------------
\* Initially nothing was read and nothing counted.
LEMMA CounterStart == CounterInit => CounterInv
<1> SUFFICES ASSUME CounterInit PROVE CounterInv  OBVIOUS
<1> USE DEF CounterInit
<1>1. Nothing(sensor) \in ReadingsOf(sensor)  BY DEF Nothing, ReadingsOf
<1>2. counter \in ReadingsOf(sensor)
  <2>1. \A u \in UnitsOf(sensor) : counter[u] \in [Fields[sensor] -> Nat]  OBVIOUS
  <2> QED  BY <2>1 DEF ReadingsOf
<1>3. CounterTypes  BY <1>1, <1>2 DEF CounterTypes
<1>4. ReadLast(Nothing(sensor))  BY DEF ReadLast
<1>5. BrokenOnlyMany /\ BaselineAboveLeast
  BY CounterAssumption DEF BrokenOnlyMany, BaselineAboveLeast
<1>6. InRange  BY DEF InRange, Zero
<1> QED  BY <1>1, <1>3, <1>4, <1>5, <1>6 DEF CounterInv

\* A counter that moves keeps its distance to what was read last.
LEMMA KernelKeeps ==
  ASSUME CounterInv, NEW u \in UnitsOf(sensor), NEW f \in Fields[sensor],
         Count(u, f) \/ \E n \in 0..MaxCounter : Rewind(u, f, n)
  PROVE  CounterInv'
<1>1. PICK b \in ReadingsOf(sensor) : ReadLast(b)  BY DEF CounterInv
<1>2. /\ sensor \in Sensors /\ baseline \in Nat /\ least \in Nat
      /\ counter \in [UnitsOf(sensor) -> [Fields[sensor] -> Nat]]
      /\ counted \in [UnitsOf(sensor) -> [Fields[sensor] -> Nat]]
      /\ b \in [UnitsOf(sensor) -> [Fields[sensor] -> Nat]]
  BY <1>1 DEF CounterInv, CounterTypes, ReadingsOf
<1>3. /\ UNCHANGED <<sensor, previous, has_previous, baseline, value, broken, least>>
  BY DEF Count, Rewind
<1>4. CASE Count(u, f)
  <2>1. /\ counter' = [counter EXCEPT ![u][f] = @ + 1]
        /\ counted' = [counted EXCEPT ![u][f] = @ + 1] /\ went_back' = went_back
    BY <1>4 DEF Count
  <2>2. counter' \in ReadingsOf(sensor) /\ counted' \in ReadingsOf(sensor)
    BY <1>2, <2>1 DEF ReadingsOf
  <2>3. ASSUME NEW v \in UnitsOf(sensor), NEW g \in Fields[sensor]
        PROVE  \/ counter'[v][g] = counter[v][g] /\ counted'[v][g] = counted[v][g]
               \/ counter'[v][g] = counter[v][g] + 1 /\ counted'[v][g] = counted[v][g] + 1
    BY <1>2, <2>1
  <2>4. ReadLast(b)'
    <3> SUFFICES ASSUME has_previous, ~broken,
                        NEW v \in UnitsOf(sensor), NEW g \in Fields[sensor]
                 PROVE  /\ counter'[v][g] <= b[v][g] + counted'[v][g]
                        /\ ~went_back \/ g = "time" => counter'[v][g] = b[v][g] + counted'[v][g]
      BY <1>1, <1>3, <2>1 DEF ReadLast
    <3>1. /\ counter[v][g] <= b[v][g] + counted[v][g]
          /\ ~went_back \/ g = "time" => counter[v][g] = b[v][g] + counted[v][g]
      BY <1>1 DEF ReadLast
    <3>2. b[v][g] \in Nat /\ counter[v][g] \in Nat /\ counted[v][g] \in Nat  BY <1>2
    <3> QED  BY <2>3, <3>1, <3>2
  <2> QED  BY <1>2, <1>3, <2>2, <2>4
    DEF CounterInv, CounterTypes, BrokenOnlyMany, BaselineAboveLeast, InRange
<1>5. CASE \E n \in 0..MaxCounter : Rewind(u, f, n)
  <2>1. PICK n \in 0..MaxCounter : Rewind(u, f, n)  BY <1>5
  <2>2. /\ counter' = [counter EXCEPT ![u][f] = n] /\ n \in Nat /\ n < counter[u][f]
        /\ counted' = counted /\ went_back' = TRUE /\ f # "time"
    BY <2>1, CounterAssumption DEF Rewind
  <2>3. counter' \in ReadingsOf(sensor) /\ counted' \in ReadingsOf(sensor)
    BY <1>2, <2>2 DEF ReadingsOf
  <2>4. ASSUME NEW v \in UnitsOf(sensor), NEW g \in Fields[sensor]
        PROVE  /\ counter'[v][g] <= counter[v][g]
               /\ g = "time" => counter'[v][g] = counter[v][g]
    BY <1>2, <2>2
  <2>5. ReadLast(b)'
    <3> SUFFICES ASSUME has_previous, ~broken,
                        NEW v \in UnitsOf(sensor), NEW g \in Fields[sensor]
                 PROVE  /\ counter'[v][g] <= b[v][g] + counted[v][g]
                        /\ g = "time" => counter'[v][g] = b[v][g] + counted[v][g]
      BY <1>1, <1>3, <2>2 DEF ReadLast
    <3>1. /\ counter[v][g] <= b[v][g] + counted[v][g]
          /\ g = "time" => counter[v][g] = b[v][g] + counted[v][g]
      BY <1>1 DEF ReadLast
    <3>2. /\ b[v][g] \in Nat /\ counter[v][g] \in Nat /\ counted[v][g] \in Nat
          /\ counter'[v][g] \in Nat
      BY <1>2, <2>3 DEF ReadingsOf
    <3> QED  BY <2>4, <3>1, <3>2
  <2> QED  BY <1>2, <1>3, <2>3, <2>5
    DEF CounterInv, CounterTypes, BrokenOnlyMany, BaselineAboveLeast, InRange
<1> QED  BY <1>4, <1>5

\* A sample that fails as a whole leaves the baseline alone.
LEMMA ReadFailsKeeps == CounterInv /\ ReadFails => CounterInv'
<1> SUFFICES ASSUME CounterInv, ReadFails PROVE CounterInv'  OBVIOUS
<1>1. /\ UNCHANGED <<sensor, counter, has_previous, baseline, least>>
      /\ UNCHANGED <<previous, counted, went_back, broken>> /\ value' = Zero
  BY DEF ReadFails, KeepsPrevious
<1>2. PICK b \in ReadingsOf(sensor) : ReadLast(b)  BY DEF CounterInv
<1>3. ReadLast(b)'  BY <1>1, <1>2 DEF ReadLast
<1>4. CounterTypes' /\ BrokenOnlyMany' /\ BaselineAboveLeast'
  BY <1>1 DEF CounterInv, CounterTypes, BrokenOnlyMany, BaselineAboveLeast
<1>5. InRange'  BY <1>1 DEF InRange, Zero
<1> QED  BY <1>1, <1>2, <1>3, <1>4, <1>5 DEF CounterInv

-----------------------------------------------------------------------------
\* What the sensors remember.
LEMMA KeptSums ==
  ASSUME NEW r
  PROVE  /\ Kept("cpu", r).total = Sum(r, "idle") + Sum(r, "busy")
         /\ Kept("cpu", r).idle = Sum(r, "idle")
         /\ Kept("throttle", r) = r
         /\ \A s \in {"interrupts", "softirqs", "disk", "network"} :
               \A f \in Fields[s] : Kept(s, r)[f] = Sum(r, f)
<1>1. Kept("cpu", r) = [total |-> Sum(r, "idle") + Sum(r, "busy"), idle |-> Sum(r, "idle")]
  BY DEF Kept
<1>2. Kept("throttle", r) = r  BY DEF Kept
<1>3. ASSUME NEW s \in {"interrupts", "softirqs", "disk", "network"}
      PROVE  Kept(s, r) = [f \in Fields[s] |-> Sum(r, f)]
  BY DEF Kept
<1> QED  BY <1>1, <1>2, <1>3

\* The sum of a counter grew by what was counted since b was read, or by less.
LEMMA GrewByCounted ==
  ASSUME CounterInv, has_previous, ~broken,
         NEW b \in ReadingsOf(sensor), ReadLast(b), NEW f \in Fields[sensor]
  PROVE  /\ Sum(counter, f) \in Nat /\ Sum(b, f) \in Nat /\ Sum(counted, f) \in Nat
         /\ Sum(counter, f) <= Sum(b, f) + Sum(counted, f)
         /\ ~went_back \/ f = "time" => Sum(counter, f) = Sum(b, f) + Sum(counted, f)
<1>1. /\ sensor \in Sensors
      /\ counter \in ReadingsOf(sensor) /\ counted \in ReadingsOf(sensor)
  BY DEF CounterInv, CounterTypes
<1>2. /\ \A u \in UnitsOf(sensor) : counter[u][f] <= b[u][f] + counted[u][f]
      /\ ~went_back \/ f = "time" =>
             \A u \in UnitsOf(sensor) : counter[u][f] = b[u][f] + counted[u][f]
  BY DEF ReadLast
<1>3. Sum(counter, f) \in Nat /\ Sum(b, f) \in Nat /\ Sum(counted, f) \in Nat
  BY <1>1, SumOfUnits
<1>4. /\ (\A u \in UnitsOf(sensor) : counter[u][f] <= b[u][f] + counted[u][f])
            => Sum(counter, f) <= Sum(b, f) + Sum(counted, f)
      /\ (\A u \in UnitsOf(sensor) : counter[u][f] = b[u][f] + counted[u][f])
            => Sum(counter, f) = Sum(b, f) + Sum(counted, f)
  BY <1>1, SumCounted
<1> QED  BY <1>2, <1>3, <1>4

\* So does the difference a sensor takes.
LEMMA DeltaOfCounted ==
  ASSUME CounterInv, has_previous, ~broken,
         NEW b \in ReadingsOf(sensor), ReadLast(b), NEW f \in Fields[sensor]
  PROVE  /\ Delta(Sum(counter, f), Sum(b, f)) \in Nat
         /\ Delta(Sum(counter, f), Sum(b, f)) <= Sum(counted, f)
         /\ ~went_back => Delta(Sum(counter, f), Sum(b, f)) = Sum(counted, f)
<1>1. /\ Sum(counter, f) \in Nat /\ Sum(b, f) \in Nat /\ Sum(counted, f) \in Nat
      /\ Sum(counter, f) <= Sum(b, f) + Sum(counted, f)
      /\ ~went_back => Sum(counter, f) = Sum(b, f) + Sum(counted, f)
  BY GrewByCounted
<1> QED  BY <1>1, DeltaBounds

\* Smaller differences make no greater numerator, also where there is nothing
\* to divide by.
LEMMA RatioBelow ==
  ASSUME NEW n \in Nat, NEW d \in Nat, NEW high \in Nat, NEW all \in Nat, n <= high, d <= all
  PROVE  Ratio(n, d)[1] <= Ratio(high, all)[1]
  BY DEF Ratio, Zero

\* Keeping a reading, the counters themselves if every file was read, starts
\* the count anew.
LEMMA KeepingKeeps ==
  ASSUME CounterInv, NEW r \in ReadingsOf(sensor), NEW complete, NEW v,
         KeepAndReport(r, complete, v),
         complete => r = counter, ~complete => ReadsManyFiles(sensor),
         UNCHANGED <<baseline, least>> \/ (baseline' \in Nat /\ least' \in Nat)
  PROVE  /\ CounterTypes' /\ BrokenOnlyMany'
         /\ \E b \in ReadingsOf(sensor)' : ReadLast(b)'
<1>1. /\ sensor' = sensor /\ counter' = counter /\ previous' = Kept(sensor, r)
      /\ counted' = Nothing(sensor) /\ broken' = ~complete
  BY DEF KeepAndReport
<1>2. Nothing(sensor) \in ReadingsOf(sensor)  BY DEF Nothing, ReadingsOf
<1>3. CounterTypes'  BY <1>1, <1>2 DEF CounterInv, CounterTypes
<1>4. BrokenOnlyMany'  BY <1>1 DEF BrokenOnlyMany, ReadsManyFiles
<1>5. ReadLast(r)'
  <2> SUFFICES ASSUME complete, NEW u \in UnitsOf(sensor), NEW f \in Fields[sensor]
               PROVE  counter[u][f] = r[u][f] + 0 /\ counter[u][f] <= r[u][f] + 0
    BY <1>1 DEF ReadLast, Nothing
  <2>1. r = counter /\ counter[u][f] \in Nat
    BY DEF CounterInv, CounterTypes, ReadingsOf
  <2> QED  BY <2>1
<1> QED  BY <1>1, <1>3, <1>4, <1>5

\* What RatesAreTrue says of a sample.
TrueRate ==
    has_previous /\ ~broken =>
        IF went_back THEN value'[1] <= Truth(counted)[1] ELSE value' = Truth(counted)

\* CpuSensor: the busy share of the time that passed.  Idle time that went back
\* only takes from the total.
LEMMA SampleCpuStep ==
  ASSUME CounterInv, SampleCpu
  PROVE  CounterInv' /\ TrueRate
<1> DEFINE now == Kept("cpu", counter)
           total_delta == Delta(now.total, previous.total)
           idle_delta == Delta(now.idle, previous.idle)
           v == Ratio(Busy(total_delta, idle_delta), total_delta)
<1>1. /\ sensor = "cpu" /\ KeepAndReport(counter, TRUE, v) /\ UNCHANGED <<baseline, least>>
  BY DEF SampleCpu
<1>2. PICK b \in ReadingsOf(sensor) : ReadLast(b)  BY DEF CounterInv
<1>3. counter \in ReadingsOf(sensor) /\ counted \in ReadingsOf(sensor) /\ sensor \in Sensors
  BY DEF CounterInv, CounterTypes
<1> DEFINE I == Sum(counter, "idle")  B == Sum(counter, "busy")
           pI == Sum(b, "idle")       pB == Sum(b, "busy")
           cI == Sum(counted, "idle") cB == Sum(counted, "busy")
<1>4. /\ I \in Nat /\ B \in Nat /\ pI \in Nat /\ pB \in Nat /\ cI \in Nat /\ cB \in Nat
  <2>1. "idle" \in Fields[sensor] /\ "busy" \in Fields[sensor]  BY <1>1, CounterFields
  <2> QED  BY <1>3, <2>1, SumOfUnits
<1>5. total_delta = Delta(I + B, pI + pB) /\ idle_delta = Delta(I, pI)
  <2>1. previous = Kept("cpu", b)  BY <1>1, <1>2 DEF ReadLast
  <2> QED  BY <2>1, KeptSums
<1>6. value' = IF has_previous THEN v ELSE Zero  BY <1>1 DEF KeepAndReport
<1>7. Truth(counted) = Ratio(cB, cB + cI)  BY <1>1 DEF Truth
<1>8. ASSUME has_previous, ~broken
      PROVE  /\ I <= pI + cI /\ B <= pB + cB
             /\ ~went_back => I = pI + cI /\ B = pB + cB
  <2>1. "idle" \in Fields[sensor] /\ "busy" \in Fields[sensor]  BY <1>1, CounterFields
  <2> QED  BY <1>2, <1>8, <2>1, GrewByCounted
<1>9. sensor' = sensor  BY <1>1 DEF KeepAndReport
<1> HIDE DEF now, I, B, pI, pB, cI, cB
<1>10. InRange'
  <2>1. total_delta \in Nat /\ idle_delta \in Nat  BY <1>4, <1>5 DEF Delta
  <2> HIDE DEF total_delta, idle_delta
  <2>2. Busy(total_delta, idle_delta) <= total_delta /\ Busy(total_delta, idle_delta) \in Nat
    BY <2>1 DEF Busy, Delta
  <2>3. 0 <= v[1] /\ v[1] <= v[2] /\ 0 < v[2]  BY <2>1, <2>2 DEF Ratio, Zero
  <2> HIDE DEF v
  <2> QED  BY <1>6, <2>3 DEF InRange, Zero
<1>11. TrueRate
  <2> SUFFICES ASSUME has_previous, ~broken
               PROVE  IF went_back THEN v[1] <= Ratio(cB, cB + cI)[1]
                                   ELSE v = Ratio(cB, cB + cI)
    BY <1>6, <1>7 DEF TrueRate
  <2>1. CASE ~went_back
    <3>1. I = pI + cI /\ B = pB + cB  BY <1>8, <2>1
    <3>2. total_delta = cB + cI /\ idle_delta = cI  BY <1>4, <1>5, <3>1 DEF Delta
    <3>3. Busy(total_delta, idle_delta) = cB  BY <1>4, <3>2 DEF Busy, Delta
    <3> QED  BY <2>1, <3>2, <3>3
  <2>2. CASE went_back
    <3>1. total_delta \in Nat /\ Busy(total_delta, idle_delta) \in Nat
      BY <1>4, <1>5 DEF Busy, Delta
    <3>2. total_delta <= cB + cI /\ Busy(total_delta, idle_delta) <= cB
      BY <1>4, <1>5, <1>8 DEF Busy, Delta
    <3>3. cB + cI \in Nat  BY <1>4
    <3> HIDE DEF total_delta, idle_delta
    <3> QED  BY <1>4, <2>2, <3>1, <3>2, <3>3, RatioBelow
  <2> QED  BY <2>1, <2>2
<1>12. CounterTypes' /\ BrokenOnlyMany' /\ \E r \in ReadingsOf(sensor)' : ReadLast(r)'
  <2> HIDE DEF v
  <2> QED  BY <1>1, <1>3, KeepingKeeps
<1>13. BaselineAboveLeast'  BY <1>1 DEF CounterInv, BaselineAboveLeast
<1> QED  BY <1>10, <1>11, <1>12, <1>13 DEF CounterInv

\* InterruptsSensor: the clock never goes back, so its difference is exact.
LEMMA SampleInterruptsStep ==
  ASSUME CounterInv, SampleInterrupts
  PROVE  CounterInv' /\ TrueRate
<1> DEFINE now == Kept("interrupts", counter)
           v == Ratio(Delta(now.intr, previous.intr), now.time - previous.time)
<1>1. /\ sensor = "interrupts" /\ KeepAndReport(counter, TRUE, v)
      /\ UNCHANGED <<baseline, least>>
  BY DEF SampleInterrupts
<1>2. PICK b \in ReadingsOf(sensor) : ReadLast(b)  BY DEF CounterInv
<1>3. counter \in ReadingsOf(sensor)  BY DEF CounterInv, CounterTypes
<1>4. "intr" \in Fields[sensor] /\ "time" \in Fields[sensor]  BY <1>1, CounterFields
<1>5. v = Ratio(Delta(Sum(counter, "intr"), Sum(b, "intr")),
                Sum(counter, "time") - Sum(b, "time"))
  <2>1. previous = Kept("interrupts", b)  BY <1>1, <1>2 DEF ReadLast
  <2> QED  BY <1>1, <1>4, <2>1, KeptSums
<1> HIDE DEF v
<1>6. TrueRate
  <2> SUFFICES ASSUME has_previous, ~broken
               PROVE  IF went_back THEN v[1] <= Truth(counted)[1] ELSE v = Truth(counted)
    BY <1>1 DEF TrueRate, KeepAndReport
  <2>1. Truth(counted) = Ratio(Sum(counted, "intr"), Sum(counted, "time"))
    BY <1>1 DEF Truth
  <2>2. /\ Delta(Sum(counter, "intr"), Sum(b, "intr")) \in Nat
        /\ Delta(Sum(counter, "intr"), Sum(b, "intr")) <= Sum(counted, "intr")
        /\ ~went_back => Delta(Sum(counter, "intr"), Sum(b, "intr")) = Sum(counted, "intr")
    BY <1>2, <1>4, DeltaOfCounted
  <2>3. Sum(counted, "intr") \in Nat  BY <1>2, <1>4, GrewByCounted
  <2>4. /\ Sum(counter, "time") - Sum(b, "time") = Sum(counted, "time")
        /\ Sum(counted, "time") \in Nat
    <3>1. /\ Sum(counter, "time") = Sum(b, "time") + Sum(counted, "time")
          /\ Sum(b, "time") \in Nat /\ Sum(counted, "time") \in Nat
      BY <1>2, <1>4, GrewByCounted
    <3> QED  BY <3>1
  <2>5. v[1] <= Truth(counted)[1]  BY <1>5, <2>1, <2>2, <2>3, <2>4, RatioBelow
  <2> QED  BY <1>5, <2>1, <2>2, <2>4, <2>5
<1>7. InRange'  BY <1>1 DEF InRange, KeepAndReport
<1>8. CounterTypes' /\ BrokenOnlyMany' /\ \E r \in ReadingsOf(sensor)' : ReadLast(r)'
  BY <1>1, <1>3, KeepingKeeps
<1>9. BaselineAboveLeast'  BY <1>1 DEF CounterInv, BaselineAboveLeast
<1> QED  BY <1>6, <1>7, <1>8, <1>9 DEF CounterInv

\* The ratio of two differences of sums.
LEMMA PairRate ==
  ASSUME CounterInv, has_previous, ~broken, NEW b \in ReadingsOf(sensor), ReadLast(b),
         NEW f \in Fields[sensor], NEW g \in Fields[sensor], NEW v,
         v = Ratio(Delta(Sum(counter, f), Sum(b, f)), Delta(Sum(counter, g), Sum(b, g))),
         Truth(counted) = Ratio(Sum(counted, f), Sum(counted, g))
  PROVE  IF went_back THEN v[1] <= Truth(counted)[1] ELSE v = Truth(counted)
<1>1. \A h \in {f, g} : /\ Delta(Sum(counter, h), Sum(b, h)) \in Nat
                        /\ Delta(Sum(counter, h), Sum(b, h)) <= Sum(counted, h)
                        /\ ~went_back => Delta(Sum(counter, h), Sum(b, h)) = Sum(counted, h)
  BY DeltaOfCounted
<1>2. Sum(counted, f) \in Nat /\ Sum(counted, g) \in Nat  BY GrewByCounted
<1>3. v[1] <= Truth(counted)[1]  BY <1>1, <1>2, RatioBelow
<1> QED  BY <1>1, <1>3

\* DiskSensor: the weighted time per request completed.
LEMMA SampleDiskStep ==
  ASSUME CounterInv, SampleDisk
  PROVE  CounterInv' /\ TrueRate
<1> DEFINE now == Kept("disk", counter)
           v == Ratio(Delta(now.weighted, previous.weighted),
                      Delta(now.completed, previous.completed))
<1>1. sensor = "disk" /\ KeepAndReport(counter, TRUE, v) /\ UNCHANGED <<baseline, least>>
  BY DEF SampleDisk
<1>2. PICK b \in ReadingsOf(sensor) : ReadLast(b)  BY DEF CounterInv
<1>3. counter \in ReadingsOf(sensor)  BY DEF CounterInv, CounterTypes
<1>4. "weighted" \in Fields[sensor] /\ "completed" \in Fields[sensor]
  BY <1>1, CounterFields
<1>5. v = Ratio(Delta(Sum(counter, "weighted"), Sum(b, "weighted")),
                Delta(Sum(counter, "completed"), Sum(b, "completed")))
  <2>1. previous = Kept("disk", b)  BY <1>1, <1>2 DEF ReadLast
  <2> QED  BY <1>1, <1>4, <2>1, KeptSums
<1>6. Truth(counted) = Ratio(Sum(counted, "weighted"), Sum(counted, "completed"))
  BY <1>1 DEF Truth
<1> HIDE DEF v
<1>7. TrueRate
  <2> SUFFICES ASSUME has_previous, ~broken
               PROVE  IF went_back THEN v[1] <= Truth(counted)[1] ELSE v = Truth(counted)
    BY <1>1 DEF TrueRate, KeepAndReport
  <2> QED  BY <1>2, <1>4, <1>5, <1>6, PairRate
<1>8. InRange'  BY <1>1 DEF InRange, KeepAndReport
<1>9. CounterTypes' /\ BrokenOnlyMany' /\ \E r \in ReadingsOf(sensor)' : ReadLast(r)'
  BY <1>1, <1>3, KeepingKeeps
<1>10. BaselineAboveLeast'  BY <1>1 DEF CounterInv, BaselineAboveLeast
<1> QED  BY <1>7, <1>8, <1>9, <1>10 DEF CounterInv

\* A sensor of many files reads some number for each counter, and the counters
\* themselves if no read fails.
LEMMA ReadGives ==
  ASSUME CounterInv, ReadsManyFiles(sensor), NEW failed
  PROVE  Read(failed) \in ReadingsOf(sensor) /\ (failed = {} => Read(failed) = counter)
<1>1. UnitsOf(sensor) = Units  BY DEF ReadsManyFiles, UnitsOf
<1>2. counter \in [Units -> [Fields[sensor] -> Nat]]
  BY <1>1 DEF CounterInv, CounterTypes, ReadingsOf
<1>3. Read(failed) \in [Units -> [Fields[sensor] -> Nat]]  BY <1>2 DEF Read
<1>4. ASSUME failed = {} PROVE Read(failed) = counter
  <2>1. ASSUME NEW u \in Units PROVE Read(failed)[u] = counter[u]
    <3>1. Read(failed)[u] = [f \in Fields[sensor] |-> counter[u][f]]  BY <1>4 DEF Read
    <3>2. counter[u] \in [Fields[sensor] -> Nat]  BY <1>2
    <3> QED  BY <3>1, <3>2
  <2> QED  BY <1>2, <1>3, <2>1
<1> QED  BY <1>1, <1>3, <1>4 DEF ReadingsOf

\* NetworkSensor: drops per packet, after a sample that could read every file.
LEMMA SampleNetworkStep ==
  ASSUME CounterInv, NEW failed, SampleNetwork(failed)
  PROVE  CounterInv' /\ (succeeded' => TrueRate)
<1> DEFINE r == Read(failed)
           now == Kept("network", r)
           v == Ratio(Delta(now.drops, previous.drops), Delta(now.packets, previous.packets))
<1>1. sensor = "network" /\ KeepAndReport(r, failed = {}, v) /\ UNCHANGED <<baseline, least>>
  BY DEF SampleNetwork
<1>2. PICK b \in ReadingsOf(sensor) : ReadLast(b)  BY DEF CounterInv
<1>3. ReadsManyFiles(sensor)  BY <1>1 DEF ReadsManyFiles
<1>4. r \in ReadingsOf(sensor) /\ (failed = {} => r = counter)  BY <1>3, ReadGives
<1>5. "drops" \in Fields[sensor] /\ "packets" \in Fields[sensor]  BY <1>1, CounterFields
<1>6. v = Ratio(Delta(Sum(r, "drops"), Sum(b, "drops")),
                Delta(Sum(r, "packets"), Sum(b, "packets")))
  <2>1. previous = Kept("network", b)  BY <1>1, <1>2 DEF ReadLast
  <2> HIDE DEF r
  <2> QED  BY <1>1, <1>5, <2>1, KeptSums
<1>7. Truth(counted) = Ratio(Sum(counted, "drops"), Sum(counted, "packets"))
  BY <1>1 DEF Truth
<1> HIDE DEF v, r
<1>8. ASSUME succeeded' PROVE TrueRate
  <2> SUFFICES ASSUME has_previous, ~broken
               PROVE  IF went_back THEN v[1] <= Truth(counted)[1] ELSE v = Truth(counted)
    BY <1>1 DEF TrueRate, KeepAndReport
  <2>1. r = counter  BY <1>1, <1>4, <1>8 DEF KeepAndReport
  <2> QED  BY <1>2, <1>5, <1>6, <1>7, <2>1, PairRate
<1>9. InRange'  BY <1>1 DEF InRange, KeepAndReport
<1>10. CounterTypes' /\ BrokenOnlyMany' /\ \E c \in ReadingsOf(sensor)' : ReadLast(c)'
  BY <1>1, <1>3, <1>4, KeepingKeeps
<1>11. BaselineAboveLeast'  BY <1>1 DEF CounterInv, BaselineAboveLeast
<1> QED  BY <1>8, <1>9, <1>10, <1>11 DEF CounterInv

\* CpuThrottleSensor: a core was throttled since if either of its counters grew.
LEMMA SampleThrottleStep ==
  ASSUME CounterInv, NEW failed, SampleThrottle(failed)
  PROVE  CounterInv' /\ (succeeded' => TrueRate)
<1> DEFINE r == Read(failed)
           throttled == {u \in Units : \E f \in Fields[sensor] : r[u][f] > previous[u][f]}
           truly == {u \in Units : \E f \in Fields[sensor] : counted[u][f] > 0}
           v == Ratio(Cardinality(throttled), Cardinality(Units))
<1>1. sensor = "throttle" /\ KeepAndReport(r, failed = {}, v) /\ UNCHANGED <<baseline, least>>
  BY DEF SampleThrottle
<1>2. PICK b \in ReadingsOf(sensor) : ReadLast(b)  BY DEF CounterInv
<1>3. ReadsManyFiles(sensor)  BY <1>1 DEF ReadsManyFiles
<1>4. r \in ReadingsOf(sensor) /\ (failed = {} => r = counter)  BY <1>3, ReadGives
<1>5. previous = b  BY <1>1, <1>2, KeptSums DEF ReadLast
<1>6. \A s \in SUBSET Units : IsFiniteSet(s) /\ Cardinality(s) \in Nat
                              /\ Cardinality(s) <= Cardinality(Units)
  BY CounterAssumption, FS_Subset, FS_CardinalityType
<1>7. Truth(counted) = Ratio(Cardinality(truly), Cardinality(Units))
  BY <1>1 DEF Truth
<1>8. throttled \in SUBSET Units /\ truly \in SUBSET Units  OBVIOUS
<1>9. ASSUME has_previous, ~broken, r = counter
      PROVE  throttled \subseteq truly /\ (~went_back => throttled = truly)
  <2>1. UnitsOf(sensor) = Units  BY <1>1 DEF UnitsOf
  <2>2. ASSUME NEW u \in Units, NEW f \in Fields[sensor]
        PROVE  /\ counter[u][f] > b[u][f] => counted[u][f] > 0
               /\ ~went_back => (counted[u][f] > 0 => counter[u][f] > b[u][f])
    <3>1. counter[u][f] \in Nat /\ b[u][f] \in Nat /\ counted[u][f] \in Nat
      BY <1>2, <2>1 DEF CounterInv, CounterTypes, ReadingsOf
    <3>2. /\ counter[u][f] <= b[u][f] + counted[u][f]
          /\ ~went_back => counter[u][f] = b[u][f] + counted[u][f]
      BY <1>2, <1>9, <2>1 DEF ReadLast
    <3> QED  BY <3>1, <3>2
  <2> QED  BY <1>5, <1>9, <2>2
<1> HIDE DEF throttled, truly, r
<1>10. InRange'
  <2>1. Cardinality(throttled) \in Nat /\ Cardinality(Units) \in Nat
        /\ Cardinality(throttled) <= Cardinality(Units)
    BY <1>6, <1>8
  <2>2. 0 <= v[1] /\ v[1] <= v[2] /\ 0 < v[2]  BY <2>1 DEF Ratio, Zero
  <2> HIDE DEF v
  <2> QED  BY <1>1, <2>2 DEF InRange, KeepAndReport, Zero
<1>11. ASSUME succeeded' PROVE TrueRate
  <2> SUFFICES ASSUME has_previous, ~broken
               PROVE  IF went_back THEN v[1] <= Truth(counted)[1] ELSE v = Truth(counted)
    BY <1>1 DEF TrueRate, KeepAndReport
  <2>1. r = counter  BY <1>1, <1>4, <1>11 DEF KeepAndReport
  <2>2. throttled \subseteq truly /\ (~went_back => throttled = truly)  BY <1>9, <2>1
  <2>3. Cardinality(throttled) <= Cardinality(truly)  BY <1>6, <1>8, <2>2, FS_Subset
  <2>4. Cardinality(Units) \in Nat /\ Cardinality(Units) <= Cardinality(Units)
    BY CounterAssumption, FS_CardinalityType
  <2>5. Cardinality(throttled) \in Nat /\ Cardinality(truly) \in Nat  BY <1>6, <1>8
  <2>6. v[1] <= Truth(counted)[1]  BY <1>7, <2>3, <2>4, <2>5, RatioBelow
  <2> QED  BY <1>7, <2>2, <2>6
<1>12. CounterTypes' /\ BrokenOnlyMany' /\ \E c \in ReadingsOf(sensor)' : ReadLast(c)'
  <2> HIDE DEF v
  <2> QED  BY <1>1, <1>3, <1>4, KeepingKeeps
<1>13. BaselineAboveLeast'  BY <1>1 DEF CounterInv, BaselineAboveLeast
<1> QED  BY <1>10, <1>11, <1>12, <1>13 DEF CounterInv

-----------------------------------------------------------------------------
\* A moving average of deltas stays above S times a bound on all of them,
\* however it is rounded.
LEMMA AverageAbove ==
  ASSUME NEW b \in Nat, NEW d \in Nat, NEW m \in Nat, b >= S * m, d >= m
  PROVE  Averaged(b, d) \in Nat /\ Averaged(b, d) >= S * m
<1>1. S \in Nat  BY CounterAssumption
<1>2. S * m <= S * d /\ S * m \in Nat /\ S * d \in Nat  BY <1>1, TimesMonotone
<1> QED  BY <1>2 DEF Averaged

\* A delta no greater than the baseline does not score.
LEMMA QuietScore ==
  ASSUME NEW d \in Nat, NEW b \in Nat, b # 0, S * d <= b
  PROVE  BurstScore(d, b)[1] = 0
<1> DEFINE q == (S * S * d) \div b
<1>1. S \in Nat /\ S # 0  BY CounterAssumption
<1>2. S * d \in Nat /\ S * (S * d) <= S * b /\ S * (S * d) \in Nat /\ S * b \in Nat
  <2>1. S * d \in Nat  BY <1>1
  <2> QED  BY <1>1, <2>1, TimesMonotone
<1>3. S * S * d = S * (S * d)  BY <1>1
<1>4. q \in Nat /\ b * q <= S * (S * d)
  <2> DEFINE n == S * (S * d)
  <2>1. q = n \div b  BY <1>3
  <2>2. n \in Nat  BY <1>2
  <2> HIDE DEF n, q
  <2>3. q \in Int /\ n = b * q + (n % b) /\ n % b \in 0..(b - 1)  BY <2>1, <2>2
  <2>4. q >= 0  BY <2>1, <2>2
  <2>5. b * q \in Nat  BY <2>3, <2>4
  <2> QED  BY <2>2, <2>3, <2>4, <2>5 DEF n
<1> HIDE DEF q
<1>5. q <= S
  <2> SUFFICES ASSUME q >= S + 1 PROVE FALSE  BY <1>1, <1>4
  <2>1. b * (S + 1) <= b * q /\ b * q \in Nat  BY <1>1, <1>4, TimesMonotone
  <2>2. b * (S + 1) = S * b + b  BY <1>1
  <2> QED  BY <1>2, <1>4, <2>1, <2>2
<1>6. (2 * q - 3 * S) \div 5 < 0  BY <1>1, <1>4, <1>5
<1>7. Clamp((2 * q - 3 * S) \div 5, S) = 0  BY <1>6 DEF Clamp
<1> QED  BY <1>7 DEF BurstScore, q

\* A score is never below 0 nor above its scale.
LEMMA ScoreInRange ==
  ASSUME NEW d \in Nat, NEW b \in Nat, b # 0
  PROVE  /\ 0 <= BurstScore(d, b)[1] /\ BurstScore(d, b)[1] <= BurstScore(d, b)[2]
         /\ 0 < BurstScore(d, b)[2]
<1> DEFINE n == (2 * ((S * S * d) \div b) - 3 * S) \div 5
<1>1. S \in Nat  BY CounterAssumption
<1>2. S * S * d \in Nat  BY <1>1
<1>3. (S * S * d) \div b \in Int  BY <1>2
<1>4. n \in Int  BY <1>1, <1>3
<1> HIDE DEF n
<1>5. 0 <= Clamp(n, S) /\ Clamp(n, S) <= S /\ 0 < S
  BY <1>1, <1>4, CounterAssumption DEF Clamp
<1> QED  BY <1>5 DEF BurstScore, n

\* SoftirqsSensor: the baseline takes part in every sample from the second on.
LEMMA SampleSoftirqsStep ==
  ASSUME CounterInv, SampleSoftirqs
  PROVE  /\ CounterInv'
         /\ ~went_back /\ has_previous /\ baseline # 0 /\ counted["machine"].total <= least
               => value'[1] = 0
<1> DEFINE d == Delta(Sum(counter, "total"), previous.total)
           b == IF baseline = 0 THEN S * d ELSE Averaged(baseline, d)
           v == IF baseline = 0 \/ b = 0 THEN Zero ELSE BurstScore(d, b)
<1>1. /\ sensor = "softirqs" /\ KeepAndReport(counter, TRUE, v)
      /\ baseline' = IF has_previous THEN b ELSE 0
      /\ least' = IF ~has_previous THEN 0 ELSE IF baseline = 0 THEN d ELSE Min({least, d})
  BY DEF SampleSoftirqs
<1>2. PICK p \in ReadingsOf(sensor) : ReadLast(p)  BY DEF CounterInv
<1>3. /\ sensor \in Sensors /\ baseline \in Nat /\ least \in Nat /\ baseline >= S * least
      /\ counter \in ReadingsOf(sensor) /\ counted \in ReadingsOf(sensor)
  BY DEF CounterInv, CounterTypes, BaselineAboveLeast
<1>4. "total" \in Fields[sensor]  BY <1>1, CounterFields
<1>5. d = Delta(Sum(counter, "total"), Sum(p, "total"))
  <2>1. previous = Kept("softirqs", p)  BY <1>1, <1>2 DEF ReadLast
  <2> QED  BY <1>1, <1>4, <2>1, KeptSums
<1>6. d \in Nat
  <2>1. Sum(counter, "total") \in Nat /\ Sum(p, "total") \in Nat
    BY <1>2, <1>3, <1>4, SumOfUnits
  <2> QED  BY <1>5, <2>1, DeltaBounds
<1>7. S \in Nat /\ S # 0  BY CounterAssumption
<1> HIDE DEF d
<1>8. baseline # 0 => /\ Min({least, d}) \in Nat
                      /\ b \in Nat /\ b >= S * Min({least, d})
  <2> SUFFICES ASSUME baseline # 0
               PROVE  /\ Min({least, d}) \in Nat
                      /\ b \in Nat /\ b >= S * Min({least, d})
    OBVIOUS
  <2>1. Min({least, d}) \in Nat /\ Min({least, d}) <= least /\ Min({least, d}) <= d
    BY <1>3, <1>6, MinOfTwo
  <2> DEFINE m == Min({least, d})
  <2> HIDE DEF m
  <2>2. m \in Nat /\ m <= least /\ m <= d  BY <2>1 DEF m
  <2>3. S * m <= S * least /\ S * m \in Nat /\ S * least \in Nat
    BY <1>3, <1>7, <2>2, TimesMonotone
  <2>4. baseline >= S * m /\ d >= m  BY <1>3, <1>6, <2>2, <2>3
  <2>5. b \in Nat /\ b >= S * m  BY <1>3, <1>6, <2>2, <2>4, AverageAbove
  <2> QED  BY <2>1, <2>5 DEF m
<1>9. b \in Nat
  <2>1. S * d \in Nat  BY <1>6, <1>7
  <2> QED  BY <1>8, <2>1
<1>10. BaselineAboveLeast' /\ least' \in Nat /\ baseline' \in Nat
  <2>1. CASE ~has_previous
    <3>1. baseline' = 0 /\ least' = 0  BY <1>1, <2>1
    <3> QED  BY <1>7, <3>1 DEF BaselineAboveLeast
  <2>2. CASE has_previous /\ baseline = 0
    <3>1. baseline' = S * d /\ least' = d /\ S * d \in Nat  BY <1>1, <1>6, <1>7, <2>2
    <3> QED  BY <1>6, <3>1 DEF BaselineAboveLeast
  <2>3. CASE has_previous /\ baseline # 0
    <3>1. baseline' = b /\ least' = Min({least, d})  BY <1>1, <2>3
    <3> QED  BY <1>8, <2>3, <3>1 DEF BaselineAboveLeast
  <2> QED  BY <2>1, <2>2, <2>3
<1>11. value' = IF has_previous THEN v ELSE Zero  BY <1>1 DEF KeepAndReport
<1> HIDE DEF b
<1>12. InRange'
  <2>1. 0 <= v[1] /\ v[1] <= v[2] /\ 0 < v[2]  BY <1>6, <1>9, ScoreInRange DEF Zero
  <2> HIDE DEF v
  <2> QED  BY <1>11, <2>1 DEF InRange, Zero
<1>13. ASSUME ~went_back, has_previous, baseline # 0, counted["machine"].total <= least
       PROVE  value'[1] = 0
  <2>1. d = counted["machine"].total
    <3>1. ~broken  BY <1>1 DEF CounterInv, BrokenOnlyMany, ReadsManyFiles
    <3>2. d = Sum(counted, "total")  BY <1>2, <1>4, <1>5, <1>13, <3>1, DeltaOfCounted
    <3>3. UnitsOf(sensor) = {"machine"}  BY <1>1 DEF UnitsOf, Whole
    <3> DEFINE w == [u \in {"machine"} |-> counted[u]["total"]]
    <3>4. w \in [{"machine"} -> Nat]  BY <1>3, <1>4, <3>3 DEF ReadingsOf
    <3>5. Sum(counted, "total") = SumFunction(w)  BY <1>3, <3>3 DEF Sum, ReadingsOf
    <3>6. w["machine"] = counted["machine"]["total"]  OBVIOUS
    <3> HIDE DEF w
    <3>7. SumFunction(w) = w["machine"]  BY <3>4, SumOfOne
    <3> QED  BY <3>2, <3>5, <3>6, <3>7
  <2>2. S * d <= b
    <3>1. S * d <= S * least /\ S * d \in Nat /\ S * least \in Nat
      BY <1>3, <1>6, <1>7, <1>13, <2>1, TimesMonotone
    <3>2. baseline >= S * d /\ d >= d  BY <1>3, <1>6, <3>1
    <3> QED  BY <1>3, <1>6, <1>13, <3>2, AverageAbove DEF b
  <2>3. b # 0 => BurstScore(d, b)[1] = 0  BY <1>6, <1>9, <2>2, QuietScore
  <2> QED  BY <1>11, <1>13, <2>3 DEF Zero
<1> HIDE DEF v
<1>14. CounterTypes' /\ BrokenOnlyMany' /\ \E c \in ReadingsOf(sensor)' : ReadLast(c)'
  BY <1>1, <1>3, <1>10, KeepingKeeps
<1> QED  BY <1>10, <1>12, <1>13, <1>14 DEF CounterInv

-----------------------------------------------------------------------------
\* One case per step of the kernel and per sensor.
LEMMA CounterStep == CounterInv /\ CounterNext => CounterInv'
  BY KernelKeeps, ReadFailsKeeps, SampleCpuStep, SampleInterruptsStep, SampleSoftirqsStep,
     SampleDiskStep, SampleNetworkStep, SampleThrottleStep
  DEF CounterNext, Sample

\* The invariant of the counter sensors holds throughout.
LEMMA CounterInductive == CounterSpec => []CounterInv
<1>1. ASSUME CounterInv, UNCHANGED counterVars PROVE CounterInv'
  BY <1>1 DEF CounterInv, CounterTypes, BrokenOnlyMany, BaselineAboveLeast, ReadLast,
              InRange, counterVars
<1>2. CounterInv /\ [CounterNext]_counterVars => CounterInv'  BY <1>1, CounterStep
<1> QED  BY CounterStart, <1>2, PTL DEF CounterSpec

\* A step that succeeds and leaves the counters alone is a sample: the kernel
\* changes a counter whenever it moves one.
LEMMA MeasuredIsSample ==
  ASSUME CounterInv, CounterNext, succeeded', counter' = counter
  PROVE  Sample
<1>1. counter \in [UnitsOf(sensor) -> [Fields[sensor] -> Nat]]
  BY DEF CounterInv, CounterTypes, ReadingsOf
<1>2. ASSUME NEW u \in UnitsOf(sensor), NEW f \in Fields[sensor], Count(u, f) PROVE FALSE
  <2>1. counter'[u][f] = counter[u][f] + 1 /\ counter[u][f] \in Nat  BY <1>1, <1>2 DEF Count
  <2> QED  BY <2>1
<1>3. ASSUME NEW u \in UnitsOf(sensor), NEW f \in Fields[sensor], NEW n \in 0..MaxCounter,
             Rewind(u, f, n)
      PROVE  FALSE
  <2>1. counter'[u][f] = n /\ n < counter[u][f] /\ counter[u][f] \in Nat
    BY <1>1, <1>3 DEF Rewind
  <2> QED  BY <2>1
<1>4. ~ReadFails  BY DEF ReadFails
<1> QED  BY <1>2, <1>3, <1>4 DEF CounterNext

\* A behaviour of all sensors is one of the counter sensors and one of the
\* interval statistics.
LEMMA PartSpecs == Spec => CounterSpec /\ JitterSpec
<1>1. Init => CounterInit /\ JitterInit  BY DEF Init
<1>2. [Next]_vars => [CounterNext]_counterVars /\ [JitterNext]_jitterVars
  BY DEF Next, vars
<1> QED  BY <1>1, <1>2, PTL DEF Spec, CounterSpec, JitterSpec

\* For any units, any counts and any failed reads, the shares written stay
\* within 0..1.
THEOREM RangeSafety == Spec => []InRange
  BY CounterInductive, PartSpecs, PTL DEF CounterInv

\* For any units and any counts, a sample that succeeds reports what was counted
\* since the last that did, and never more after a counter went back.
THEOREM RateSafety == Spec => RatesAreTrue
<1>1. ASSUME CounterInv, [CounterNext]_counterVars
      PROVE  [MeasuredStep => IF went_back THEN value'[1] <= Truth(counted)[1]
                              ELSE value' = Truth(counted)]_counterVars
  <2> SUFFICES ASSUME CounterNext, MeasuredStep
               PROVE  IF went_back THEN value'[1] <= Truth(counted)[1]
                                   ELSE value' = Truth(counted)
    BY <1>1
  <2>1. /\ Sample /\ succeeded' /\ has_previous /\ ~broken /\ ~SampleSoftirqs
    BY <1>1, MeasuredIsSample DEF MeasuredStep, SampleSoftirqs
  <2>2. TrueRate
    BY <1>1, <2>1, SampleCpuStep, SampleInterruptsStep, SampleDiskStep, SampleNetworkStep,
       SampleThrottleStep DEF Sample
  <2> QED  BY <2>1, <2>2 DEF TrueRate
<1> QED  BY CounterInductive, PartSpecs, <1>1, PTL DEF CounterSpec, RatesAreTrue

\* For any scale and any counts, a sample that saw no more softirqs than the
\* least in the baseline scores 0, rounding included.
THEOREM QuietSafety == Spec => QuietUnlessRising
<1>1. ASSUME CounterInv, [CounterNext]_counterVars
      PROVE  [sensor = "softirqs" /\ succeeded' /\ counter' = counter /\ ~went_back
                /\ has_previous /\ baseline # 0 /\ counted["machine"].total <= least
              => value'[1] = 0]_counterVars
  <2> SUFFICES ASSUME CounterNext, sensor = "softirqs", succeeded', counter' = counter,
                      ~went_back, has_previous, baseline # 0,
                      counted["machine"].total <= least
               PROVE  value'[1] = 0
    BY <1>1
  <2>1. Sample  BY <1>1, MeasuredIsSample
  <2>2. SampleSoftirqs
    BY <2>1 DEF Sample, SampleCpu, SampleInterrupts, SampleDisk, SampleNetwork,
                SampleThrottle
  <2> QED  BY <1>1, <2>2, SampleSoftirqsStep
<1> QED  BY CounterInductive, PartSpecs, <1>1, PTL DEF CounterSpec, QuietUnlessRising
=============================================================================

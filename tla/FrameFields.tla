----------------------------- MODULE FrameFields -----------------------------
(***************************************************************************)
(* The sensors that write the frame, in one model: gauges, counters, the   *)
(* two GPU sensors and the loop-interval statistics.  Only tegrastats and  *)
(* the GPU sensor share fields, so a behaviour follows one gauge, one      *)
(* counter sensor, those two, or the interval statistics.                  *)
(***************************************************************************)
EXTENDS GaugeSensors, CounterSensors, GpuSensors, LatencyJitter

VARIABLE followed       \* "gauge", "counter", "gpu" or "jitter"

vars == <<followed, gaugeVars, counterVars, gpuVars, jitterVars>>

\* A part that is not followed rests in a single one of its initial states.
GaugeRests == gauge = "psi" /\ owns_files
CounterRests == sensor = "softirqs" /\ counter = Nothing("softirqs")
GpuRests == switched_on = {} /\ ~tegra_enabled

Init ==
    /\ followed \in {"gauge", "counter", "gpu", "jitter"}
    /\ GaugeInit /\ CounterInit /\ GpuInit /\ JitterInit
    /\ followed # "gauge" => GaugeRests
    /\ followed # "counter" => CounterRests
    /\ followed # "gpu" => GpuRests

Next ==
    \/ /\ followed = "gauge" /\ GaugeNext
       /\ UNCHANGED <<followed, counterVars, gpuVars, jitterVars>>
    \/ /\ followed = "counter" /\ CounterNext
       /\ UNCHANGED <<followed, gaugeVars, gpuVars, jitterVars>>
    \/ /\ followed = "gpu" /\ GpuNext
       /\ UNCHANGED <<followed, gaugeVars, counterVars, jitterVars>>
    \/ /\ followed = "jitter" /\ JitterNext
       /\ UNCHANGED <<followed, gaugeVars, counterVars, gpuVars>>

Spec == Init /\ [][Next]_vars

\* Whatever a sensor took it gives back: the NVML library wherever its start
\* failed, borrowed files as they were, its own files at the end.  The one
\* exception is stated exactly: the files a thermal discovery had opened when it
\* failed half-way are never closed.
ResourcesReturned == HandlesReturned /\ NvmlBalanced
=============================================================================

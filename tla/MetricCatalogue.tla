-------------------------- MODULE MetricCatalogue --------------------------
(***************************************************************************)
(* Which metric belongs to which sensor, as three pieces of code that know *)
(* nothing of each other have it: the agent's registry of sensors, the     *)
(* agent's list of the metrics a configuration enables, and the list of    *)
(* frame fields the Redis sink appends to its TS.MADD.                     *)
(***************************************************************************)
EXTENDS Naturals

\* the registry: each sensor and every how many ticks it is sampled
Registry == [psi |-> 1, cpu |-> 2, interrupts |-> 3, softirqs |-> 4, memory |-> 5,
             disk |-> 6, network |-> 7, tegrastats |-> 8, thermal |-> 9,
             cpu_throttle |-> 10, cpufreq |-> 11, gpu |-> 12]

SensorNames == DOMAIN Registry

\* the fields of the frame each sensor writes
FieldsWritten ==
    [psi |-> {"psi", "psi_memory", "psi_io"}, cpu |-> {"cpu"}, interrupts |-> {"irq"},
     softirqs |-> {"softirqs"}, memory |-> {"memory"}, disk |-> {"disk"},
     network |-> {"network"}, thermal |-> {"thermal"}, cpufreq |-> {"cpufreq"},
     cpu_throttle |-> {"cpu_throttle_ratio"},
     tegrastats |-> {"tegra_gpu_util", "tegra_emc_util", "tegra_gpu_temp",
                     "tegra_gpu_power_mw", "gpu_util", "emc_util", "gpu_temp",
                     "gpu_power_ratio"},
     gpu |-> {"nvml_gpu_util", "gpu_mem_util", "nvml_gpu_temp", "nvml_gpu_power_ratio",
              "gpu_util", "emc_util", "gpu_mem_free", "gpu_temp", "gpu_clock_ratio",
              "gpu_power_ratio", "gpu_throttle"}]

Derived == {"scheduler_pressure", "memory_pressure", "io_pressure", "thermal_pressure",
            "power_pressure", "latency_jitter"}
Risk == {"realtime_risk", "saturation_risk", "state"}
Health == {"heartbeat", "loop_jitter", "compute_time", "redis_latency", "redis_errors",
           "sensor_failures", "missed_cycles"}

\* mutant: one metric of the list is forgotten
EnabledRedisMetricsShort(enabled, health) ==
    Derived \union Risk
    \union (IF "psi" \in enabled THEN {"psi", "psi_memory"} ELSE {})
    \union (IF "cpu" \in enabled THEN {"cpu"} ELSE {})

\* enabled_redis_metrics(), for the sensors in enabled
EnabledRedisMetrics(enabled, health) ==
    Derived \union Risk
    \union (IF "psi" \in enabled THEN {"psi", "psi_memory", "psi_io"} ELSE {})
    \union (IF "cpu" \in enabled THEN {"cpu"} ELSE {})
    \union (IF "interrupts" \in enabled THEN {"irq"} ELSE {})
    \union (IF "softirqs" \in enabled THEN {"softirqs"} ELSE {})
    \union (IF "memory" \in enabled THEN {"memory"} ELSE {})
    \union (IF "thermal" \in enabled THEN {"thermal"} ELSE {})
    \union (IF "cpufreq" \in enabled THEN {"cpufreq"} ELSE {})
    \union (IF "cpu_throttle" \in enabled THEN {"cpu_throttle_ratio"} ELSE {})
    \union (IF "disk" \in enabled THEN {"disk"} ELSE {})
    \union (IF "network" \in enabled THEN {"network"} ELSE {})
    \union (IF "gpu" \in enabled
              THEN {"nvml_gpu_util", "gpu_mem_util", "nvml_gpu_temp", "nvml_gpu_power_ratio"}
              ELSE {})
    \union (IF "tegrastats" \in enabled
              THEN {"tegra_gpu_util", "tegra_gpu_temp", "tegra_gpu_power_mw", "tegra_emc_util"}
              ELSE {})
    \union (IF health THEN Health ELSE {})

\* the frame fields publish_impl() knows
Appended ==
    {"psi", "psi_memory", "psi_io", "cpu", "irq", "softirqs", "memory", "thermal", "cpufreq",
     "cpu_throttle_ratio", "disk", "network", "nvml_gpu_util", "gpu_mem_util",
     "tegra_emc_util", "nvml_gpu_temp", "nvml_gpu_power_ratio", "tegra_gpu_util",
     "tegra_gpu_temp", "tegra_gpu_power_mw"} \union Derived \union Risk

\* what a sink that was given the metrics m appends at every publish
AppendMetrics(m, health) == m \intersect (Appended \union IF health THEN Health ELSE {})

-----------------------------------------------------------------------------
\* Seven GPU fields get no key: they go no further than the frame.
FrameOnly == {"gpu_util", "emc_util", "gpu_mem_free", "gpu_temp", "gpu_clock_ratio",
              "gpu_power_ratio", "gpu_throttle"}

\* what of the readings of these sensors has a key
Readings(sensors) == (UNION {FieldsWritten[s] : s \in sensors}) \ FrameOnly

\* the metric suffixes the repository's README lists
Documented ==
    {"psi", "psi_memory", "psi_io", "cpu", "irq", "softirqs", "memory", "thermal", "cpufreq",
     "cpu_throttle_ratio", "disk", "network", "gpu_util", "gpu_mem_util", "emc_util",
     "gpu_mem_free", "gpu_temp", "gpu_clock_ratio", "gpu_power_ratio", "gpu_throttle"}
    \union Derived \union Risk \union Health
============================================================================

--------------------------- MODULE CounterSensors ---------------------------
(***************************************************************************)
(* The six sensors that report how kernel counters moved since the sample  *)
(* before: CpuSensor, InterruptsSensor, SoftirqsSensor, DiskSensor,        *)
(* NetworkSensor and CpuThrottleSensor.  Each keeps what it read last and  *)
(* reports a ratio of differences.  They share nothing, so a behaviour     *)
(* follows one of them, chosen in the initial state.                       *)
(*                                                                         *)
(* Between two samples the kernel counts, a counter may go back (a device  *)
(* is removed, a driver restarts, iowait is corrected), and any read may   *)
(* fail.  Four sensors read one file and give up a sample that fails; the  *)
(* network and throttle sensors read one file per counter, take a failed   *)
(* one as 0 and go on.                                                     *)
(*                                                                         *)
(* Reported floats are kept as fractions <<numerator, denominator>>; the   *)
(* softirqs baseline and score are integers over S, the baseline rounded   *)
(* up: as in the code, it nears 0 in quiet times and never gets there.     *)
(***************************************************************************)
EXTENDS Integers, FiniteSets, FiniteSetsExt, Functions

CONSTANTS
    Units,      \* disks, network interfaces or cores
    MaxCounter, \* bound on every counter
    MaxSince,   \* bound on what is counted between two complete samples
    S           \* the softirqs score 1.0

ASSUME CounterAssumption == /\ IsFiniteSet(Units)
                            /\ MaxCounter \in Nat /\ MaxSince \in Nat
                            /\ S \in Nat \ {0}

VARIABLES
    sensor,         \* the sensor this behaviour follows
    counter,        \* the kernel's counters, per unit and field
    previous,       \* prev_total_, prev_idle_, prev_core_throttle_count, ...
    has_previous,   \* has_prev_, has_prev_counts
    baseline,       \* SoftirqsSensor::baseline_delta_, over S
    value,          \* the field of the frame this sensor writes
    succeeded,      \* what the last sample() returned
    counted,        \* history: what the kernel counted since previous was read
    went_back,      \* history: a counter went back since previous was read
    broken,         \* history: previous holds the zeros of failed reads
    least           \* history: the least softirqs delta in the baseline

counterVars == <<sensor, counter, previous, has_previous, baseline, value, succeeded,
                 counted, went_back, broken, least>>

-----------------------------------------------------------------------------
(***************************************************************************)
(* What each sensor reads and what it keeps.                               *)
(***************************************************************************)
Fields == [cpu        |-> {"idle", "busy"},
           interrupts |-> {"intr", "time"},
           softirqs   |-> {"total"},
           disk       |-> {"completed", "weighted"},
           network    |-> {"packets", "drops"},
           throttle   |-> {"core", "package"}]

Sensors == DOMAIN Fields
Whole == {"machine"}                    \* the unit of machine-wide counters
UnitsOf(s) == IF s \in {"disk", "network", "throttle"} THEN Units ELSE Whole

\* the sensors that read a file per counter and go on after a failed read
ReadsManyFiles(s) == s \in {"network", "throttle"}

Nothing(s) == [u \in UnitsOf(s) |-> [f \in Fields[s] |-> 0]]

Sum(r, f) == SumFunction([u \in DOMAIN r |-> r[u][f]])

\* what a sensor remembers of the counters r
Kept(s, r) ==
    CASE s = "cpu"      -> [total |-> Sum(r, "idle") + Sum(r, "busy"),
                            idle  |-> Sum(r, "idle")]
      [] s = "throttle" -> r
      [] OTHER          -> [f \in Fields[s] |-> Sum(r, f)]

\* mutant: the unsigned difference wraps around
DeltaWraps(now, before) == (now - before) % 1000

\* a counter that went back counts as one that stood still
Delta(now, before) == IF now >= before THEN now - before ELSE 0

\* a ratio is 0 when there is nothing to divide by
Zero == <<0, 1>>
Ratio(n, d) == IF d = 0 THEN Zero ELSE <<n, d>>

Clamp(n, high) == IF n < 0 THEN 0 ELSE IF n > high THEN high ELSE n

-----------------------------------------------------------------------------
CounterInit ==
    /\ sensor \in Sensors
    /\ counter \in [UnitsOf(sensor) -> [Fields[sensor] -> 0..1]]
    /\ previous = Kept(sensor, Nothing(sensor))
    /\ has_previous = FALSE
    /\ baseline = 0
    /\ value = Zero
    /\ succeeded = TRUE
    /\ counted = Nothing(sensor)
    /\ went_back = FALSE
    /\ broken = FALSE
    /\ least = 0

(***************************************************************************)
(* The kernel.                                                             *)
(***************************************************************************)
Count(u, f) ==
    /\ counter[u][f] < MaxCounter
    /\ SumFunction([g \in Fields[sensor] |-> Sum(counted, g)]) < MaxSince
    /\ counter' = [counter EXCEPT ![u][f] = @ + 1]
    /\ counted' = [counted EXCEPT ![u][f] = @ + 1]
    /\ UNCHANGED <<sensor, previous, has_previous, baseline, value, succeeded, went_back,
                   broken, least>>

\* any counter but the monotonic clock
Rewind(u, f, n) ==
    /\ f # "time" /\ n < counter[u][f]
    /\ counter' = [counter EXCEPT ![u][f] = n]
    /\ went_back' = TRUE
    /\ UNCHANGED <<sensor, previous, has_previous, baseline, value, succeeded, counted,
                   broken, least>>

(***************************************************************************)
(* sample().                                                               *)
(***************************************************************************)
\* mutant: a failed read is remembered as a reading of zeros
ForgetsPrevious == /\ previous' = Kept(sensor, Nothing(sensor))
                   /\ UNCHANGED <<counted, went_back, broken>>

\* A sensor that reads a single file leaves its state as it is when the file
\* cannot be opened, rewound, read or parsed.
KeepsPrevious == UNCHANGED <<previous, counted, went_back, broken>>

ReadFails ==
    /\ ~ReadsManyFiles(sensor)
    /\ value' = Zero
    /\ succeeded' = FALSE
    /\ KeepsPrevious
    /\ UNCHANGED <<sensor, counter, has_previous, baseline, least>>

\* Keep the reading r, all of whose files were read if complete, and report v;
\* the first reading is only kept.
KeepAndReport(r, complete, v) ==
    /\ previous' = Kept(sensor, r)
    /\ has_previous' = TRUE
    /\ value' = IF has_previous THEN v ELSE Zero
    /\ succeeded' = complete
    /\ counted' = Nothing(sensor)
    /\ went_back' = FALSE
    /\ broken' = ~complete
    /\ UNCHANGED <<sensor, counter>>

\* mutant: idle time that grew more than the total is not caught
BusyUnclamped(total_delta, idle_delta) == (total_delta - idle_delta) % 1000

Busy(total_delta, idle_delta) == Delta(total_delta, idle_delta)

SampleCpu ==
    /\ sensor = "cpu"
    /\ LET now         == Kept(sensor, counter)
           total_delta == Delta(now.total, previous.total)
           idle_delta  == Delta(now.idle, previous.idle)
       IN  KeepAndReport(counter, TRUE, Ratio(Busy(total_delta, idle_delta), total_delta))
    /\ UNCHANGED <<baseline, least>>

SampleInterrupts ==
    /\ sensor = "interrupts"
    /\ LET now == Kept(sensor, counter)
       IN  KeepAndReport(counter, TRUE,
                         Ratio(Delta(now.intr, previous.intr), now.time - previous.time))
    /\ UNCHANGED <<baseline, least>>

\* mutant: the score is limited only from above
BurstScoreOpen(d, b) == <<Min({S, (2 * ((S * S * d) \div b) - 3 * S) \div 5}), S>>

\* (burst_ratio - 1.5) / 2.5 within 0..1, for d softirqs against a baseline b
BurstScore(d, b) == <<Clamp((2 * ((S * S * d) \div b) - 3 * S) \div 5, S), S>>

\* the moving average 0.8 b + 0.2 d
Averaged(b, d) == (4 * b + S * d + 4) \div 5

SampleSoftirqs ==
    /\ sensor = "softirqs"
    /\ LET d == Delta(Sum(counter, "total"), previous.total)
           b == IF baseline = 0 THEN S * d ELSE Averaged(baseline, d)
       IN  /\ KeepAndReport(counter, TRUE,
                            IF baseline = 0 \/ b = 0 THEN Zero ELSE BurstScore(d, b))
           /\ baseline' = IF has_previous THEN b ELSE 0
           /\ least' = IF ~has_previous THEN 0
                       ELSE IF baseline = 0 THEN d ELSE Min({least, d})

SampleDisk ==
    /\ sensor = "disk"
    /\ LET now == Kept(sensor, counter)
       IN  KeepAndReport(counter, TRUE,
                         Ratio(Delta(now.weighted, previous.weighted),
                               Delta(now.completed, previous.completed)))
    /\ UNCHANGED <<baseline, least>>

\* what read_u64_file() returns for each counter when those in failed fail
Read(failed) ==
    [u \in Units |-> [f \in Fields[sensor] |->
        IF <<u, f>> \in failed THEN 0 ELSE counter[u][f]]]

SampleNetwork(failed) ==
    /\ sensor = "network"
    /\ LET r   == Read(failed)
           now == Kept(sensor, r)
       IN  KeepAndReport(r, failed = {},
                         Ratio(Delta(now.drops, previous.drops),
                               Delta(now.packets, previous.packets)))
    /\ UNCHANGED <<baseline, least>>

SampleThrottle(failed) ==
    /\ sensor = "throttle"
    /\ LET r         == Read(failed)
           throttled == {u \in Units : \E f \in Fields[sensor] : r[u][f] > previous[u][f]}
       IN  KeepAndReport(r, failed = {}, Ratio(Cardinality(throttled), Cardinality(Units)))
    /\ UNCHANGED <<baseline, least>>

-----------------------------------------------------------------------------
Sample ==
    \/ SampleCpu \/ SampleInterrupts \/ SampleSoftirqs \/ SampleDisk
    \/ \E failed \in SUBSET (Units \X Fields[sensor]) :
           SampleNetwork(failed) \/ SampleThrottle(failed)

CounterNext ==
    \/ \E u \in UnitsOf(sensor), f \in Fields[sensor] :
           Count(u, f) \/ \E n \in 0..MaxCounter : Rewind(u, f, n)
    \/ ReadFails
    \/ Sample

CounterSpec == CounterInit /\ [][CounterNext]_counterVars

-----------------------------------------------------------------------------
(***************************************************************************)
(* The readings that are a share of a whole stay within 0..1, whatever     *)
(* counters do and whichever reads fail: cpu times that go back one by one *)
(* (CpuSensor's two guarded subtractions), a burst of any size or a sample *)
(* far below the baseline, cores whose counters cannot be read.            *)
(***************************************************************************)
InRange ==
    sensor \in {"cpu", "softirqs", "throttle"} =>
        0 <= value[1] /\ value[1] <= value[2] /\ 0 < value[2]

\* the share of a sensor's counts c that its reading stands for
Truth(c) ==
    CASE sensor = "cpu"        -> Ratio(Sum(c, "busy"), Sum(c, "busy") + Sum(c, "idle"))
      [] sensor = "interrupts" -> Ratio(Sum(c, "intr"), Sum(c, "time"))
      [] sensor = "disk"       -> Ratio(Sum(c, "weighted"), Sum(c, "completed"))
      [] sensor = "network"    -> Ratio(Sum(c, "drops"), Sum(c, "packets"))
      [] sensor = "throttle"   ->
            LET throttled == {u \in Units : \E f \in Fields[sensor] : c[u][f] > 0}
            IN  Ratio(Cardinality(throttled), Cardinality(Units))

\* a step of sample() on a baseline that failed reads did not spoil
MeasuredStep == /\ has_previous /\ ~broken /\ succeeded'
                /\ counter' = counter
                /\ sensor # "softirqs"

(***************************************************************************)
(* A sample that succeeds reports exactly what the kernel counted since    *)
(* the last one that did, however many samples failed in between: no count *)
(* is lost to a failed sample, none is reported twice, and numerator and   *)
(* denominator cover the same time.  If a counter went back, whichever it  *)
(* was, the numerator is at most what was counted: none is made up.        *)
(***************************************************************************)
RatesAreTrue ==
    [][MeasuredStep => IF went_back THEN value'[1] <= Truth(counted)[1]
                       ELSE value' = Truth(counted)]_counterVars

(***************************************************************************)
(* The softirqs burst score compares a sample with the past: a sample that *)
(* saw no more softirqs than any sample the baseline was built from scores *)
(* 0, also after failed samples.                                           *)
(***************************************************************************)
QuietUnlessRising ==
    [][sensor = "softirqs" /\ succeeded' /\ counter' = counter /\ ~went_back
       /\ has_previous /\ baseline # 0 /\ counted["machine"].total <= least
       => value'[1] = 0]_counterVars

=============================================================================

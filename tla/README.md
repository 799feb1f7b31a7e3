# A TLA+ model of hw-agent

hw-agent is a single-threaded C++ daemon. Every tick (100 ms by default) it
samples hardware sensors, derives pressures and risks from them, and writes all
metrics to RedisTimeSeries. An MCP server and a terminal UI read the metrics
back from Redis. This directory holds TLA+ models of its parts, TLC
configurations that check them on small instances, and TLAPS proofs that extend
the main results to every value of the constants. `PROJECT.json` lists the
components, the runs, the lines of source each definition models, the hazards
the properties are aimed at, and the theorems.

To check a module: `tlc -config X.cfg M`; to check proofs: `tlapm M.tla`.

## 1. Inventory

| Part | State it keeps | Operations | Where it is hard |
| --- | --- | --- | --- |
| Agent loop (`core/agent.cpp`, `main.cpp`, `core/sampler.cpp`) | tick count, next wakeup, frame, `redis_was_ok_`, shutdown flag | construct, run one tick (sample, derive, publish, health, sleep), signal handler | overruns at any point, a signal at any point, what is reset or measured before and after publishing |
| Redis sink (`sinks/redis_ts.cpp`) | connection, `schema_ready_`, `timeseries_available_` | `check_connectivity`, `publish` = connect, AUTH, SELECT, TS.CREATE loop, TS.MADD, one retry | Redis crashes, restarts empty, refuses or hangs between any two commands; a stale connection; a lost reply |
| Pressures, risks, system state (`derived/`, `risk/`) | moving averages, interrupt baseline, state | one computation per tick | feedback between scores, hysteresis against smoothing, settling |
| Latency jitter (`derived/latency_jitter.cpp`) | ring buffer of intervals | one sample per tick | part-filled ring, wrap-around of buffer and clock |
| Tegrastats sensor (`sensors/tegrastats.cpp`) | child process, pipe, line buffer | launch, sample, disable (two ways), destroy | a concurrent child: splits lines, exits, ignores SIGTERM; pid reuse; zombies |
| Counter sensors (`cpu`, `interrupts`, `softirqs`, `disk`, `network`, `power`) | previous counters, softirqs baseline | sample | failed reads between good ones, counters that go back |
| Gauge sensors (`psi`, `memory`, `thermal`, `cpufreq`) | open files, a reclaim baseline, an averaged frequency | construct, discover, sample, destroy | files that are missing, borrowed, fail one by one or appear later |
| GPU sensors (`gpu/`) | the NVML library and device, known limits | initialise, fall back, collect, destroy | initialisation that fails half-way; sharing frame fields with tegrastats on another schedule |
| Configuration loader (`core/config.cpp`) | section stack while reading, settings so far | load, reject | indentation deeper than the stack, numbers that are none, settings repeated in another form |
| Metric catalogue (`core/agent.cpp`, `sinks/redis_ts.cpp`) | lists of names | derived from the configuration at start | three lists kept apart must agree for every set of switches |
| MCP server (`tools/hw-agent-mcp`) | none between lines; a connection per call | one JSON-RPC line at a time; two tools that query Redis | every kind of failure in the middle of a call, ids and notifications |
| Terminal UI (`tools/hw-agent-tui`), schema script, docs | lists of metric keys | read and draw | agreement on the metric keys |

Interactions: the agent loop calls sensors, computations and the sink in order,
on one thread; there are no callbacks. The only concurrency is with the outside:
the clock, the signal, Redis, the kernel's counters and the tegrastats child.
All data passes through one frame that keeps the values of sensors that did not
run in this tick. The MCP server and the UI share nothing with the agent but
the keys in Redis.

What makes the parts correct, and is checked: the loop loses no tick
and stops when told to; the sink never reports a sample stored that was not, and
recovers; scores stay in range and the state neither lags nor flaps; no child
process is left behind; rates are exact or conservative; a field of the frame
shows the sample it is named after and no failure hides; files and libraries are
given back (with one exception, section 3); a configuration means what its
indentation says, and the keys that are created are written, from what is sampled;
every request is answered once.

## 2. Modules

`MetricSink` is the contract between the loop and the sink. `RedisSink` is shown
to implement it; `AgentLoop` is built on it (its sink variables take MetricSink
steps), so the two large modules are composed without multiplying their states.
`SlidingWindow` is likewise the abstract form of the ring in `LatencyJitter`,
whose score enters `RiskModel` as one of its signals. `FrameFields` puts the
gauges, the counter sensors, the GPU sensors and the jitter ring into one model of
everything that writes the frame except tegrastats' child: that, as `TegraStats`
has it, appears there as a sensor that may be disabled for good.
`AgentConfig` ends where `AgentLoop` begins: with an agent whose tick interval and
set of sampled sensors are valid.

| Module | Models | State and actions |
| --- | --- | --- |
| `MetricSink` | what `publish()` promises | mode (trying, established, unavailable), deliveries of a call, its outcome |
| `RedisSink` | `RedisTsSink` and Redis | `pc` is the blocking command the call is in; one action per command and outcome (`Connect`, `Authenticate`, `SelectDb`, `CreateSeries`, `Madd`, ...). Server actions: `Crash`, `Restart`, `ChangeService` (up, refusing, hung), `DeleteKey`, `DropConnection`; `CalmDown` ends the faults |
| `AgentLoop`, `MCAgentLoop` | `main()` and `Agent` | `phase` follows `run_for_ticks`: `RunForTicks`, `CollectSensors`, `Compute`, `PublishSinks`, `SinkPublishes`, `PublishReturned`, `EndCycle`, `WakeUp`; `Elapse` lets time pass between any two steps, `Signal` arrives anywhere |
| `LatencyJitter` | `LatencyJitter::sample` up to the deviation | one action `SampleJitter`, timestamps modulo `Wrap` |
| `RiskModel`, `MCRiskModel` | `compute_derived`, `compute_risk` | one action `Tick` that computes all six pressures, both risks and the state in the code's order |
| `TegraStats`, `MCTegraStats` | `TegraStatsSensor` and its child | the thread's steps (`Launch`, `ReadBytes`, `Parse`, `WaitForChild`, `Terminate`, `Poll`, `Reap`, ...) interleaved with the child's (`Write`, `ChildExits`, `ChildKilled`) |
| `CounterSensors` | `sample()` of the six sensors that report differences | one action per sensor, chosen in `CounterInit` since they share nothing; the kernel's `Count` and `Rewind`; failed reads |
| `GaugeSensors` | `PsiSensor`, `MemorySensor`, `ThermalSensor`, `CpuFreqSensor` | one of them per behaviour: `Construct`, `DiscoveryFails`, one sample action each with any outcome for any file, `Destroy`; the kernel's `Steal` |
| `GpuSensors` | `NvmlGpuSensor`, `NoneGpuSensor`, their choice, and the frame fields they share with tegrastats | `InitNvml` to any depth, `ChooseSensor`, then ticks of two steps, tegrastats first, as the registry orders them; `DestroyAgent` |
| `FrameFields`, `MCFrameFields` | the three above and `LatencyJitter` as one system | a step of the part followed; the others rest, since only tegrastats and the GPU sensor share fields |
| `MetricCatalogue` | the registry, the frame fields each sensor writes, `enabled_redis_metrics()`, the fields `publish_impl()` appends, the README's list | sets only, no state |
| `AgentConfig`, `MCAgentConfig` | `load_agent_config()`, `apply_key_value()` and what `Agent::Agent` makes of the result | `ReadLine` (a section or a setting) and `Start`; a write beyond the section stack may be harmless or end the program |
| `McpServer` | `Server`, `jsonrpc.cpp` and both tools | one action per step of a line: parse, dispatch, connect, handshake, list keys, one TS.RANGE, respond; Redis stops, hangs and changes keys in between |
| `SensorProofs` | proofs about `FrameFields` and its parts | |
| the other `*Proofs` | proofs about the module they extend | |

Definitions named as mutants in comments (for example `PublishFailedOnce`) are
plausible mistakes in the code; each checked property is violated when one of
them takes the place of the definition it follows or precedes.

Abstractions: sample values, texts and formats are left out except where a
property depends on them (which keys were written, whether a line was whole,
whether a reply has a string). Floats are integers over a scale (`S`, `One`), with
every quotient rounded down, or exact fractions. Three places need more care. The
conversion of nanoseconds to float in `LatencyJitter` is modelled as what it is
(`Float`: the nearest number with a mantissa of `Mantissa`, ties to even), because
sums of intervals have more digits than a float; the arithmetic on the floats
afterwards is exact. The softirqs baseline is rounded up (`Averaged`), because the
float decays towards 0 without getting there. And a line of tegrastats is the set
of fields it matches, because it assigns those and leaves the others. Sums over files, units or slots
are `SumFunction` of the community modules, in no order: the order in which the
code adds matters to none of them. Names of variables follow the code's
members without the trailing underscore; variables marked "history" in the
declarations only record what happened for the properties.

## 3. Runs

Passing runs (`expect: pass`):

| Run | Checks | Bounds |
| --- | --- | --- |
| `redis_sink` | no command on a null context or after giving up; TS.MADD only after every series was confirmed; success means stored; a stale connection costs no tick; implements `MetricSink`; calls return; recovery after faults | 3 metrics: a first, a middle and a last TS.CREATE, so a fault can hit before, inside and after the loop. No bound on faults or calls |
| `agent_loop` | tick `k` never starts before `start + k*T`; no tick is lost to overruns; a sensor whose last sample did not fail was sampled less than a period ago, and the failures of a tick are counted; the agent's own log tells the truth; at most one tick ends after the signal; missed cycles lag by one; shutdown exits unless a call of the sink never returns | deadlines up to 7 with T = 2: three ticks (starting at 1, 3 and 5 at the earliest), each of which can overrun by several intervals; one sensor of every tick, one of every second, one disabled |
| `risk_model` | scores in range; the state fits the risk after three ticks; no reversal without a move of 0.1; interrupts are forgiven; idle and overloaded machines settle | scale 1000; idle, interrupt-free, busy and overloaded frames; `Churn` = 2 changes of the signals, after which they are steady |
| `tegrastats` | every child is accounted for, none is left after the destructor, neither running nor as a zombie, and at most one SIGTERM goes astray; each field is that of the last whole line with it, over any splitting; calls return | 4 lines of two pieces (with both fields, none, and one each), 3 polls instead of 20 |
| `mcp_server` | responses match the lines, one each and with no foreign id; a tool's result is whole; every line is processed unless Redis hangs | 2 lines (what the first leaves behind can reach the second), 2 keys (a fault between two TS.RANGEs), 1 sample |
| `frame_fields` | GPU fields of one writer are of one sample of it; the four shared ones are of the last writer; NVML and files are given back, except those of a failed thermal discovery; failures are counted and show nothing old; headroom is of the hottest readable zone; the averaged frequency is between those measured; reclaim covers failed samples; shares stay in 0..1, below and above; rates are exact after any number of failed samples, and counters that go back invent nothing; no burst without a rise; the jitter ring refines `SlidingWindow` and its score is that of the window | 2 devices, temperatures on both sides of zero, 2 levels, counter up to 4; 2 units, counters up to 2, at most 2 counts between two complete samples: enough for numerator and denominator, or both units, to move together while others go back; the periods 8 and 12 as 2 and 3 units of 4 ticks, past the first common tick 24 (no sensor runs in the ticks left out); a window of 4, a clock of 16 values that wraps within it, intervals 0, 1 and 5, a mantissa of 2 bits, so that sums do round. Units and samples are symmetric. About 780,000 states |
| `agent_config` | settings are those of the last line for them, by indentation, the address's host, port and socket included; valid timing; created = written = sampled, but for seven GPU fields | files of up to 4 of 27 lines: every setting, good and bad, in its section, at the margin and a level too deep; 4 lines reach a section, a nested one, a return to the margin and a repetition. About 750,000 states |

Violation runs show where the code and its documents disagree; each is a finding
in `PROJECT.json` with the sentence quoted:

| Run | The document says | The code |
| --- | --- | --- |
| `writes_all_listed_keys` | TS.MADD writes all listed keys every cycle | a key deleted after its creation is never recreated, and its error is not seen |
| `redis_errors_count_failures` | `agent:redis_errors` is a monotonic counter of failed publishes | it is reset before every publish, so with health published only 0 is delivered |
| `documented_published` | the repository's README lists `raw:gpu_util`, `raw:emc_util`, `raw:gpu_mem_free`, `raw:gpu_temp`, `raw:gpu_clock_ratio`, `raw:gpu_power_ratio` and `raw:gpu_throttle` | the GPU sensors write these fields into the frame, but neither list of metrics has a key for them |
| `notifications_unanswered` | the MCP server returns no response for notifications, which omit the id | a line without an id that `parse_request()` refuses (its jsonrpc, method or params) is answered, with id null, since the id was not looked at yet |
| `points_returned` | the query tool returns recent points | timestamps are integer replies without a string, so every point is skipped |

Further disagreements were met while modelling and have no run, most because one
reading of the sentence is harmless:

* `agent:sensor_failures`, documented as a monotonic counter, is reset every tick;
  `agent:heartbeat`, documented as the current time, is delivered one tick late (0
  in the first); `raw:softirqs`, documented as a delta rate from `/proc/stat`, is a
  burst score from `/proc/softirqs` that is 0 for any steady load.
* `docs/redis-timeseries-metrics.md` says the sink publishes with one TS.MADD per
  tick; a retry sends a second one, also when only the reply of the first was lost.
* The same document has slow metrics "held from the last successful sample"; a
  failed sample of a gauge writes 0 (`FailureShows`). It also has `raw:cpu` seeded
  by PSI and `raw:thermal` overwritten by `CpuFreqSensor`; neither happens, each of
  these fields has one writer.
* The repository's README names a sensor `power` where the switch is
  `cpu_throttle`. The terminal UI's list has `raw:emc_util`, which is never written,
  and lacks `raw:gpu_mem_util`.

Two more things the properties state as the code has them, since no document says
otherwise. A directory scan of the thermal sensor that fails half-way forgets the
files it had opened, and they stay open (`ResourcesReturned` says exactly when). A
failed connectivity check that the first publish mends is never taken back in the
log, and the sink logs every attempt to connect on its own: `LogTellsState` is about
the lines of `agent.cpp`.

Deadlock checking is off for `agent_loop`, `tegrastats`, `frame_fields` and
`agent_config`, where the process or the sensor ends (exit, destructor, rejected
file) and where the bound on time, lines or ticks stops the model; it is on in all
other passing runs.

Fairness. The agent is one thread that runs whenever it is not blocked, so weak
fairness of the steps of that thread is what the operating system gives
(`SinkStep`, `ThreadStep`, `Run`, and `Next` in `RiskModel`, where
ticking is all there is). Time passes (`Elapse`), and a child sent a signal it
cannot ignore dies (`ChildKilled`). Redis is not assumed to answer, because no
command timeout is set: `ThreadStep` of `AgentLoop` leaves out the steps inside a
call of the sink, so `ShutdownExits` excepts a call that never returns, and
`CallReturns` and `LineProcessed` except a server that hangs for ever. `Recovers`
speaks of the time after the last fault. Nothing is assumed of the client.

## 4. Proofs

All theorems hold for every value of the constants that satisfies the named
assumption of the module. They rest on no other assumption.

* `RedisSinkProofs` (assumes N > 0 metrics). The safety properties say nothing
  about what survives from one call to the next, so none is inductive alone. The
  invariant `IInv` adds that: a live session belongs to a good context
  (`ContextInv`); giving up happens before the first schema and is final
  (`LatchInv`); the creation loop has confirmed the metrics before its cursor
  (`SchemaInv`); attempts bound executed commands (`AttemptInv`); an undisturbed
  call has a live session on its second attempt (`UndisturbedInv`). From it
  follow `TypeCorrect`, `ContextSafety`, `SchemaSafety`,
  `StorageSafety`, `RetryMasksStaleConnection`, and, action by action,
  `SinkRefinement`: the sink implements `MetricSink`.
* `AgentLoopProofs` (T > 0, positive periods). `TimerInv` places clock, deadline
  and tick count relative to each other in every phase; the key fact is
  `next_wakeup = start + tick_count * T`. `SignalInv`, `LogInv`, `MissedInv` and
  `HealthInv` do the same for shutdown, the log and the counters. `FreshInv` says
  that every enabled sensor whose last sample did not fail was sampled at a
  multiple of its period, less than a period ago within a cycle and at most a
  period ago outside one: that it is a multiple is what makes the bound inductive.
  Theorems `Schedule`,
  `LastTick`, `LogSafety`, `MissedLag`, `Freshness`.
* `LatencyJitterProofs` (positive window, any clock width and float format). Lemmas on remainders
  show that a step of the ring is either an append or a shift of the sequence
  read from its oldest slot; `RingRefinement` concludes that it implements
  `SlidingWindow`, across wrap-around of buffer and clock. `ScoreInv` says the
  score is that of the slots in use; `ScoreReordered` that a rotation of the slots
  does not change it. Together they give `ScoreSafety`.
* `RiskModelProofs` (S a multiple of 100; signals in range). Each score is a
  clamped or convex combination (`ClampBounds`, `SmoothBounds`), so
  `ScoresBounded`. A smoothed risk moves by at most a fifth of the distance to
  its target in a tick (`RiskStep`); `Settling` tracks the first two ticks, when
  the averages start anew, and gives `KeepsUp`. `Turning` remembers the risk at
  the last change and gives `Hysteresis`.
* `TegraStatsProofs` (any amount of output, any lines not recognised, any number
  of polls). `ChildInv` says who knows of the child at every step, also inside a
  termination, where neither the flag nor the state does alone, and when a signal
  may already have gone astray. `StreamInv` says that what was parsed, the buffer
  and the pipe together are the output without a gap, with a whole number of
  lines parsed; `RawInv` adds which line each field of `raw_` is of. Theorems `ChildSafety`,
  `LineSafety`.
* `SensorProofs` (finite devices and units, positive periods). Each part of
  `FrameFields` has its invariant, and a step of one leaves the others alone;
  `PartSpecs` concludes that the system implements the specifications of the
  counter sensors and of the jitter ring, so their theorems hold of it.
  `GpuInv` adds to the properties that tegrastats writes before the GPU sensor in
  a tick (`TickOrder`), that the process holds exactly what the sensor's flags say
  of NVML (`NvmlHeld`), and that what tegrastats knows is what it last wrote, until
  the sample that disables it (`RawShown`). `GaugeInv` adds that the counter is
  the baseline plus what was counted since (`Counted`), and that open files are
  known ones unless discovery failed (`Handles`). `FreqInv` keeps the moving
  average between two frequencies read, which rounding must not break. Theorems
  `OwnFieldsSafety`, `SharedFieldsSafety`, `ResourceSafety`, `FailureSafety`,
  `ReclaimSafety`, `HeadroomSafety`, `FreqSafety`.
  Of the counter sensors, `CounterInv` says that what a sensor keeps comes from a
  reading (`ReadLast`), and that every counter is that reading plus what was
  counted since, or less if one went back. Some sensors keep only a sum of what
  they read, so the reading is one that exists, not a variable. `BaselineAboveLeast`
  bounds the softirqs baseline. Theorems `RangeSafety`, `RateSafety`, `QuietSafety`.
* `AgentConfigProofs` (any lines, files of any length). `ConfigInv` keeps what the
  parser let through in range, `AgentInv` ties a running agent to its
  configuration, and `ListsAgree` compares the lists for every set of
  enabled sensors, what the sensors write included. For the nesting, `OpenSections` says that a section no line has
  ended yet is on the stack at its depth, above those it is in; it holds as long
  as the file is well indented, and makes the key the code puts together the path
  of the line (`KeyIsPath`). A line added changes nothing in what the lines before
  it mean (`PathGrows`, `LastGrows`), so each setting follows. Theorems
  `StartSafety`, `CatalogueSafety`, `NestingSafety`.
* `McpServerProofs` (any ids and keys, any input, any behaviour of Redis).
  `LineInv` says what the line in progress has left in `run()` and
  `handle_request()` at each step; `OwedInv` pairs what was sent with the lines
  that call for a response, in order, with at most the line in progress open;
  `SeriesInv` has one series for each key read so far. Theorems `AnswerSafety`, `WholeResults`.

Three kinds of facts needed more than the provers have. A sum over a finite set
is proved to be the number of elements of a set with `v[x]` marks for every `x`
(`Marks`, `SumIsCount`), so that bounds, monotonicity and reordering follow from
theorems on cardinality. What a recursive function computes is proved by the
least argument where it would fail (`LeastNat`, `JoinExists`, `JoinUnique`),
since an induction scheme cannot be instantiated. And the maximum of a finite set
exists by well-foundedness of the strict subsets (`MaxOfFinite`).

The proofs found one defect of the model: the two cases for the least delta of
the softirqs baseline overlapped in a CASE, which TLC resolves by order and the
logic does not; they are an IF now.

Only model-checked: the liveness properties (`CallReturns`, `Recovers`,
`ShutdownExits`, `IrqForgiven`, `SteadySettles`, `LineProcessed`), since the
prover handles neither ENABLED nor fairness. Every other property of a passing
run is stated by a theorem.

## 5. Not modelled

* The terminal UI keeps nothing between two refreshes, and Textual's message pump,
  which is external, serialises them; the rest of it draws. The schema script and
  the UI enter only as lists of keys (section 3).
* A window or throttle temperature that reads as infinity or not a number passes
  the parser. For the window the constructor's default takes over when it is not a
  number (`StartsValid`); what the floats of the thermal score then become is not
  modelled.
* The scanning of `/proc`, `/sys`, tegrastats, YAML and JSON text is character work;
  its outcome (a number, a recognised line, a refusal) is an input.
* `redis_latency_ms`, the `AgentStats` counters and the stdout sink are written
  and never read back.
* NVML, hiredis and Redis are external; they are modelled as the code uses them.
* A hung Redis blocks the agent for good, and a signal does not end that: the
  models allow it, and no document promises otherwise.
* The lines `RedisTsSink` logs are not part of `MetricSink`, the contract the loop
  is modelled on.
* An unbounded stream from tegrastats would keep `sample()` in its read loop;
  the bound on lines excludes it.

## 6. Plan

Done, in this order: the sink and its contract, the loop on top of the contract,
the jitter ring, the risk model, the tegrastats child, the counter sensors, the
MCP server, the gauge and GPU sensors, the configuration and the metric catalogue.

Proved since: every safety property of every run, and both refinements.

Next: the safety lemmas behind the liveness properties, such as a bound on the
steps of a call (a variant that every step of the thread lowers), which would
leave only the fairness argument to TLC.

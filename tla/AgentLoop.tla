------------------------------ MODULE AgentLoop ------------------------------
(***************************************************************************)
(* The agent's only thread: main()'s shutdown loop around                  *)
(* Agent::run_for_ticks(1), with the clock, the sensor schedule, the sink  *)
(* (known only by the promise of MetricSink) and the health metrics.       *)
(* Time passes between any two steps, so a cycle may overrun its tick      *)
(* anywhere, and the shutdown signal may arrive anywhere.                  *)
(*                                                                         *)
(* Sensor readings and pressures are not represented; which sensors are    *)
(* sampled when, what is counted and what is published are.                *)
(***************************************************************************)
EXTENDS Naturals, FiniteSets

CONSTANTS
  Sensors,                  \* the registered sensors
  Period,                   \* every_ticks of each sensor
  Enabled,                  \* the sensors the configuration enables
  T,                        \* tick_interval_
  MaxTime                   \* bound: no tick begins with a later deadline

ASSUME AgentAssumption ==
  /\ IsFiniteSet(Sensors)
  /\ Period \in [Sensors -> Nat \ {0}]
  /\ Enabled \subseteq Sensors
  /\ T \in Nat \ {0}
  /\ MaxTime \in Nat

VARIABLES
  publish_health,           \* publish_health_
  redis_enabled,            \* redis_sink_ != nullptr
  now,                      \* the clock
  phase,                    \* the step the thread is at
  first_tick,               \* first_tick_
  tick_count,               \* sampler_.tick_count_
  next_wakeup,              \* next_wakeup_
  cycle_start,              \* start of the current cycle
  previous_cycle_start,     \* previous_cycle_start_, 0 for none
  frame,                    \* frame_.agent
  redis_was_ok,             \* redis_was_ok_
  shutdown,                 \* g_shutdown_requested
  mode, busy, delivered, outcome,   \* the sink: see MetricSink
  published,                \* history: frame_.agent as last delivered
  sampledAt,                \* history: tick of each sensor's last good sample
  failing,                  \* history: enabled sensors whose last sample failed
  log,                      \* history: last line agent.cpp wrote about Redis
  start,                    \* history: time of the first wakeup
  overruns,                 \* history: completed cycles longer than T
  failures,                 \* history: publish() calls that failed
  ticksAtSignal             \* history: ticks completed when it arrived

Sink == INSTANCE MetricSink WITH Attempts <- 2

configVars  == <<publish_health, redis_enabled>>
timerVars   == <<first_tick, tick_count, next_wakeup, cycle_start,
                 previous_cycle_start, start, overruns>>
sinkVars    == <<mode, busy, delivered, outcome>>
publishVars == <<redis_was_ok, log, failures>>
signalVars  == <<shutdown, ticksAtSignal>>
sampleVars  == <<sampledAt, failing>>
vars == <<configVars, now, phase, timerVars, frame, sinkVars, publishVars,
          signalVars, published, sampleVars>>

Health == [sensor_failures : 0..Cardinality(Enabled), redis_errors : 0..1,
           missed_cycles : Nat, heartbeat : Nat, loop_jitter : Nat, compute_time : Nat]

NoHealth == [sensor_failures |-> 0, redis_errors |-> 0, missed_cycles |-> 0,
             heartbeat |-> 0, loop_jitter |-> 0, compute_time |-> 0]

Init ==
  /\ publish_health \in BOOLEAN /\ redis_enabled \in BOOLEAN
  /\ now = 1
  /\ phase = IF redis_enabled THEN "check" ELSE "loop"
  /\ first_tick = TRUE /\ redis_was_ok = TRUE /\ shutdown = FALSE
  /\ tick_count = 0 /\ next_wakeup = 0 /\ cycle_start = 0
  /\ previous_cycle_start = 0
  /\ frame = NoHealth /\ published = NoHealth
  /\ Sink!Init
  /\ sampledAt = [s \in Sensors |-> 0] /\ failing = {}
  /\ log = "none"
  /\ start = 0 /\ overruns = 0 /\ failures = 0 /\ ticksAtSignal = 0

-----------------------------------------------------------------------------
(* The constructor and main().                                             *)

\* check_connectivity(): connects and creates the series, publishes nothing;
\* whatever it answers is logged, and the agent starts.
CheckConnectivity ==
  /\ phase = "check"
  /\ \/ outcome = "none" /\ Sink!Call /\ UNCHANGED <<phase, log>>
     \/ Sink!EstablishAndReturn /\ UNCHANGED <<phase, log>>
     \/ Sink!GiveUp /\ UNCHANGED <<phase, log>>
     \/ Sink!ReturnFailed /\ UNCHANGED <<phase, log>>
     \/ /\ outcome # "none" /\ ~busy /\ phase' = "loop"
        /\ log' = IF outcome = "connected" THEN "check confirmed" ELSE "check failed"
        /\ UNCHANGED sinkVars
  /\ UNCHANGED <<configVars, now, timerVars, frame, redis_was_ok, failures, signalVars,
                 published, sampleVars>>

\* handle_shutdown_signal()
Signal ==
  /\ ~shutdown /\ phase # "exited"
  /\ shutdown' = TRUE
  /\ ticksAtSignal' = tick_count
  /\ UNCHANGED <<configVars, now, phase, timerVars, frame, sinkVars, publishVars,
                 published, sampleVars>>

\* Mutant of Exit: leaves only after a successful publish.
ExitAfterFlush ==
  /\ phase = "loop" /\ shutdown /\ outcome = "ok"
  /\ phase' = "exited"
  /\ UNCHANGED <<configVars, now, timerVars, frame, sinkVars, publishVars, signalVars,
                 published, sampleVars>>

Exit ==
  /\ phase = "loop" /\ shutdown
  /\ phase' = "exited"
  /\ UNCHANGED <<configVars, now, timerVars, frame, sinkVars, publishVars, signalVars,
                 published, sampleVars>>

-----------------------------------------------------------------------------
(* One iteration of run_for_ticks().                                       *)

\* main()'s loop condition, and its mutant that never looks.
ShutdownIgnored == TRUE
KeepRunning == ~shutdown

\* Only the first call takes its wakeup from the clock.
RunForTicks ==
  /\ phase = "loop" /\ KeepRunning
  /\ phase' = "cycle"
  /\ IF first_tick
       THEN next_wakeup' = now /\ start' = now
       ELSE UNCHANGED <<next_wakeup, start>>
  /\ next_wakeup' + T <= MaxTime
  /\ first_tick' = FALSE
  /\ UNCHANGED <<configVars, now, tick_count, cycle_start, previous_cycle_start, overruns,
                 frame, sinkVars, publishVars, signalVars, published, sampleVars>>

\* Mutant of ShouldSampleEvery: off by one.
ShouldSampleLate(n) == n # 0 /\ tick_count % (n + 1) = 0
ShouldSampleEvery(n) == n # 0 /\ tick_count % n = 0

Due == {s \in Enabled : ShouldSampleEvery(Period[s])}

\* A sample that fails is counted; what it leaves in the frame is its own
\* affair: tegrastats keeps the old values, the gauges write zeros.
CollectSensors ==
  /\ phase = "cycle"
  /\ phase' = "compute"
  /\ cycle_start' = now
  /\ \E failed \in SUBSET Due :
       /\ frame' = [frame EXCEPT !.sensor_failures = Cardinality(failed)]
       /\ sampledAt' = [s \in Sensors |-> IF s \in Due \ failed THEN tick_count
                                                              ELSE sampledAt[s]]
       /\ failing' = (failing \ Due) \cup failed
  /\ UNCHANGED <<configVars, now, first_tick, tick_count, next_wakeup,
                 previous_cycle_start, start, overruns, sinkVars, publishVars,
                 signalVars, published>>

\* compute_derived() and compute_risk(): see RiskModel.
Compute ==
  /\ phase = "compute"
  /\ phase' = "publish"
  /\ UNCHANGED <<configVars, now, timerVars, frame, sinkVars, publishVars, signalVars,
                 published, sampleVars>>

\* redis_errors restarts from 0 each tick.
ResetErrors == frame' = [frame EXCEPT !.redis_errors = 0]

PublishSinks ==
  /\ phase = "publish"
  /\ ResetErrors
  /\ IF redis_enabled
       THEN phase' = "sink" /\ Sink!Call
       ELSE phase' = "health" /\ UNCHANGED sinkVars
  /\ UNCHANGED <<configVars, now, timerVars, publishVars, signalVars, published, sampleVars>>

\* Inside redis_sink_->publish(frame_): every TS.MADD carries frame_ as it is
\* during the call.
SinkPublishes ==
  /\ phase = "sink"
  /\ \/ (Sink!Establish \/ Sink!GiveUp \/ Sink!ReturnFailed) /\ UNCHANGED published
     \/ Sink!Deliver /\ published' = frame
  /\ UNCHANGED <<configVars, now, phase, timerVars, frame, publishVars, signalVars, sampleVars>>

\* The edge-triggered log: one line when publishing starts to fail, one when
\* it works again.  The mutant forgets to note the recovery.
LogOutcomeOnce(ok) ==
  /\ redis_was_ok' = (redis_was_ok /\ ok)
  /\ log' = IF ~ok /\ redis_was_ok THEN "publish failed" ELSE log
LogOutcome(ok) ==
  /\ redis_was_ok' = ok
  /\ log' = IF ok = redis_was_ok THEN log
            ELSE IF ok THEN "publish recovered" ELSE "publish failed"

\* publish() returned.
PublishReturned ==
  /\ phase = "sink" /\ ~busy
  /\ phase' = "health"
  /\ LogOutcome(outcome = "ok")
  /\ IF outcome = "ok"
       THEN UNCHANGED <<frame, failures>>
       ELSE /\ frame' = [frame EXCEPT !.redis_errors = @ + 1]
            /\ failures' = failures + 1
  /\ UNCHANGED <<configVars, now, timerVars, sinkVars, signalVars, published, sampleVars>>

Distance(a, b) == IF a >= b THEN a - b ELSE b - a

\* Mutant of UpdateAgentHealth: a cycle that just fits counts as missed.
UpdateAgentHealthStrict(period, compute) ==
  IF publish_health
    THEN frame' = [frame EXCEPT
           !.loop_jitter   = Distance(period, T),
           !.compute_time  = compute,
           !.heartbeat     = now,
           !.missed_cycles = IF compute >= T THEN @ + 1 ELSE @]
    ELSE UNCHANGED frame

\* update_agent_health(actual_period, compute_time), after publishing.
UpdateAgentHealth(period, compute) ==
  IF publish_health
    THEN frame' = [frame EXCEPT
           !.loop_jitter   = Distance(period, T),
           !.compute_time  = compute,
           !.heartbeat     = now,
           !.missed_cycles = IF compute > T THEN @ + 1 ELSE @]
    ELSE UNCHANGED frame

\* The wakeup of the next tick; its mutant starts over from the clock.
NextWakeupFromNow == now + T
NextWakeup == next_wakeup + T

\* The end of the cycle, and sleep_until(next_wakeup_) begins.
EndCycle ==
  /\ phase = "health"
  /\ phase' = "sleep"
  /\ UpdateAgentHealth(IF previous_cycle_start = 0 THEN 0
                       ELSE cycle_start - previous_cycle_start,
                       now - cycle_start)
  /\ previous_cycle_start' = cycle_start
  /\ tick_count' = tick_count + 1
  /\ next_wakeup' = NextWakeup
  /\ overruns' = IF now - cycle_start > T THEN overruns + 1 ELSE overruns
  /\ UNCHANGED <<configVars, now, first_tick, cycle_start, start, sinkVars, publishVars,
                 signalVars, published, sampleVars>>

\* Mutant of SleepIsOver: off by one tick.
SleepIsOverEarly == now + 1 >= next_wakeup
SleepIsOver == now >= next_wakeup

WakeUp ==
  /\ phase = "sleep" /\ SleepIsOver
  /\ phase' = "loop"
  /\ UNCHANGED <<configVars, now, timerVars, frame, sinkVars, publishVars, signalVars,
                 published, sampleVars>>

AgentStep ==
  \/ CheckConnectivity \/ Exit \/ RunForTicks \/ CollectSensors \/ Compute
  \/ PublishSinks \/ SinkPublishes \/ PublishReturned \/ EndCycle \/ WakeUp

\* The clock.
Elapse ==
  /\ now < MaxTime /\ phase # "exited"
  /\ now' = now + 1
  /\ UNCHANGED <<configVars, phase, timerVars, frame, sinkVars, publishVars, signalVars,
                 published, sampleVars>>

Next == AgentStep \/ Signal \/ Elapse

\* The steps that wait for nobody: inside a call of the sink the thread waits
\* for Redis, which may never answer, because the sink sets no command timeout.
ThreadStep == ~busy /\ AgentStep

\* The thread is scheduled and time passes.
Spec == Init /\ [][Next]_vars /\ WF_vars(ThreadStep) /\ WF_vars(Elapse)

-----------------------------------------------------------------------------
(* Properties.                                                             *)

InCycle == phase \in {"compute", "publish", "sink", "health"}

\* next_wakeup_ advances by T from the first tick and is never taken from the
\* clock again: however cycles overrun, tick k never starts before start + k*T,
\* and overruns lose no tick: whenever the agent really sleeps, it has run
\* exactly one tick for each interval begun since the start.
OnSchedule ==
  /\ InCycle => cycle_start >= start + tick_count * T
  /\ phase = "sleep" /\ now < next_wakeup =>
       /\ start + (tick_count - 1) * T <= now
       /\ now < start + tick_count * T

\* No reading grows old unseen: in any cycle each enabled sensor was sampled
\* with success less than one of its periods ago, unless its last sample failed,
\* and agent:sensor_failures of a tick counts exactly the sensors due in that
\* tick which now keep an old (or zeroed) reading.  Success is what sample()
\* reports; of which line the fields of a successful tegrastats sample are, see
\* TegraStats.  A sensor that fails for good is counted at every sample of it,
\* while the values it left may be published for ever.
SamplesFresh ==
  InCycle =>
    /\ \A s \in Enabled \ failing : tick_count - sampledAt[s] < Period[s]
    /\ frame.sensor_failures = Cardinality({s \in failing : tick_count % Period[s] = 0})

\* Of the lines agent.cpp writes about Redis, the last is "[redis] publish
\* failed" exactly while the last publish failed, from the first tick on.  (A
\* failed connectivity check that the first publish mends is never taken back,
\* and the lines RedisTsSink writes at each attempt of its own are not part of
\* what the loop knows of its sink.)
LogTellsState ==
  phase \notin {"check", "sink"} /\ tick_count > 0 /\ redis_enabled =>
    (log = "publish failed") = (outcome = "failed")

\* agent:missed_cycles is published before the cycle it belongs to is
\* measured: it counts the overruns of the cycles before.
MissedCyclesLagOne ==
  [][delivered' > delivered /\ publish_health => published'.missed_cycles = overruns]_vars

\* After the signal at most the tick in progress is completed.
NoTickAfterSignal == shutdown => tick_count <= ticksAtSignal + 1

\* docs/redis-timeseries-metrics.md: agent:redis_errors is a "monotonic
\* counter, updated when Redis publish attempts fail".
RedisErrorsCountFailures ==
  [][delivered' > delivered /\ publish_health => published'.redis_errors >= failures]_vars

\* The signal ends the agent, unless a call of the sink never returns: the
\* handler only sets a flag, which nothing looks at while Redis is silent.
ShutdownExits == <>[]busy \/ (shutdown ~> phase = "exited")
=============================================================================

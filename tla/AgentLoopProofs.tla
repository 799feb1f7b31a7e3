--------------------------- MODULE AgentLoopProofs ---------------------------
(***************************************************************************)
(* Proofs about AgentLoop, for every tick interval, sensor set and number  *)
(* of ticks: the schedule of Agent::run_for_ticks(), shutdown, the Redis   *)
(* log and the missed-cycle counter.                                       *)
(***************************************************************************)
EXTENDS AgentLoop, FiniteSetTheorems, TLAPS

Phases == {"check", "loop", "cycle", "compute", "publish", "sink", "health",
           "sleep", "exited"}

\* Where the thread stands relative to its schedule.
TimerInv ==
  /\ now \in Nat /\ next_wakeup \in Nat /\ cycle_start \in Nat
  /\ tick_count \in Nat /\ start \in Nat /\ first_tick \in BOOLEAN
  /\ phase \in Phases
  /\ first_tick => phase \in {"check", "loop", "exited"} /\ tick_count = 0
  /\ phase = "check" => first_tick
  /\ ~first_tick => next_wakeup = start + tick_count * T
  /\ phase \in {"loop", "cycle"} /\ ~first_tick => now >= next_wakeup
  /\ InCycle => cycle_start >= next_wakeup /\ now >= cycle_start
  /\ phase = "sleep" => tick_count > 0 /\ now + T >= next_wakeup

\* A tick in progress when the signal arrives is the last one.
SignalInv ==
  /\ ticksAtSignal \in Nat /\ shutdown \in BOOLEAN
  /\ shutdown => /\ tick_count <= ticksAtSignal + 1
                 /\ phase = "cycle" \/ InCycle => tick_count = ticksAtSignal

\* redis_was_ok_, the log and the sink's last answer agree outside publish().
LogInv ==
  /\ log = "publish failed" <=> ~redis_was_ok
  /\ redis_was_ok \in BOOLEAN
  /\ phase = "check" => tick_count = 0 /\ redis_was_ok
  /\ phase = "sink" /\ ~busy => outcome \in {"ok", "failed"}
  /\ phase = "health" /\ redis_enabled =>
       /\ outcome \in {"ok", "failed"}
       /\ redis_was_ok <=> outcome = "ok"
  /\ tick_count > 0 /\ phase # "sink" /\ redis_enabled =>
       /\ outcome \in {"ok", "failed"}
       /\ redis_was_ok <=> outcome = "ok"

\* frame_.agent.missed_cycles counts the overruns of the completed cycles.
MissedInv == publish_health => frame.missed_cycles = overruns

-----------------------------------------------------------------------------
(* The schedule.                                                           *)

\* The constructor's state satisfies the invariant.
LEMMA InitTimer == Init => TimerInv
  BY AgentAssumption DEF Init, TimerInv, Phases, InCycle

\* Every step of the thread, the clock and the signal keeps the schedule.
LEMMA NextTimer == TimerInv /\ [Next]_vars => TimerInv'
<1> SUFFICES ASSUME TimerInv, [Next]_vars PROVE TimerInv'  OBVIOUS
<1> USE AgentAssumption
<1>1. CASE CheckConnectivity
  <2>1. /\ phase = "check" /\ phase' \in {"check", "loop"}
        /\ UNCHANGED <<now, timerVars>>
    BY <1>1 DEF CheckConnectivity
  <2> QED  BY <2>1 DEF TimerInv, timerVars, InCycle, Phases
<1>2. CASE Exit
  BY <1>2 DEF Exit, TimerInv, timerVars, InCycle, Phases
<1>3. CASE RunForTicks
  <2>1. CASE first_tick
    <3>1. tick_count' = 0 /\ 0 * T = 0  BY <1>3, <2>1 DEF RunForTicks, TimerInv
    <3>2. next_wakeup' = now /\ start' = now /\ now' = now /\ phase' = "cycle"
      BY <1>3, <2>1 DEF RunForTicks
    <3>3. first_tick' = FALSE /\ cycle_start' = cycle_start  BY <1>3 DEF RunForTicks
    <3>4. tick_count' * T = 0  BY <3>1
    <3>5. next_wakeup' = start' + tick_count' * T  BY <3>2, <3>4 DEF TimerInv
    <3>6. tick_count' \in Nat /\ now \in Nat /\ cycle_start \in Nat  BY <3>1 DEF TimerInv
    <3>7. ~InCycle' /\ phase' \in Phases  BY <3>2 DEF InCycle, Phases
    <3>8. next_wakeup' \in Nat /\ start' \in Nat /\ now' \in Nat /\ cycle_start' \in Nat
      BY <3>2, <3>3, <3>6
    <3>9. now' >= next_wakeup' /\ phase' # "check" /\ phase' # "sleep"
      BY <3>2, <3>6
    <3> QED  BY <3>3, <3>5, <3>6, <3>7, <3>8, <3>9, Zenon DEF TimerInv
  <2>2. CASE ~first_tick
    <3>1. UNCHANGED <<now, tick_count, next_wakeup, start, cycle_start>>
      BY <1>3, <2>2 DEF RunForTicks
    <3>2. first_tick' = FALSE /\ phase = "loop" /\ phase' = "cycle"  BY <1>3 DEF RunForTicks
    <3> QED  BY <2>2, <3>1, <3>2 DEF TimerInv, InCycle, Phases
  <2> QED  BY <2>1, <2>2
<1>4. CASE CollectSensors
  BY <1>4 DEF CollectSensors, TimerInv, InCycle, Phases
<1>5. CASE Compute
  BY <1>5 DEF Compute, TimerInv, timerVars, InCycle, Phases
<1>6. CASE PublishSinks
  BY <1>6 DEF PublishSinks, TimerInv, timerVars, InCycle, Phases
<1>7. CASE SinkPublishes
  BY <1>7 DEF SinkPublishes, TimerInv, timerVars, InCycle, Phases
<1>8. CASE PublishReturned
  BY <1>8 DEF PublishReturned, TimerInv, timerVars, InCycle, Phases
<1>9. CASE EndCycle
  <2>1. (tick_count + 1) * T = tick_count * T + T  BY DEF TimerInv
  <2> QED  BY <1>9, <2>1 DEF EndCycle, NextWakeup, TimerInv, InCycle, Phases
<1>10. CASE WakeUp
  BY <1>10 DEF WakeUp, SleepIsOver, TimerInv, timerVars, InCycle, Phases
<1>11. CASE Signal
  BY <1>11 DEF Signal, TimerInv, timerVars, InCycle, Phases
<1>12. CASE Elapse
  BY <1>12 DEF Elapse, TimerInv, timerVars, InCycle, Phases
<1>13. CASE UNCHANGED vars
  BY <1>13 DEF vars, TimerInv, timerVars, InCycle, Phases
<1> QED
  BY <1>1, <1>2, <1>3, <1>4, <1>5, <1>6, <1>7, <1>8, <1>9, <1>10, <1>11, <1>12, <1>13
  DEF Next, AgentStep

-----------------------------------------------------------------------------
(* Shutdown.                                                               *)

\* No step but the end of a cycle completes a tick, and none starts one once
\* g_shutdown_requested is set.
LEMMA NextSignal == TimerInv /\ SignalInv /\ [Next]_vars => SignalInv'
<1> SUFFICES ASSUME TimerInv, SignalInv, [Next]_vars PROVE SignalInv'  OBVIOUS
<1>1. CASE CheckConnectivity
  <2>1. phase = "check" /\ phase' \in {"check", "loop"} /\ UNCHANGED <<timerVars, signalVars>>
    BY <1>1 DEF CheckConnectivity
  <2> QED  BY <2>1 DEF SignalInv, timerVars, signalVars, InCycle
<1>2. CASE Exit
  BY <1>2 DEF Exit, SignalInv, timerVars, signalVars, InCycle
<1>3. CASE RunForTicks
  BY <1>3 DEF RunForTicks, KeepRunning, SignalInv, signalVars, InCycle
<1>4. CASE CollectSensors
  BY <1>4 DEF CollectSensors, SignalInv, signalVars, InCycle
<1>5. CASE Compute
  BY <1>5 DEF Compute, SignalInv, timerVars, signalVars, InCycle
<1>6. CASE PublishSinks
  BY <1>6 DEF PublishSinks, SignalInv, timerVars, signalVars, InCycle
<1>7. CASE SinkPublishes
  BY <1>7 DEF SinkPublishes, SignalInv, timerVars, signalVars, InCycle
<1>8. CASE PublishReturned
  BY <1>8 DEF PublishReturned, SignalInv, timerVars, signalVars, InCycle
<1>9. CASE EndCycle
  BY <1>9 DEF EndCycle, TimerInv, SignalInv, signalVars, InCycle
<1>10. CASE WakeUp
  BY <1>10 DEF WakeUp, SignalInv, timerVars, signalVars, InCycle
<1>11. CASE Signal
  BY <1>11 DEF Signal, TimerInv, SignalInv, timerVars, InCycle
<1>12. CASE Elapse
  BY <1>12 DEF Elapse, SignalInv, timerVars, signalVars, InCycle
<1>13. CASE UNCHANGED vars
  BY <1>13 DEF vars, SignalInv, timerVars, signalVars, InCycle
<1> QED
  BY <1>1, <1>2, <1>3, <1>4, <1>5, <1>6, <1>7, <1>8, <1>9, <1>10, <1>11, <1>12, <1>13
  DEF Next, AgentStep

-----------------------------------------------------------------------------
(* The log.                                                                *)

\* Only a returning publish() writes a line, and it writes it at the edge.
LEMMA NextLog == TimerInv /\ LogInv /\ [Next]_vars => LogInv'
<1> SUFFICES ASSUME TimerInv, LogInv, [Next]_vars PROVE LogInv'  OBVIOUS
<1>1. CASE CheckConnectivity
  <2>1. /\ phase = "check" /\ phase' \in {"check", "loop"}
        /\ UNCHANGED <<timerVars, redis_was_ok, configVars>>
        /\ log' \in {log, "check confirmed", "check failed"}
    BY <1>1 DEF CheckConnectivity
  <2>2. redis_was_ok /\ log' # "publish failed"
    <3>1. redis_was_ok  BY <2>1, Zenon DEF LogInv
    <3>2. log # "publish failed"  BY <3>1, Zenon DEF LogInv
    <3> QED  BY <2>1, <3>1, <3>2
  <2>3. tick_count' = 0 /\ ~(0 > 0)
    <3>1. tick_count = 0  BY <2>1 DEF TimerInv
    <3>2. tick_count' = tick_count  BY <2>1 DEF timerVars
    <3> QED  BY <3>1, <3>2
  <2>4. redis_was_ok' /\ redis_was_ok' \in BOOLEAN  BY <2>1, <2>2 DEF LogInv
  <2>5. phase' # "sink" /\ phase' # "health"  BY <2>1
  <2> QED  BY <2>2, <2>3, <2>4, <2>5, Zenon DEF LogInv
<1>2. CASE Exit
  BY <1>2 DEF Exit, LogInv, timerVars, publishVars, configVars, sinkVars
<1>3. CASE RunForTicks
  BY <1>3 DEF RunForTicks, LogInv, publishVars, configVars, sinkVars
<1>4. CASE CollectSensors
  BY <1>4 DEF CollectSensors, LogInv, publishVars, configVars, sinkVars
<1>5. CASE Compute
  BY <1>5 DEF Compute, LogInv, timerVars, publishVars, configVars, sinkVars
<1>6. CASE PublishSinks
  <2>1. UNCHANGED <<timerVars, publishVars, configVars>> /\ phase = "publish"
    BY <1>6 DEF PublishSinks
  <2>2. CASE redis_enabled
    <3>1. phase' = "sink" /\ Sink!Call  BY <1>6, <2>2 DEF PublishSinks
    <3> QED  BY <2>1, <3>1 DEF Sink!Call, LogInv, timerVars, publishVars
  <2>3. CASE ~redis_enabled
    <3>1. phase' = "health" /\ UNCHANGED sinkVars  BY <1>6, <2>3 DEF PublishSinks
    <3> QED  BY <2>1, <2>3, <3>1 DEF LogInv, timerVars, publishVars, configVars, sinkVars
  <2> QED  BY <2>2, <2>3
<1>7. CASE SinkPublishes
  <2>1. /\ phase = "sink" /\ phase' = "sink" /\ UNCHANGED <<timerVars, publishVars>>
        /\ Sink!Establish \/ Sink!GiveUp \/ Sink!ReturnFailed \/ Sink!Deliver
    BY <1>7 DEF SinkPublishes
  <2>2. busy' \/ outcome' \in {"ok", "failed"}
    BY <2>1 DEF Sink!Establish, Sink!GiveUp, Sink!ReturnFailed, Sink!Deliver
  <2> QED  BY <2>1, <2>2 DEF LogInv, timerVars, publishVars
<1>8. CASE PublishReturned
  <2>1. /\ phase = "sink" /\ ~busy /\ phase' = "health"
        /\ UNCHANGED <<timerVars, configVars, sinkVars>>
        /\ LogOutcome(outcome = "ok")
    BY <1>8 DEF PublishReturned
  <2>2. outcome \in {"ok", "failed"}  BY <2>1 DEF LogInv
  <2>3. CASE outcome = "ok"
    <3>1. redis_was_ok' = TRUE /\ log' # "publish failed"
      BY <2>1, <2>3 DEF LogOutcome, LogInv
    <3> QED  BY <2>1, <2>3, <3>1 DEF LogInv, timerVars, configVars, sinkVars
  <2>4. CASE outcome = "failed"
    <3>1. redis_was_ok' = FALSE /\ log' = "publish failed"
      BY <2>1, <2>4 DEF LogOutcome, LogInv
    <3> QED  BY <2>1, <2>4, <3>1 DEF LogInv, timerVars, configVars, sinkVars
  <2> QED  BY <2>2, <2>3, <2>4
<1>9. CASE EndCycle
  BY <1>9 DEF EndCycle, TimerInv, LogInv, publishVars, configVars, sinkVars
<1>10. CASE WakeUp
  BY <1>10 DEF WakeUp, LogInv, timerVars, publishVars, configVars, sinkVars
<1>11. CASE Signal
  BY <1>11 DEF Signal, LogInv, timerVars, publishVars, configVars, sinkVars
<1>12. CASE Elapse
  BY <1>12 DEF Elapse, LogInv, timerVars, publishVars, configVars, sinkVars
<1>13. CASE UNCHANGED vars
  BY <1>13 DEF vars, LogInv, timerVars, publishVars, configVars, sinkVars
<1> QED
  BY <1>1, <1>2, <1>3, <1>4, <1>5, <1>6, <1>7, <1>8, <1>9, <1>10, <1>11, <1>12, <1>13
  DEF Next, AgentStep

-----------------------------------------------------------------------------
(* Missed cycles.                                                          *)

\* missed_cycles and the overruns are counted in the same step.
LEMMA NextMissed == MissedInv /\ frame \in Health /\ [Next]_vars => MissedInv'
<1> SUFFICES ASSUME MissedInv, frame \in Health, [Next]_vars PROVE MissedInv'  OBVIOUS
<1> USE DEF MissedInv, Health
<1>1. CASE CheckConnectivity \/ Exit \/ Compute \/ SinkPublishes \/ WakeUp \/ Signal \/ Elapse
  BY <1>1
  DEF CheckConnectivity, Exit, Compute, SinkPublishes, WakeUp, Signal, Elapse,
      configVars, timerVars
<1>2. CASE RunForTicks
  BY <1>2 DEF RunForTicks, configVars
<1>3. CASE CollectSensors
  BY <1>3 DEF CollectSensors, configVars
<1>4. CASE PublishSinks
  BY <1>4 DEF PublishSinks, ResetErrors, configVars, timerVars
<1>5. CASE PublishReturned
  BY <1>5 DEF PublishReturned, configVars, timerVars
<1>6. CASE EndCycle
  BY <1>6 DEF EndCycle, UpdateAgentHealth, configVars
<1>7. CASE UNCHANGED vars
  BY <1>7 DEF vars, configVars, timerVars
<1> QED
  BY <1>1, <1>2, <1>3, <1>4, <1>5, <1>6, <1>7 DEF Next, AgentStep

-----------------------------------------------------------------------------
(* The health metrics have their types.                                    *)

\* The counters and times of frame_.agent; redis_errors is 0 or 1, because it
\* restarts from 0 in every tick.
HealthInv ==
  /\ frame \in Health /\ published \in Health
  /\ phase = "sink" => frame.redis_errors = 0
  /\ overruns \in Nat /\ previous_cycle_start \in Nat

\* Every step keeps them.
LEMMA NextHealth == TimerInv /\ HealthInv /\ [Next]_vars => HealthInv'
<1> SUFFICES ASSUME TimerInv, HealthInv, [Next]_vars PROVE HealthInv'  OBVIOUS
<1>1. CASE CheckConnectivity
  <2>1. phase' \in {"check", "loop"} /\ UNCHANGED <<timerVars, frame, published>>
    BY <1>1 DEF CheckConnectivity
  <2> QED  BY <2>1 DEF HealthInv, timerVars
<1>2. CASE Exit \/ Compute \/ WakeUp \/ Signal \/ Elapse
  <2>1. UNCHANGED <<timerVars, frame, published>> /\ (phase' = "sink" => phase = "sink")
    BY <1>2 DEF Exit, Compute, WakeUp, Signal, Elapse
  <2> QED  BY <2>1 DEF HealthInv, timerVars
<1>3. CASE RunForTicks
  <2>1. UNCHANGED <<overruns, previous_cycle_start, frame, published>> /\ phase' = "cycle"
    BY <1>3 DEF RunForTicks
  <2> QED  BY <2>1 DEF HealthInv
<1>4. CASE CollectSensors
  <2>1. PICK failed \in SUBSET Due :
          frame' = [frame EXCEPT !.sensor_failures = Cardinality(failed)]
    BY <1>4, Zenon DEF CollectSensors
  <2>2. Cardinality(failed) \in 0..Cardinality(Enabled)
    <3>1. failed \subseteq Enabled  BY DEF Due
    <3>2. IsFiniteSet(Enabled)  BY AgentAssumption, FS_Subset
    <3> QED  BY <3>1, <3>2, FS_Subset, FS_CardinalityType
  <2>3. frame' \in Health  BY <2>1, <2>2 DEF HealthInv, Health
  <2>4. UNCHANGED <<overruns, previous_cycle_start, published>> /\ phase' = "compute"
    BY <1>4 DEF CollectSensors
  <2> QED  BY <2>3, <2>4 DEF HealthInv
<1>5. CASE PublishSinks
  <2>1. frame' = [frame EXCEPT !.redis_errors = 0]  BY <1>5 DEF PublishSinks, ResetErrors
  <2>2. frame' \in Health /\ frame'.redis_errors = 0  BY <2>1 DEF HealthInv, Health
  <2>3. UNCHANGED <<timerVars, published>>  BY <1>5 DEF PublishSinks
  <2> QED  BY <2>2, <2>3 DEF HealthInv, timerVars
<1>6. CASE SinkPublishes
  <2>1. UNCHANGED <<timerVars, frame, phase>> /\ published' \in {published, frame}
    BY <1>6 DEF SinkPublishes
  <2> QED  BY <2>1 DEF HealthInv, timerVars
<1>7. CASE PublishReturned
  <2>1. frame.redis_errors = 0 /\ frame \in Health  BY <1>7 DEF PublishReturned, HealthInv
  <2>2. frame' = frame \/ frame' = [frame EXCEPT !.redis_errors = 1]
    BY <1>7, <2>1 DEF PublishReturned, Health
  <2>3. frame' \in Health  BY <2>1, <2>2 DEF Health
  <2>4. UNCHANGED <<timerVars, published>> /\ phase' = "health"  BY <1>7 DEF PublishReturned
  <2> QED  BY <2>3, <2>4 DEF HealthInv, timerVars
<1>8. CASE EndCycle
  <2> DEFINE period == IF previous_cycle_start = 0 THEN 0
                       ELSE cycle_start - previous_cycle_start
  <2>1. /\ now \in Nat /\ cycle_start \in Nat /\ now >= cycle_start /\ T \in Nat
        /\ overruns \in Nat /\ previous_cycle_start \in Nat /\ frame \in Health
    BY <1>8, AgentAssumption DEF EndCycle, TimerInv, HealthInv, InCycle
  <2>2. Distance(period, T) \in Nat /\ now - cycle_start \in Nat
    BY <2>1 DEF Distance
  <2>3. (IF now - cycle_start > T THEN frame.missed_cycles + 1 ELSE frame.missed_cycles) \in Nat
    BY <2>1 DEF Health
  <2>4. frame' \in Health
    <3>1. CASE publish_health
      <4>1. frame' = [frame EXCEPT
                !.loop_jitter   = Distance(period, T),
                !.compute_time  = now - cycle_start,
                !.heartbeat     = now,
                !.missed_cycles = IF now - cycle_start > T THEN @ + 1 ELSE @]
        BY <1>8, <3>1 DEF EndCycle, UpdateAgentHealth
      <4> HIDE DEF period
      <4> QED  BY <2>1, <2>2, <2>3, <4>1 DEF Health
    <3>2. CASE ~publish_health
      BY <1>8, <2>1, <3>2 DEF EndCycle, UpdateAgentHealth
    <3> QED  BY <3>1, <3>2
  <2>5. published' = published /\ phase' = "sleep" /\ overruns' \in Nat
        /\ previous_cycle_start' \in Nat
    BY <1>8, <2>1 DEF EndCycle
  <2> QED  BY <2>4, <2>5 DEF HealthInv
<1>9. CASE UNCHANGED vars
  BY <1>9 DEF vars, HealthInv, timerVars
<1> QED
  BY <1>1, <1>2, <1>3, <1>4, <1>5, <1>6, <1>7, <1>8, <1>9 DEF Next, AgentStep

-----------------------------------------------------------------------------
(* The sensor schedule.                                                    *)

\* Each enabled sensor that is not failing was last sampled at a multiple of its
\* period, less than a period ago within a cycle and at most a period ago before
\* the next one.
FreshInv ==
  /\ sampledAt \in [Sensors -> Nat]
  /\ failing \subseteq Enabled
  /\ \A s \in Enabled \ failing :
       /\ sampledAt[s] % Period[s] = 0
       /\ sampledAt[s] <= tick_count
       /\ IF InCycle THEN tick_count < sampledAt[s] + Period[s]
                     ELSE tick_count <= sampledAt[s] + Period[s]

\* The failures of a tick are those of the sensors due in it.
FailureInv ==
  InCycle => frame.sensor_failures = Cardinality({s \in failing : tick_count % Period[s] = 0})

\* A tick one period after a multiple of the period is a multiple itself.
LEMMA NextMultiple ==
  ASSUME NEW a \in Nat, NEW p \in Nat \ {0}, a % p = 0
  PROVE  (a + p) % p = 0
<1> DEFINE q == a \div p
<1> DEFINE d == (a + p) \div p
<1> DEFINE r == (a + p) % p
<1>1. q \in Int /\ d \in Int /\ r \in 0..(p - 1)  OBVIOUS
<1>2. a = p * q  OBVIOUS
<1>3. a + p = p * d + r  OBVIOUS
<1> HIDE DEF q, d, r
<1>4. r = p * ((q + 1) - d)  BY <1>1, <1>2, <1>3
<1>5. (q + 1) - d >= 1 => p * ((q + 1) - d) >= p  BY <1>1
<1>6. (q + 1) - d <= -1 => p * ((q + 1) - d) <= -p  BY <1>1
<1>7. r = 0  BY <1>1, <1>4, <1>5, <1>6
<1> QED  BY <1>7 DEF r

\* run_for_ticks() asks should_sample_every() of every enabled sensor in every
\* tick: the sensor whose period has just passed is due.
LEMMA NextFresh == TimerInv /\ FreshInv /\ [Next]_vars => FreshInv'
<1> SUFFICES ASSUME TimerInv, FreshInv, [Next]_vars PROVE FreshInv'  OBVIOUS
<1>0. /\ Period \in [Sensors -> Nat \ {0}] /\ Enabled \subseteq Sensors
      /\ tick_count \in Nat
  BY AgentAssumption DEF TimerInv
<1>1. CASE CollectSensors
  <2>1. PICK failed \in SUBSET Due :
          /\ sampledAt' = [s \in Sensors |-> IF s \in Due \ failed THEN tick_count
                                                                ELSE sampledAt[s]]
          /\ failing' = (failing \ Due) \cup failed
    BY <1>1, Zenon DEF CollectSensors
  <2>2. phase' = "compute" /\ tick_count' = tick_count /\ ~InCycle
    BY <1>1 DEF CollectSensors, InCycle
  <2>3. sampledAt' \in [Sensors -> Nat]  BY <1>0, <2>1 DEF FreshInv
  <2>4. failing' \subseteq Enabled  BY <2>1 DEF FreshInv, Due
  <2>5. ASSUME NEW s \in Enabled \ failing'
        PROVE  /\ sampledAt'[s] % Period[s] = 0
               /\ sampledAt'[s] <= tick_count
               /\ tick_count < sampledAt'[s] + Period[s]
    <3>1. s \in Sensors /\ Period[s] \in Nat \ {0} /\ sampledAt[s] \in Nat
      BY <1>0, <2>5 DEF FreshInv
    <3>2. CASE s \in Due
      <4>1. s \notin failed  BY <2>1, <2>5
      <4>2. sampledAt'[s] = tick_count  BY <2>1, <3>1, <3>2, <4>1
      <4> QED  BY <1>0, <3>1, <3>2, <4>2 DEF Due, ShouldSampleEvery
    <3>3. CASE s \notin Due
      <4>1. sampledAt'[s] = sampledAt[s] /\ s \notin failing  BY <2>1, <2>5, <3>1, <3>3
      <4>2. tick_count % Period[s] # 0  BY <2>5, <3>1, <3>3 DEF Due, ShouldSampleEvery
      <4>3. tick_count # sampledAt[s] + Period[s]
        BY <2>5, <3>1, <4>1, <4>2, NextMultiple DEF FreshInv
      <4> QED  BY <1>0, <2>2, <2>5, <3>1, <4>1, <4>3 DEF FreshInv
    <3> QED  BY <3>2, <3>3
  <2> QED  BY <2>2, <2>3, <2>4, <2>5 DEF FreshInv, InCycle
<1>2. CASE EndCycle
  <2>1. /\ InCycle /\ ~InCycle' /\ tick_count' = tick_count + 1 /\ UNCHANGED sampleVars
    BY <1>2 DEF EndCycle, InCycle
  <2>2. ASSUME NEW s \in Enabled \ failing
        PROVE  /\ sampledAt[s] <= tick_count + 1
               /\ tick_count + 1 <= sampledAt[s] + Period[s]
    BY <1>0, <2>1 DEF FreshInv
  <2> QED  BY <2>1, <2>2 DEF FreshInv, sampleVars
<1>3. CASE RunForTicks
  BY <1>3 DEF RunForTicks, FreshInv, InCycle, sampleVars
<1>4. CASE CheckConnectivity
  <2>1. phase = "check" /\ phase' \in {"check", "loop"} /\ UNCHANGED <<timerVars, sampleVars>>
    BY <1>4 DEF CheckConnectivity
  <2> QED  BY <2>1 DEF FreshInv, timerVars, sampleVars, InCycle
<1>5. CASE PublishSinks
  <2>1. phase = "publish" /\ phase' \in {"sink", "health"} /\ UNCHANGED <<timerVars, sampleVars>>
    BY <1>5 DEF PublishSinks
  <2> QED  BY <2>1 DEF FreshInv, timerVars, sampleVars, InCycle
<1>6. CASE Exit \/ Compute \/ SinkPublishes \/ PublishReturned \/ WakeUp \/ Signal
           \/ Elapse \/ UNCHANGED vars
  <2>1. UNCHANGED <<timerVars, sampleVars>> /\ InCycle' = InCycle
    BY <1>6 DEF Exit, Compute, SinkPublishes, PublishReturned, WakeUp, Signal, Elapse,
                vars, InCycle
  <2> QED  BY <2>1 DEF FreshInv, timerVars, sampleVars
<1> QED  BY <1>1, <1>2, <1>3, <1>4, <1>5, <1>6 DEF Next, AgentStep

\* The failures are counted from 0 in every tick, and nothing else counts them.
LEMMA NextFailures ==
  TimerInv /\ HealthInv /\ FreshInv /\ FailureInv /\ [Next]_vars => FailureInv'
<1> SUFFICES ASSUME TimerInv, HealthInv, FreshInv, FailureInv, [Next]_vars PROVE FailureInv'
  OBVIOUS
<1>1. CASE CollectSensors
  <2>1. PICK failed \in SUBSET Due :
          /\ frame' = [frame EXCEPT !.sensor_failures = Cardinality(failed)]
          /\ failing' = (failing \ Due) \cup failed
    BY <1>1, Zenon DEF CollectSensors
  <2>2. tick_count' = tick_count  BY <1>1 DEF CollectSensors
  <2>3. \A s \in Enabled : s \in Due <=> tick_count % Period[s] = 0
    BY AgentAssumption DEF Due, ShouldSampleEvery
  <2>4. failing \subseteq Enabled /\ failed \subseteq Enabled  BY DEF FreshInv, Due
  <2>5. {s \in failing' : tick_count % Period[s] = 0} = failed
    BY <2>1, <2>3, <2>4
  <2>6. frame'.sensor_failures = Cardinality(failed)  BY <2>1 DEF HealthInv, Health
  <2> QED  BY <2>2, <2>5, <2>6 DEF FailureInv
<1>2. CASE EndCycle \/ RunForTicks
  BY <1>2 DEF EndCycle, RunForTicks, FailureInv, InCycle
<1>3. CASE CheckConnectivity
  <2>1. phase' \in {"check", "loop"}  BY <1>3 DEF CheckConnectivity
  <2> QED  BY <2>1 DEF FailureInv, InCycle
<1>4. CASE PublishSinks
  <2>1. /\ InCycle /\ UNCHANGED <<timerVars, sampleVars>>
        /\ frame' = [frame EXCEPT !.redis_errors = 0]
    BY <1>4 DEF PublishSinks, ResetErrors, InCycle
  <2>2. frame'.sensor_failures = frame.sensor_failures  BY <2>1 DEF HealthInv, Health
  <2> QED  BY <2>1, <2>2 DEF FailureInv, timerVars, sampleVars
<1>5. CASE PublishReturned
  <2>1. InCycle /\ UNCHANGED <<timerVars, sampleVars>>  BY <1>5 DEF PublishReturned, InCycle
  <2>2. frame'.sensor_failures = frame.sensor_failures
    BY <1>5 DEF PublishReturned, HealthInv, Health
  <2> QED  BY <2>1, <2>2 DEF FailureInv, timerVars, sampleVars
<1>6. CASE Exit \/ Compute \/ SinkPublishes \/ WakeUp \/ Signal \/ Elapse \/ UNCHANGED vars
  <2>1. UNCHANGED <<timerVars, sampleVars, frame>> /\ InCycle' = InCycle
    BY <1>6 DEF Exit, Compute, SinkPublishes, WakeUp, Signal, Elapse, vars, InCycle
  <2> QED  BY <2>1 DEF FailureInv, timerVars, sampleVars
<1> QED  BY <1>1, <1>2, <1>3, <1>4, <1>5, <1>6 DEF Next, AgentStep

-----------------------------------------------------------------------------
(* The inductive invariant, and what it gives.                             *)

IInv ==
  /\ TimerInv /\ SignalInv /\ LogInv /\ MissedInv /\ HealthInv /\ FreshInv /\ FailureInv
  /\ delivered \in Nat

\* Only a TS.MADD the server executes counts as a delivery; a call starts over.
LEMMA NextDelivered ==
  ASSUME delivered \in Nat, [Next]_vars
  PROVE  /\ delivered' \in Nat
         /\ delivered' > delivered => SinkPublishes /\ published' = frame
<1>1. CASE CheckConnectivity
  <2>1. delivered' \in {0, delivered}
    BY <1>1 DEF CheckConnectivity, sinkVars, Sink!Call, Sink!EstablishAndReturn,
                Sink!GiveUp, Sink!ReturnFailed
  <2> QED  BY <2>1
<1>2. CASE PublishSinks
  <2>1. delivered' \in {0, delivered}  BY <1>2 DEF PublishSinks, sinkVars, Sink!Call
  <2> QED  BY <2>1
<1>3. CASE SinkPublishes
  <2>1. CASE Sink!Establish \/ Sink!GiveUp \/ Sink!ReturnFailed
    BY <2>1 DEF Sink!Establish, Sink!GiveUp, Sink!ReturnFailed
  <2>2. CASE Sink!Deliver /\ published' = frame
    BY <1>3, <2>2 DEF Sink!Deliver
  <2> QED  BY <1>3, <2>1, <2>2 DEF SinkPublishes
<1>4. CASE Exit \/ RunForTicks \/ CollectSensors \/ Compute \/ PublishReturned
           \/ EndCycle \/ WakeUp \/ Signal \/ Elapse \/ UNCHANGED vars
  <2>1. UNCHANGED sinkVars
    BY <1>4 DEF Exit, RunForTicks, CollectSensors, Compute, PublishReturned, EndCycle,
                WakeUp, Signal, Elapse, vars
  <2> QED  BY <2>1 DEF sinkVars
<1> QED  BY <1>1, <1>2, <1>3, <1>4 DEF Next, AgentStep

\* The constructor establishes it.
LEMMA InitIInv == Init => IInv
<1> SUFFICES ASSUME Init PROVE IInv  OBVIOUS
<1>1. TimerInv  BY InitTimer
<1>2. SignalInv  BY DEF Init, SignalInv, InCycle
<1>3. LogInv  BY DEF Init, LogInv
<1>4. MissedInv  BY DEF Init, MissedInv, NoHealth
<1>5. HealthInv
  <2>1. Cardinality(Enabled) \in Nat
    BY AgentAssumption, FS_Subset, FS_CardinalityType
  <2>2. NoHealth \in Health  BY <2>1 DEF NoHealth, Health
  <2> QED  BY <2>2 DEF Init, HealthInv, NoHealth
<1>6. delivered \in Nat  BY DEF Init, Sink!Init
<1>7. FreshInv
  <2>1. \A s \in Enabled : Period[s] \in Nat \ {0} /\ 0 % Period[s] = 0
    BY AgentAssumption
  <2> QED  BY <2>1, AgentAssumption DEF Init, FreshInv, InCycle
<1>8. FailureInv  BY DEF Init, FailureInv, InCycle
<1> QED  BY <1>1, <1>2, <1>3, <1>4, <1>5, <1>6, <1>7, <1>8 DEF IInv

\* Every step of the agent, the clock and the signal keeps it.
LEMMA NextIInv == IInv /\ [Next]_vars => IInv'
  BY NextTimer, NextSignal, NextLog, NextMissed, NextHealth, NextFresh, NextFailures,
     NextDelivered
  DEF IInv, HealthInv

\* It holds in every state the agent reaches.
LEMMA Inductive == Spec => []IInv
  BY InitIInv, NextIInv, PTL DEF Spec

\* run_for_ticks() never starts tick k before start + k*T, whatever cycles
\* overrun before it, and the back-to-back ticks after an overrun lose none.
THEOREM Schedule == Spec => []OnSchedule
<1>1. TimerInv /\ InCycle => cycle_start >= start + tick_count * T
  BY DEF TimerInv, InCycle
<1>2. ASSUME TimerInv, phase = "sleep", now < next_wakeup
      PROVE  /\ start + (tick_count - 1) * T <= now
             /\ now < start + tick_count * T
  <2>1. /\ now \in Nat /\ start \in Nat /\ tick_count \in Nat /\ T \in Nat
        /\ next_wakeup = start + tick_count * T /\ now + T >= next_wakeup
    BY <1>2, AgentAssumption DEF TimerInv
  <2>2. (tick_count - 1) * T = tick_count * T - T  BY <2>1
  <2>3. tick_count * T \in Nat  BY <2>1
  <2> QED  BY <1>2, <2>1, <2>2, <2>3
<1>3. IInv => OnSchedule  BY <1>1, <1>2 DEF IInv, OnSchedule
<1> QED  BY Inductive, <1>3, PTL

\* Whatever periods the sensors are registered with, and however long the agent
\* has run, a cycle that publishes a reading of a period ago or more has counted
\* the failure of the sensor's last sample in the tick it failed in.
THEOREM Freshness == Spec => []SamplesFresh
<1>1. ASSUME IInv PROVE SamplesFresh
  <2>1. ASSUME InCycle, NEW s \in Enabled \ failing
        PROVE  tick_count - sampledAt[s] < Period[s]
    <3>1. /\ tick_count \in Nat /\ sampledAt[s] \in Nat /\ Period[s] \in Nat
          /\ tick_count < sampledAt[s] + Period[s]
      BY <1>1, <2>1, AgentAssumption DEF IInv, TimerInv, FreshInv
    <3> QED  BY <3>1
  <2> QED  BY <1>1, <2>1 DEF IInv, FailureInv, SamplesFresh
<1> QED  BY Inductive, <1>1, PTL

\* SIGTERM lets at most the tick in progress finish.
THEOREM LastTick == Spec => []NoTickAfterSignal
<1>1. IInv => NoTickAfterSignal  BY DEF IInv, SignalInv, NoTickAfterSignal
<1> QED  BY Inductive, <1>1, PTL

\* "[redis] publish failed" is the last line the agent wrote about Redis exactly
\* while the last publish failed: the lines of publish_sinks() alternate, and
\* those of the constructor come before all of them.
THEOREM LogSafety == Spec => []LogTellsState
<1>1. IInv => LogTellsState  BY DEF IInv, LogInv, LogTellsState
<1> QED  BY Inductive, <1>1, PTL

\* The missed-cycle counter that reaches Redis is the one of the cycles before.
THEOREM MissedLag == Spec => MissedCyclesLagOne
<1>1. ASSUME IInv, [Next]_vars
      PROVE  [delivered' > delivered /\ publish_health
                => published'.missed_cycles = overruns]_vars
  <2> SUFFICES ASSUME delivered' > delivered, publish_health, Next
               PROVE  published'.missed_cycles = overruns
    BY <1>1
  <2>1. frame.missed_cycles = overruns  BY <1>1 DEF IInv, MissedInv
  <2>2. published' = frame  BY <1>1, NextDelivered DEF IInv
  <2> QED  BY <2>1, <2>2
<1> QED  BY Inductive, <1>1, PTL DEF Spec, MissedCyclesLagOne
=============================================================================

------------------------------ MODULE RiskModel ------------------------------
(***************************************************************************)
(* What Agent::compute_derived() and Agent::compute_risk() do to a frame   *)
(* each tick: six smoothed pressures, two smoothed risks and the           *)
(* STABLE..CRITICAL state with hysteresis.                                 *)
(*                                                                         *)
(* Scores are integers in 0..S (S stands for 1.0) and every weighted sum   *)
(* is rounded down; the raw signals enter already divided by their full    *)
(* scale, except the two whose scaling keeps state or can saturate: the    *)
(* interrupt count and the thermal headroom.                               *)
(***************************************************************************)
EXTENDS Integers

CONSTANTS S,                \* the score 1.0
          Window,           \* warning_window_c_, in degrees
          Frames,           \* the raw signals a tick may see
          Churn             \* bound: ticks whose signals differ

Signals == {"cpu", "psi", "softirqs", "dirty", "psi_memory", "disk", "network",
            "psi_io", "throttle", "temporal", "irq", "thermal"}
Norms == Signals \ {"irq", "thermal"}

\* Thresholds are percentages of S, so S is a multiple of 100.
ASSUME RiskAssumption ==
  /\ S \in Nat \ {0} /\ S % 100 = 0
  /\ Window \in Nat \ {0}
  /\ \A f \in Frames : /\ \A n \in Norms : f[n] \in 0..S
                       /\ f["irq"] \in Nat
                       /\ f["thermal"] \in Int
  /\ Churn \in Nat

VARIABLES
  frame,                    \* the raw signals of the last tick
  pressure,                 \* ema_ of each derived metric
  realtime_risk,            \* ema_ of RealtimeRisk
  saturation_risk,          \* ema_ of SaturationRisk
  irq_baseline,             \* irq_baseline_, in units of 1/S interrupts
  has_ema,                  \* has_ema_ and has_irq_baseline_ of all of them
  state,                    \* state_: 0 STABLE .. 3 CRITICAL
  changes,                  \* ticks whose signals differed from the previous
  age,                      \* history: ticks so far, up to 3
  direction,                \* history: the last state change, up or down
  turningRisk               \* history: the risk at the last state change

vars == <<frame, pressure, realtime_risk, saturation_risk, irq_baseline, has_ema,
          state, changes, age, direction, turningRisk>>

Pressures == {"scheduler", "memory", "io", "thermal", "power", "latency"}

Greater(a, b) == IF a > b THEN a ELSE b

\* max_risk()
MaxRisk(rt, sat) == Greater(rt, sat)

Risk == MaxRisk(realtime_risk, saturation_risk)

TypeOK ==
  /\ frame \in Frames
  /\ pressure \in [Pressures -> 0..S]
  /\ realtime_risk \in 0..S /\ saturation_risk \in 0..S
  /\ irq_baseline \in Nat
  /\ has_ema \in BOOLEAN
  /\ state \in 0..3
  /\ changes \in 0..Churn
  /\ age \in 0..3
  /\ direction \in {"none", "up", "down"}
  /\ turningRisk \in 0..S

Init ==
  /\ frame \in Frames
  /\ pressure = [p \in Pressures |-> 0]
  /\ realtime_risk = 0 /\ saturation_risk = 0
  /\ irq_baseline = S
  /\ has_ema = FALSE
  /\ state = 0
  /\ changes = 0
  /\ age = 0
  /\ direction = "none"
  /\ turningRisk = 0

-----------------------------------------------------------------------------

Clamp01(x) == IF x < 0 THEN 0 ELSE IF x > S THEN S ELSE x

Percent(x) == x \div 100

\* The exponential moving average every score goes through; the first sample
\* is taken as it is.  The mutants weight the wrong side, hold the peak, and
\* forget to store the update.
SmoothSwapped(ema, raw, alpha) ==
  IF has_ema THEN Percent(alpha * ema + (100 - alpha) * raw) ELSE raw
SmoothPeak(ema, raw, alpha) ==
  IF has_ema /\ raw <= ema THEN ema
  ELSE IF has_ema THEN Percent((100 - alpha) * ema + alpha * raw) ELSE raw
SmoothFrozen(ema, raw, alpha) == IF has_ema THEN ema ELSE raw
Smooth(ema, raw, alpha) ==
  IF has_ema THEN Percent((100 - alpha) * ema + alpha * raw) ELSE raw

\* The interrupt baseline follows the count slowly and never drops below 1;
\* its mutant forgets to follow.
IrqBaselineFixed(irq) == IF has_ema THEN irq_baseline ELSE Greater(S * irq, S)
IrqBaseline(irq) ==
  Greater(S, IF has_ema THEN (9 * irq_baseline + S * irq) \div 10 ELSE S * irq)

IrqRatio(irq, baseline) == (S * S * irq) \div (2 * baseline + S)

IrqNorm(irq, baseline) == Clamp01(((2 * IrqRatio(irq, baseline)) - S) \div 3)

HeadroomPressure(thermal) == Clamp01((S * (Window - thermal)) \div Window)

SchedulerScore(f, baseline) ==
  Percent(40 * f["cpu"] + 35 * f["psi"] + 15 * IrqNorm(f["irq"], baseline) + 10 * f["softirqs"])
MemoryScore(f) == Percent(70 * f["dirty"] + 30 * f["psi_memory"])
IoScore(f) == Percent(70 * f["disk"] + 20 * f["network"] + 10 * f["psi_io"])
ThermalScore(f) ==
  Percent(70 * HeadroomPressure(f["thermal"]) + 20 * f["throttle"] + 10 * f["cpu"])
PowerScore(f, thermal) == Percent(75 * f["throttle"] + 15 * f["cpu"] + 10 * thermal)
LatencyScore(f, scheduler, io) == Percent(60 * f["temporal"] + 25 * scheduler + 15 * io)

\* Mutant of RealtimeScore: weights that add up to more than 1.
RealtimeScoreHeavy(p) ==
  Percent(55 * p["latency"] + 25 * p["scheduler"] + 15 * p["thermal"] + 55 * p["io"])

RealtimeScore(p) ==
  Percent(55 * p["latency"] + 25 * p["scheduler"] + 15 * p["thermal"] + 5 * p["io"])
SaturationScore(p) ==
  Percent(30 * p["scheduler"] + 25 * p["memory"] + 20 * p["io"]
          + 15 * p["power"] + 10 * p["thermal"])

\* compute_derived(): the later pressures use the earlier ones of this tick.
ComputeDerived(f, baseline) ==
  LET scheduler == Smooth(pressure["scheduler"], SchedulerScore(f, baseline), 30)
      memory    == Smooth(pressure["memory"], MemoryScore(f), 25)
      io        == Smooth(pressure["io"], IoScore(f), 25)
      thermal   == Smooth(pressure["thermal"], ThermalScore(f), 20)
      power     == Smooth(pressure["power"], PowerScore(f, thermal), 25)
      latency   == Smooth(pressure["latency"], LatencyScore(f, scheduler, io), 30)
  IN  [scheduler |-> scheduler, memory |-> memory, io |-> io,
       thermal |-> thermal, power |-> power, latency |-> latency]

\* The risk, in percent, that raises the state s and the one that lowers it.
\* The mutant of Lower has no gap between the two.
Raise(s) == IF s = 0 THEN 45 ELSE IF s = 1 THEN 70 ELSE 88
LowerNoGap(s) == IF s = 1 THEN 44 ELSE IF s = 2 THEN 69 ELSE 87
Lower(s) == IF s = 1 THEN 30 ELSE IF s = 2 THEN 55 ELSE 78

\* SystemState::sample(): at most one level per tick.
NextState(s, risk) ==
  IF s < 3 /\ 100 * risk >= Raise(s) * S THEN s + 1
  ELSE IF s > 0 /\ 100 * risk <= Lower(s) * S THEN s - 1
  ELSE s

\* One tick with the raw signals f.
Tick(f) ==
  /\ f # frame => changes < Churn
  /\ changes' = IF f # frame THEN changes + 1 ELSE changes
  /\ frame' = f
  /\ irq_baseline' = IrqBaseline(f["irq"])
  /\ pressure' = ComputeDerived(f, irq_baseline')
  /\ realtime_risk' = Smooth(realtime_risk, RealtimeScore(pressure'), 35)
  /\ saturation_risk' = Smooth(saturation_risk, SaturationScore(pressure'), 18)
  /\ has_ema' = TRUE
  /\ state' = NextState(state, Risk')
  /\ age' = IF age < 3 THEN age + 1 ELSE age
  /\ IF state' = state
       THEN UNCHANGED <<direction, turningRisk>>
       ELSE /\ direction' = IF state' > state THEN "up" ELSE "down"
            /\ turningRisk' = Risk'

Next == \E f \in Frames : Tick(f)

\* The agent keeps ticking.
Spec == Init /\ [][Next]_vars /\ WF_vars(Next)

-----------------------------------------------------------------------------
(* Properties.                                                             *)

\* The state never reverses its direction unless the risk has moved by at
\* least a tenth of the scale since it last changed: noise below that cannot
\* make it flap.
NoFlapping ==
  [][ state' # state /\ direction' # direction /\ direction # "none"
        => 100 * (IF Risk' > turningRisk THEN Risk' - turningRisk
                                         ELSE turningRisk - Risk') >= 10 * S ]_vars

\* What a risk r may be while the state s is reported.  UNSTABLE's lower
\* bound is 0.50, not the 0.55 at which it is left: right after UNSTABLE is
\* entered from CRITICAL the risk may already be below that.
Fits(s, r) ==
  /\ s = 0 => 100 * r < 45 * S
  /\ s = 1 => 100 * r > 30 * S /\ 100 * r < 70 * S
  /\ s = 2 => 100 * r > 50 * S /\ 100 * r < 88 * S
  /\ s = 3 => 100 * r > 78 * S

\* Although the state moves one level per tick, the smoothing keeps the risk
\* from outrunning it: after the third tick a risk at or below 0.30 always
\* reads STABLE, one at or above 0.88 always CRITICAL, and no state is
\* reported with a risk its neighbours' thresholds exclude.
StateKeepsUp == age = 3 => Fits(state, Risk)

IrqIsQuiet == \E f \in {frame} : IrqNorm(f["irq"], irq_baseline) = 0

\* Signals that stop changing leave no interrupt pressure, however many
\* interrupts they bring: the baseline catches up.  (Churn bounds the changes,
\* so in every behaviour the signals do stop changing.)
IrqForgiven == <>[]IrqIsQuiet

IdleFrame == frame["thermal"] >= Window /\ \A n \in Norms : frame[n] = 0
OverloadFrame == frame["thermal"] <= 0 /\ \A n \in Norms : frame[n] = S

\* A machine that stays idle returns to STABLE, whatever happened before.  One
\* whose every signal stays at its limit is reported CRITICAL, although by then
\* its interrupt count is the baseline and scores nothing.
SteadySettles ==
  /\ <>[]IdleFrame => <>[](state = 0)
  /\ <>[]OverloadFrame => <>[](state = 3)
=============================================================================

--------------------------- MODULE RiskModelProofs ---------------------------
(***************************************************************************)
(* Proofs about RiskModel, for every scale S, every set of signals and any *)
(* number of changes: all scores stay in 0..S, the state keeps up with the *)
(* risk, and it does not flap.                                             *)
(***************************************************************************)
EXTENDS RiskModel, TLAPS

-----------------------------------------------------------------------------
(* The operators.                                                          *)

\* core::clamp01() keeps every score within the scale.
LEMMA ClampBounds == ASSUME NEW x \in Int PROVE Clamp01(x) \in 0..S
  BY RiskAssumption DEF Clamp01

\* A weighted sum whose weights add up to at most 100 stays within the scale.
LEMMA PercentBounds ==
  ASSUME NEW x \in Int, 0 <= x, x <= 100 * S
  PROVE  Percent(x) \in 0..S
  BY RiskAssumption DEF Percent

\* A moving average of scores is a score, for the five weights the code uses.
LEMMA SmoothBounds ==
  ASSUME NEW ema \in 0..S, NEW raw \in 0..S, has_ema \in BOOLEAN,
         NEW alpha \in {18, 20, 25, 30, 35}
  PROVE  Smooth(ema, raw, alpha) \in 0..S
<1>1. ASSUME NEW a \in 0..100, a \in {18, 20, 25, 30, 35}
      PROVE  0 <= (100 - a) * ema + a * raw /\ (100 - a) * ema + a * raw <= 100 * S
  BY <1>1, RiskAssumption
<1>2. Percent((100 - alpha) * ema + alpha * raw) \in 0..S
  BY <1>1, PercentBounds, RiskAssumption
<1> QED  BY <1>2 DEF Smooth

\* One tick moves the risk down to 65 and up by 35 hundredths of the scale at
\* most: RealtimeRisk's weight, the larger of the two.
LEMMA RiskStep ==
  ASSUME NEW rt \in 0..S, NEW sat \in 0..S, NEW x \in 0..S, NEW y \in 0..S, has_ema
  PROVE  LET new == MaxRisk(Smooth(rt, x, 35), Smooth(sat, y, 18)) IN
         /\ 65 * MaxRisk(rt, sat) - 99 <= 100 * new
         /\ 100 * new <= 65 * MaxRisk(rt, sat) + 35 * S
  BY RiskAssumption DEF MaxRisk, Greater, Smooth, Percent

\* SystemState::sample() always yields one of the four states.
LEMMA NextStateType ==
  ASSUME NEW s \in 0..3, NEW risk \in Int
  PROVE  NextState(s, risk) \in 0..3
  BY RiskAssumption DEF NextState, Raise, Lower

-----------------------------------------------------------------------------
(* Type correctness.                                                       *)

\* A set of raw signals as Frames has them.
IsFrame(f) == /\ \A n \in Norms : f[n] \in 0..S
              /\ f["irq"] \in Nat
              /\ f["thermal"] \in Int

\* SchedulerPressure's interrupt baseline is a natural number and never
\* reaches zero.
LEMMA BaselineType ==
  ASSUME NEW irq \in Nat, irq_baseline \in Nat, has_ema \in BOOLEAN
  PROVE  IrqBaseline(irq) \in Nat /\ IrqBaseline(irq) >= S
<1>1. S \in Nat /\ S * irq \in Nat  BY RiskAssumption
<1>2. (9 * irq_baseline + S * irq) \div 10 \in Nat  BY <1>1
<1> QED  BY <1>1, <1>2 DEF IrqBaseline, Greater

\* The interrupt pressure is a score.
LEMMA IrqNormType ==
  ASSUME NEW irq \in Nat, NEW baseline \in Nat
  PROVE  IrqNorm(irq, baseline) \in 0..S
<1>1. S \in Nat /\ S > 0 /\ S * S * irq \in Nat /\ 2 * baseline + S \in Nat \ {0}
  BY RiskAssumption
<1>2. IrqRatio(irq, baseline) \in Nat  BY <1>1 DEF IrqRatio
<1>3. ((2 * IrqRatio(irq, baseline)) - S) \div 3 \in Int  BY <1>1, <1>2
<1> QED  BY <1>3, ClampBounds DEF IrqNorm

\* The headroom pressure is a score, whatever the temperature.
LEMMA HeadroomType ==
  ASSUME NEW thermal \in Int
  PROVE  HeadroomPressure(thermal) \in 0..S
<1>1. S * (Window - thermal) \in Int /\ Window \in Nat \ {0}  BY RiskAssumption
<1>2. (S * (Window - thermal)) \div Window \in Int  BY <1>1
<1> QED  BY <1>2, ClampBounds DEF HeadroomPressure

\* The six pressures of a tick are scores.
LEMMA PressureType ==
  ASSUME NEW f, IsFrame(f), NEW baseline \in Nat,
         pressure \in [Pressures -> 0..S], has_ema \in BOOLEAN
  PROVE  ComputeDerived(f, baseline) \in [Pressures -> 0..S]
<1>1. S \in Nat /\ \A p \in Pressures : pressure[p] \in 0..S  BY RiskAssumption
<1>2. SchedulerScore(f, baseline) \in 0..S
  <2>1. f["cpu"] \in 0..S /\ f["psi"] \in 0..S /\ f["softirqs"] \in 0..S
    BY DEF IsFrame, Norms, Signals
  <2>2. PICK q \in 0..S : q = IrqNorm(f["irq"], baseline)  BY IrqNormType DEF IsFrame
  <2>3. PICK sum \in 0..(100 * S) :
          sum = 40 * f["cpu"] + 35 * f["psi"] + 15 * q + 10 * f["softirqs"]
    BY <1>1, <2>1
  <2>4. Percent(sum) \in 0..S  BY <1>1, PercentBounds
  <2> QED  BY <2>2, <2>3, <2>4 DEF SchedulerScore
<1>3. MemoryScore(f) \in 0..S
  <2>1. f["dirty"] \in 0..S /\ f["psi_memory"] \in 0..S  BY DEF IsFrame, Norms, Signals
  <2> QED  BY <1>1, <2>1, PercentBounds DEF MemoryScore
<1>4. IoScore(f) \in 0..S
  <2>1. f["disk"] \in 0..S /\ f["network"] \in 0..S /\ f["psi_io"] \in 0..S
    BY DEF IsFrame, Norms, Signals
  <2> QED  BY <1>1, <2>1, PercentBounds DEF IoScore
<1>5. ThermalScore(f) \in 0..S
  <2>1. /\ f["throttle"] \in 0..S /\ f["cpu"] \in 0..S
        /\ HeadroomPressure(f["thermal"]) \in 0..S
    BY HeadroomType DEF IsFrame, Norms, Signals
  <2> QED  BY <1>1, <2>1, PercentBounds DEF ThermalScore
<1>6. ASSUME NEW t \in 0..S PROVE PowerScore(f, t) \in 0..S
  <2>1. f["throttle"] \in 0..S /\ f["cpu"] \in 0..S  BY DEF IsFrame, Norms, Signals
  <2> QED  BY <1>1, <1>6, <2>1, PercentBounds DEF PowerScore
<1>7. ASSUME NEW s \in 0..S, NEW i \in 0..S PROVE LatencyScore(f, s, i) \in 0..S
  <2>1. f["temporal"] \in 0..S  BY DEF IsFrame, Norms, Signals
  <2> QED  BY <1>1, <1>7, <2>1, PercentBounds DEF LatencyScore
<1> DEFINE scheduler == Smooth(pressure["scheduler"], SchedulerScore(f, baseline), 30)
           memory    == Smooth(pressure["memory"], MemoryScore(f), 25)
           io        == Smooth(pressure["io"], IoScore(f), 25)
           thermal   == Smooth(pressure["thermal"], ThermalScore(f), 20)
           power     == Smooth(pressure["power"], PowerScore(f, thermal), 25)
           latency   == Smooth(pressure["latency"], LatencyScore(f, scheduler, io), 30)
<1>8. scheduler \in 0..S /\ memory \in 0..S /\ io \in 0..S /\ thermal \in 0..S
  BY <1>1, <1>2, <1>3, <1>4, <1>5, SmoothBounds DEF Pressures
<1>9. power \in 0..S
  <2>1. PowerScore(f, thermal) \in 0..S  BY <1>6, <1>8
  <2> QED  BY <1>1, <2>1, SmoothBounds DEF Pressures
<1>10. latency \in 0..S
  <2>1. LatencyScore(f, scheduler, io) \in 0..S  BY <1>7, <1>8
  <2> QED  BY <1>1, <2>1, SmoothBounds DEF Pressures
<1> HIDE DEF scheduler, memory, io, thermal, power, latency
<1>11. ComputeDerived(f, baseline) =
         [scheduler |-> scheduler, memory |-> memory, io |-> io,
          thermal |-> thermal, power |-> power, latency |-> latency]
  BY DEF ComputeDerived, scheduler, memory, io, thermal, power, latency
<1> QED  BY <1>8, <1>9, <1>10, <1>11 DEF Pressures

\* The conjuncts of TypeOK that describe the scores and the state.
ScoreTypeOK ==
  /\ pressure \in [Pressures -> 0..S]
  /\ realtime_risk \in 0..S /\ saturation_risk \in 0..S
  /\ irq_baseline \in Nat
  /\ has_ema \in BOOLEAN
  /\ state \in 0..3

\* A tick keeps the scores in the scale, and takes both risks from the new
\* pressures: x and y are what they are smoothed towards.
LEMMA TickScores ==
  ASSUME ScoreTypeOK, NEW f \in Frames, Tick(f)
  PROVE  /\ ScoreTypeOK'
         /\ \E x, y \in 0..S : /\ realtime_risk' = Smooth(realtime_risk, x, 35)
                               /\ saturation_risk' = Smooth(saturation_risk, y, 18)
<1>1. IsFrame(f)  BY RiskAssumption DEF IsFrame
<1>2. irq_baseline' \in Nat  BY <1>1, BaselineType DEF ScoreTypeOK, Tick, IsFrame
<1>3. pressure' \in [Pressures -> 0..S]
  BY <1>1, <1>2, PressureType DEF ScoreTypeOK, Tick
<1>4. S \in Nat /\ \A p \in Pressures : pressure'[p] \in 0..S  BY <1>3, RiskAssumption
<1>5. PICK x \in 0..S : x = RealtimeScore(pressure')
  <2>1. PICK sum \in 0..(100 * S) :
          sum = 55 * pressure'["latency"] + 25 * pressure'["scheduler"]
                + 15 * pressure'["thermal"] + 5 * pressure'["io"]
    BY <1>4 DEF Pressures
  <2>2. Percent(sum) \in 0..S  BY <1>4, PercentBounds
  <2> QED  BY <2>1, <2>2 DEF RealtimeScore
<1>6. PICK y \in 0..S : y = SaturationScore(pressure')
  <2>1. PICK sum \in 0..(100 * S) :
          sum = 30 * pressure'["scheduler"] + 25 * pressure'["memory"]
                + 20 * pressure'["io"] + 15 * pressure'["power"]
                + 10 * pressure'["thermal"]
    BY <1>4 DEF Pressures
  <2>2. Percent(sum) \in 0..S  BY <1>4, PercentBounds
  <2> QED  BY <2>1, <2>2 DEF SaturationScore
<1>7. /\ realtime_risk' = Smooth(realtime_risk, x, 35)
      /\ saturation_risk' = Smooth(saturation_risk, y, 18)
  BY <1>5, <1>6 DEF Tick
<1>8. realtime_risk' \in 0..S /\ saturation_risk' \in 0..S
  BY <1>7, SmoothBounds DEF ScoreTypeOK
<1>9. has_ema' \in BOOLEAN  BY DEF Tick
<1>10. state' \in 0..3
  <2>1. Risk' \in Int  BY <1>4, <1>8 DEF Risk, MaxRisk, Greater
  <2> QED  BY <2>1, NextStateType DEF Tick, ScoreTypeOK
<1> QED  BY <1>2, <1>3, <1>7, <1>8, <1>9, <1>10 DEF ScoreTypeOK

-----------------------------------------------------------------------------
(* The inductive invariant.                                                *)

\* After the first and after the second tick the state, at most one level per
\* tick above STABLE, may still be behind a risk that started high.
FitsFirst(s, r) ==
  /\ s \in 0..1
  /\ s = 0 => 100 * r < 45 * S
  /\ s = 1 => 100 * r >= 45 * S
FitsSecond(s, r) ==
  /\ s \in 0..2
  /\ s = 0 => 100 * r < 45 * S
  /\ s = 1 => 100 * r > 30 * S /\ 100 * r < 70 * S
  /\ s = 2 => 100 * r >= 70 * S

Settling ==
  /\ age > 0 => has_ema
  /\ age = 0 => state = 0
  /\ age = 1 => FitsFirst(state, Risk)
  /\ age = 2 => FitsSecond(state, Risk)

\* A state reached on the way up was reached at its raising threshold or
\* above, one reached on the way down at its lowering threshold or below.
Turning ==
  /\ direction = "none" => state = 0
  /\ direction = "up"   => state > 0 /\ 100 * turningRisk >= Raise(state - 1) * S
  /\ direction = "down" => state < 3 /\ 100 * turningRisk <= Lower(state + 1) * S

HistoryTypeOK ==
  /\ frame \in Frames
  /\ changes \in 0..Churn
  /\ age \in 0..3
  /\ direction \in {"none", "up", "down"}
  /\ turningRisk \in 0..S

IInv == ScoreTypeOK /\ HistoryTypeOK /\ Settling /\ Turning /\ StateKeepsUp

\* The constructors' values satisfy the invariant.
LEMMA InitIInv == Init => IInv
<1> SUFFICES ASSUME Init PROVE IInv  OBVIOUS
<1>1. S \in Nat /\ Churn \in Nat  BY RiskAssumption
<1>2. ScoreTypeOK
  <2>1. pressure \in [Pressures -> 0..S]  BY <1>1 DEF Init
  <2>2. has_ema \in BOOLEAN  BY DEF Init
  <2> QED  BY <1>1, <2>1, <2>2 DEF Init, ScoreTypeOK
<1>3. HistoryTypeOK  BY <1>1 DEF Init, HistoryTypeOK
<1>4. Settling  BY DEF Init, Settling
<1>5. Turning  BY DEF Init, Turning
<1>6. StateKeepsUp  BY DEF Init, StateKeepsUp
<1> QED  BY <1>2, <1>3, <1>4, <1>5, <1>6 DEF IInv

\* SystemState::sample() case by case.
LEMMA NextStateCases ==
  ASSUME NEW s \in 0..3, NEW r \in Int
  PROVE  /\ s = 0 => NextState(s, r) = IF 100 * r >= 45 * S THEN 1 ELSE 0
         /\ s = 1 => NextState(s, r) = IF 100 * r >= 70 * S THEN 2
                                       ELSE IF 100 * r <= 30 * S THEN 0 ELSE 1
         /\ s = 2 => NextState(s, r) = IF 100 * r >= 88 * S THEN 3
                                       ELSE IF 100 * r <= 55 * S THEN 1 ELSE 2
         /\ s = 3 => NextState(s, r) = IF 100 * r <= 78 * S THEN 2 ELSE 3
  BY RiskAssumption DEF NextState, Raise, Lower

\* The arithmetic of the thresholds: a risk that fits the state before a tick
\* fits the state after it, because it moves by no more than RiskStep allows.
LEMMA LevelStep ==
  ASSUME NEW s \in 0..3, NEW r \in 0..S, NEW q \in 0..S,
         65 * r - 99 <= 100 * q, 100 * q <= 65 * r + 35 * S
  PROVE  /\ FitsFirst(s, r) => FitsSecond(NextState(s, q), q)
         /\ FitsSecond(s, r) => Fits(NextState(s, q), q)
         /\ Fits(s, r) => Fits(NextState(s, q), q)
<1>1. PICK h \in Nat : S = 100 * h /\ h > 0
  <2>1. S = 100 * (S \div 100) /\ S \div 100 \in Nat /\ S > 0  BY RiskAssumption
  <2>2. S \div 100 > 0  BY <2>1
  <2> S \div 100 \in Nat  BY <2>1
  <2> WITNESS S \div 100 \in Nat
  <2> QED  BY <2>1, <2>2
<1>2. PICK t \in 0..3 : t = NextState(s, q)  BY <1>1, NextStateType
<1>3. /\ s = 0 => t = IF 100 * q >= 45 * S THEN 1 ELSE 0
      /\ s = 1 => t = IF 100 * q >= 70 * S THEN 2 ELSE IF 100 * q <= 30 * S THEN 0 ELSE 1
      /\ s = 2 => t = IF 100 * q >= 88 * S THEN 3 ELSE IF 100 * q <= 55 * S THEN 1 ELSE 2
      /\ s = 3 => t = IF 100 * q <= 78 * S THEN 2 ELSE 3
  BY <1>1, <1>2, NextStateCases
<1>4. FitsFirst(s, r) => FitsSecond(t, q)
  BY <1>1, <1>3 DEF FitsFirst, FitsSecond
<1>5. FitsSecond(s, r) => Fits(t, q)
  BY <1>1, <1>3 DEF FitsSecond, Fits
<1>6. Fits(s, r) => Fits(t, q)
  <2>1. CASE s = 0  BY <1>1, <1>3, <2>1 DEF Fits
  <2>2. CASE s = 1  BY <1>1, <1>3, <2>2 DEF Fits
  <2>3. CASE s = 2  BY <1>1, <1>3, <2>3 DEF Fits
  <2>4. CASE s = 3  BY <1>1, <1>3, <2>4 DEF Fits
  <2> QED  BY <2>1, <2>2, <2>3, <2>4
<1> QED  BY <1>2, <1>4, <1>5, <1>6

\* Smoothing keeps the risk within one level per tick of the state.
LEMMA StateStep ==
  ASSUME IInv, NEW f \in Frames, Tick(f)
  PROVE  Settling' /\ StateKeepsUp'
<1>1. ScoreTypeOK /\ ScoreTypeOK'  BY TickScores DEF IInv
<1>2. S \in Nat  BY RiskAssumption
<1>3. Risk \in 0..S /\ Risk' \in 0..S
  BY <1>1, <1>2 DEF ScoreTypeOK, Risk, MaxRisk, Greater
<1>4. has_ema => 65 * Risk - 99 <= 100 * Risk' /\ 100 * Risk' <= 65 * Risk + 35 * S
  <2>1. PICK x \in 0..S, y \in 0..S : /\ realtime_risk' = Smooth(realtime_risk, x, 35)
                                      /\ saturation_risk' = Smooth(saturation_risk, y, 18)
    BY TickScores DEF IInv
  <2> QED  BY <1>1, <2>1, RiskStep DEF ScoreTypeOK, Risk
<1>5. /\ age \in 0..3 /\ age' = IF age < 3 THEN age + 1 ELSE age
      /\ has_ema'
      /\ state \in 0..3
      /\ state' = NextState(state, Risk')
  BY DEF Tick, IInv, HistoryTypeOK, ScoreTypeOK
<1>6. CASE age = 0
  <2>1. state = 0  BY <1>6 DEF IInv, Settling
  <2>2. PICK q \in 0..S : q = Risk'  BY <1>3
  <2>3. FitsFirst(NextState(0, q), q)  BY <1>2, NextStateCases DEF FitsFirst
  <2>4. age' = 1  BY <1>5, <1>6
  <2> QED  BY <1>5, <2>1, <2>2, <2>3, <2>4 DEF Settling, StateKeepsUp
<1>7. CASE age = 1
  <2>1. has_ema /\ FitsFirst(state, Risk)  BY <1>7 DEF IInv, Settling
  <2>2. FitsSecond(state', Risk')  BY <1>3, <1>4, <1>5, <2>1, LevelStep
  <2>3. age' = 2  BY <1>5, <1>7
  <2> QED  BY <1>5, <2>2, <2>3 DEF Settling, StateKeepsUp
<1>8. CASE age = 2
  <2>1. has_ema /\ FitsSecond(state, Risk)  BY <1>8 DEF IInv, Settling
  <2>2. Fits(state', Risk')  BY <1>3, <1>4, <1>5, <2>1, LevelStep
  <2>3. age' = 3  BY <1>5, <1>8
  <2> QED  BY <1>5, <2>2, <2>3 DEF Settling, StateKeepsUp
<1>9. CASE age = 3
  <2>1. has_ema /\ Fits(state, Risk)  BY <1>9 DEF IInv, Settling, StateKeepsUp
  <2>2. Fits(state', Risk')  BY <1>3, <1>4, <1>5, <2>1, LevelStep
  <2>3. age' = 3  BY <1>5, <1>9
  <2> QED  BY <1>5, <2>2, <2>3 DEF Settling, StateKeepsUp
<1> QED  BY <1>5, <1>6, <1>7, <1>8, <1>9

\* The state only ever turns round at a threshold of the other direction.
LEMMA TurningStep ==
  ASSUME IInv, NEW f \in Frames, Tick(f)
  PROVE  Turning' /\ turningRisk' \in 0..S /\ direction' \in {"none", "up", "down"}
<1>1. S \in Nat /\ state \in 0..3 /\ turningRisk \in 0..S /\ Turning
  BY RiskAssumption DEF IInv, ScoreTypeOK, HistoryTypeOK
<1>2. PICK q \in 0..S : q = Risk'
  <2>1. ScoreTypeOK'  BY TickScores DEF IInv
  <2> QED  BY <1>1, <2>1 DEF ScoreTypeOK, Risk, MaxRisk, Greater
<1>3. state' = NextState(state, q)  BY <1>2 DEF Tick
<1>4. CASE state' = state
  <2>1. UNCHANGED <<direction, turningRisk, state>>  BY <1>4 DEF Tick
  <2> QED  BY <1>1, <2>1 DEF Turning, IInv, HistoryTypeOK
<1>5. CASE state < 3 /\ 100 * q >= Raise(state) * S
  <2>1. state' = state + 1  BY <1>3, <1>5 DEF NextState
  <2>2. direction' = "up" /\ turningRisk' = q
    BY <1>1, <1>2, <2>1 DEF Tick
  <2>3. state' - 1 = state /\ state' > 0  BY <1>1, <2>1
  <2> QED  BY <1>5, <2>2, <2>3 DEF Turning
<1>6. CASE ~(state < 3 /\ 100 * q >= Raise(state) * S)
           /\ state > 0 /\ 100 * q <= Lower(state) * S
  <2>1. state' = state - 1  BY <1>3, <1>6 DEF NextState
  <2>2. direction' = "down" /\ turningRisk' = q
    BY <1>1, <1>2, <2>1 DEF Tick
  <2>3. state' + 1 = state /\ state' < 3  BY <1>1, <2>1
  <2> QED  BY <1>6, <2>2, <2>3 DEF Turning
<1> QED  BY <1>3, <1>4, <1>5, <1>6 DEF NextState

\* Every tick, and every stutter, keeps the invariant.
LEMMA NextIInv == IInv /\ [Next]_vars => IInv'
<1> SUFFICES ASSUME IInv, [Next]_vars PROVE IInv'  OBVIOUS
<1>1. CASE UNCHANGED vars
  <2>1. ScoreTypeOK' /\ HistoryTypeOK'
    BY <1>1 DEF IInv, vars, ScoreTypeOK, HistoryTypeOK
  <2>2. Settling'  BY <1>1 DEF IInv, vars, Settling, Risk
  <2>3. Turning' /\ StateKeepsUp'  BY <1>1 DEF IInv, vars, Turning, StateKeepsUp, Risk
  <2> QED  BY <2>1, <2>2, <2>3 DEF IInv
<1>2. CASE Next
  <2>1. PICK f \in Frames : Tick(f)  BY <1>2 DEF Next
  <2>2. ScoreTypeOK'  BY <2>1, TickScores DEF IInv
  <2>3. Settling' /\ StateKeepsUp'  BY <2>1, StateStep
  <2>4. Turning' /\ turningRisk' \in 0..S /\ direction' \in {"none", "up", "down"}
    BY <2>1, TurningStep
  <2>5. frame' \in Frames /\ changes' \in 0..Churn /\ age' \in 0..3
    BY <2>1, RiskAssumption DEF Tick, IInv, HistoryTypeOK
  <2>6. HistoryTypeOK'  BY <2>4, <2>5 DEF HistoryTypeOK
  <2> QED  BY <2>2, <2>3, <2>4, <2>6 DEF IInv
<1> QED  BY <1>1, <1>2

\* The invariant holds for ever.
LEMMA SpecIInv == Spec => []IInv
  BY InitIInv, NextIInv, PTL DEF Spec

-----------------------------------------------------------------------------
(* The theorems.                                                           *)

\* Every pressure and risk stays a score in 0..S and the state one of four.
THEOREM ScoresBounded == Spec => []TypeOK
<1>1. IInv => TypeOK
  BY DEF IInv, ScoreTypeOK, HistoryTypeOK, TypeOK
<1> QED  BY <1>1, SpecIInv, PTL

\* From the third tick on the reported state fits the risk: moving one level
\* per tick is enough for SystemState::sample() to keep up.
THEOREM KeepsUp == Spec => []StateKeepsUp
<1>1. IInv => StateKeepsUp  BY DEF IInv
<1> QED  BY <1>1, SpecIInv, PTL

\* The state turns round only after the risk has moved by a tenth of the scale.
THEOREM Hysteresis == Spec => NoFlapping
<1> DEFINE Gap == 100 * (IF Risk' > turningRisk THEN Risk' - turningRisk
                                                ELSE turningRisk - Risk') >= 10 * S
<1>1. ASSUME IInv, IInv', Next, state' # state, direction' # direction,
             direction # "none"
      PROVE  Gap
  <2>1. PICK f \in Frames : Tick(f)  BY <1>1 DEF Next
  <2>2. S \in Nat /\ state \in 0..3 /\ turningRisk \in 0..S /\ Turning
    BY <1>1, RiskAssumption DEF IInv, ScoreTypeOK, HistoryTypeOK
  <2>3. PICK q \in 0..S : q = Risk'
    BY <1>1, <2>2 DEF IInv, ScoreTypeOK, Risk, MaxRisk, Greater
  <2>4. state' = NextState(state, q)  BY <2>1, <2>3 DEF Tick
  <2>5. direction' = IF state' > state THEN "up" ELSE "down"  BY <1>1, <2>1 DEF Tick
  <2>6. direction \in {"up", "down"}  BY <1>1 DEF IInv, HistoryTypeOK
  <2>7. CASE direction = "up"
    <3>1. state > 0 /\ 100 * turningRisk >= Raise(state - 1) * S  BY <2>2, <2>7 DEF Turning
    <3>2. 100 * q <= Lower(state) * S
      BY <1>1, <2>2, <2>4, <2>5, <2>7 DEF NextState
    <3>3. 100 * (turningRisk - q) >= 10 * S
      BY <2>2, <3>1, <3>2 DEF Raise, Lower
    <3>4. 100 * (IF q > turningRisk THEN q - turningRisk ELSE turningRisk - q) >= 10 * S
      BY <2>2, <3>3
    <3> QED  BY <2>3, <3>4
  <2>8. CASE direction = "down"
    <3>1. state < 3 /\ 100 * turningRisk <= Lower(state + 1) * S  BY <2>2, <2>8 DEF Turning
    <3>2. 100 * q >= Raise(state) * S
      BY <1>1, <2>2, <2>4, <2>5, <2>8 DEF NextState
    <3>3. 100 * (q - turningRisk) >= 10 * S
      BY <2>2, <3>1, <3>2 DEF Raise, Lower
    <3>4. 100 * (IF q > turningRisk THEN q - turningRisk ELSE turningRisk - q) >= 10 * S
      BY <2>2, <3>3
    <3> QED  BY <2>3, <3>4
  <2> QED  BY <2>6, <2>7, <2>8
<1>2. IInv /\ IInv' /\ [Next]_vars =>
        [state' # state /\ direction' # direction /\ direction # "none" => Gap]_vars
  BY <1>1 DEF vars
<1> QED  BY <1>2, SpecIInv, PTL DEF Spec, NoFlapping
=============================================================================

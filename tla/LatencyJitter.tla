---------------------------- MODULE LatencyJitter ----------------------------
(***************************************************************************)
(* The loop-interval statistics of LatencyJitter::sample(): a ring buffer  *)
(* of the last kWindow intervals between frame timestamps and their        *)
(* normalised mean absolute deviation.  Scores are integers in 0..One.     *)
(* Integers become floats as in the code, with a mantissa of few bits;     *)
(* what is computed with the floats afterwards is exact up to one rounding *)
(* of the quotient, where the code rounds at every operation.              *)
(***************************************************************************)
EXTENDS Integers, FiniteSets, FiniteSetsExt, Functions, Sequences

CONSTANTS K,                \* kWindow
          One,              \* the score 1.0
          Wrap,             \* number of timestamps and of sums: 2^64 in the code
          Mantissa,         \* least integer of the second binade: 2^24 in the code
          Ulps,             \* distances of neighbouring floats: powers of two
          Intervals         \* intervals between two frames

ASSUME JitterAssumption ==
  /\ K \in Nat \ {0}
  /\ One \in Nat \ {0}
  /\ Wrap \in Nat \ {0}
  /\ Intervals \subseteq 0..(Wrap - 1)
  /\ Mantissa \in Nat
  /\ IsFiniteSet(Ulps) /\ Ulps \subseteq Nat \ {0}

VARIABLES
  intervals_ns,             \* intervals_ns_
  count,                    \* count_
  next,                     \* next_
  prev_timestamp,           \* prev_timestamp_
  has_prev_timestamp,       \* has_prev_timestamp_
  temporal_jitter_norm      \* the score computed by the last sample()

jitterVars == <<intervals_ns, count, next, prev_timestamp, has_prev_timestamp,
                temporal_jitter_norm>>

JitterInit ==
  /\ intervals_ns = [i \in 0..(K - 1) |-> 0]
  /\ count = 0
  /\ next = 0
  /\ prev_timestamp = 0
  /\ has_prev_timestamp = FALSE
  /\ temporal_jitter_norm = 0

\* The distance of the floats around x, and x converted to float: rounded to the
\* nearest, to the even one of two equally near.
Ulp(x) == Max({1} \cup {2 * u : u \in {w \in Ulps : Mantissa * w <= x}})
Float(x) ==
  LET u == Ulp(x)
      q == x \div u
      r == x % u
  IN  IF 2 * r > u \/ (2 * r = u /\ q % 2 = 1) THEN u * (q + 1) ELSE u * q

Distance(a, b) == IF a >= b THEN a - b ELSE b - a

\* Mean absolute deviation over mean, in quarters, clamped to 0..One, of the n
\* intervals f[i], i \in I, their sum and each of them converted to float.  With
\* sum = n * mean: (mad / mean) / 0.25 = 4 * (Sum |n * f[i] - sum|) / (n * sum).
JitterNorm(f, I) ==
  LET n   == Cardinality(I)
      sum == Float(SumFunction([i \in I |-> f[i]]) % Wrap)
      dev == SumFunction([i \in I |-> Distance(n * Float(f[i]), sum)])
  IN  IF sum = 0 THEN 0 ELSE Min({One, (4 * One * dev) \div (n * sum)})

\* Mutants: the count stopping early, and the score taken over the whole array.
CountStopsEarly == IF count < K - 1 THEN count + 1 ELSE count
WholeArray == 0..(K - 1)

Advance(i) == (i + 1) % K

CountAfter == IF count < K THEN count + 1 ELSE count

\* The slots both loops of sample() visit.
Filled == 0..(count' - 1)

\* The part of sample() that runs once a previous timestamp is known.
Record(interval) ==
  /\ intervals_ns' = [intervals_ns EXCEPT ![next] = interval]
  /\ next' = Advance(next)
  /\ count' = CountAfter
  /\ temporal_jitter_norm' = JitterNorm(intervals_ns', Filled)

\* Mutant of Elapsed: subtracted the wrong way round.
ElapsedBackwards(timestamp) == (prev_timestamp - timestamp) % Wrap

\* Unsigned subtraction of timestamps.
Elapsed(timestamp) == (timestamp - prev_timestamp) % Wrap

\* sample() of a frame with this monotonic_ns.
SampleJitter(timestamp) ==
  /\ IF has_prev_timestamp
       THEN Record(Elapsed(timestamp))
       ELSE /\ temporal_jitter_norm' = 0
            /\ UNCHANGED <<intervals_ns, count, next>>
  /\ prev_timestamp' = timestamp
  /\ has_prev_timestamp' = TRUE

\* The clock moves on by one of the Intervals, across its wrap-around too.
JitterNext == \E d \in Intervals : SampleJitter((prev_timestamp + d) % Wrap)

JitterSpec == JitterInit /\ [][JitterNext]_jitterVars

-----------------------------------------------------------------------------
(* Properties.                                                             *)

\* The ring buffer, read from its oldest slot on.
Oldest == IF count < K THEN 0 ELSE next
Window == [j \in 1..count |-> intervals_ns[(Oldest + j - 1) % K]]

Ring == INSTANCE SlidingWindow WITH Value <- Intervals, window <- Window

\* The ring buffer always holds exactly the last kWindow intervals, measured
\* correctly even when the timestamp wraps.
ImplementsSlidingWindow == Ring!Spec

\* The score is the one of the last intervals in their order, and 0 before the
\* first: no unused slot of the buffer enters it, no interval that has left the
\* window, and the rotation of the buffer only through the order in which the
\* code's float sum of deviations rounds.
JitterIsOfWindow ==
  temporal_jitter_norm = IF count = 0 THEN 0 ELSE JitterNorm(Window, 1..count)
=============================================================================

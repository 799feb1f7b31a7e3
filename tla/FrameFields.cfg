SPECIFICATION Spec
CONSTANTS
  Devices = {d1, d2}
  Temps <- MCTemps
  Levels = {4, 12}
  Throttle = 84
  MaxCount = 4
  Units = {u1, u2}
  MaxCounter = 2
  MaxSince = 2
  S = 20
  GpuPeriod = 3
  TegraPeriod = 2
  Samples = {s1, s2}
  MaxTicks = 7
  K = 4
  One = 1000
  Wrap = 16
  Mantissa = 4
  Ulps = {1, 2, 4}
  Intervals = {0, 1, 5}
INVARIANTS
  OwnFields SharedLastWriter 
  FailureShows HeadroomOfReadable FreqWithinSeen
  InRange JitterIsOfWindow
PROPERTIES
  ReclaimTrue RatesAreTrue QuietUnlessRising ImplementsSlidingWindow
SYMMETRY MCSymmetry
CHECK_DEADLOCK FALSE

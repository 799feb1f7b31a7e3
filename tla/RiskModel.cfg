SPECIFICATION Spec
CONSTANTS
  S = 1000
  Window = 30
  Frames <- MCFrames
  Churn = 2
INVARIANTS
  TypeOK
  StateKeepsUp
PROPERTIES
  NoFlapping
  IrqForgiven
  SteadySettles

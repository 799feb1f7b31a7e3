SPECIFICATION Spec
CONSTANTS
  Lines = 4
  Fields = {"gpu", "rail"}
  Matches <- MCMatches
  Polls = 3
CHECK_DEADLOCK FALSE
INVARIANTS
  ChildAccountedFor
  LinesIntact
PROPERTY CallReturns

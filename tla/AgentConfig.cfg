SPECIFICATION Spec
CONSTANTS
  Lines <- MCLines
  MaxLines = 4
  Width = 16
INVARIANTS NestingMatchesIndentation StartsValid PublishedIffSampled
CHECK_DEADLOCK FALSE

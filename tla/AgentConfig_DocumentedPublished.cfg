SPECIFICATION Spec
CONSTANTS
  Lines <- MCLines
  MaxLines = 4
  Width = 16
INVARIANT DocumentedPublished
CHECK_DEADLOCK FALSE

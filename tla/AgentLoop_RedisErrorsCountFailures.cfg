SPECIFICATION Spec
CONSTANTS
  Sensors = {"psi", "cpu", "interrupts"}
  Enabled = {"psi", "cpu"}
  Period <- MCPeriod
  T = 2
  MaxTime = 7
CHECK_DEADLOCK FALSE
PROPERTY RedisErrorsCountFailures

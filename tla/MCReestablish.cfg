SPECIFICATION Spec
CONSTANTS
  MaxTasks = 1
  MaxFaults = 1
PROPERTY AlwaysReestablished
CHECK_DEADLOCK FALSE

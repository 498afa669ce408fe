SPECIFICATION Spec
CONSTANTS
  MaxTasks = 4
  MaxFaults = 5
INVARIANTS
  CTypeOK
  InPublishOrder
  OneHome
  LossWillBeHeard
PROPERTIES
  ImplementsLog
  LossIsRepaired
CHECK_DEADLOCK FALSE

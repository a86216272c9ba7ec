SPECIFICATION Spec
CONSTANTS
  p1 = p1
  p2 = p2
  Producers = {p1, p2}
  MaxTasks = 2
INVARIANTS TypeOK NoLostWakeup
PROPERTY WokenTasksRun
CHECK_DEADLOCK FALSE

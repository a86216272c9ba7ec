SPECIFICATION Spec
CONSTANTS
  t1 = t1
  t2 = t2
  t3 = t3
  t4 = t4
  t5 = t5
  t6 = t6
  Timers = {t1, t2, t3, t4, t5, t6}
  Doomed = {t1}
  Nil = Nil
  Timeouts = {0, 1}
  Repeats <- OnlyFirst
  Batch = 2
  Width = 3
  MaxClock = 3
SYMMETRY AnyTimer
INVARIANTS TypeOK CompleteTree FirstAtTheRoot NoFreedNode
PROPERTY SetSpec
CHECK_DEADLOCK FALSE

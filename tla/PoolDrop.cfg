SPECIFICATION Spec
CONSTANTS
  t1 = t1
  t2 = t2
  Threads = {t1, t2}
  MaxSize = 2
  Initial = 0
  Modulus = 16
  MaxNodes = 3
  MaxObjs = 3
INVARIANT DropsOnlyWhenFull
CHECK_DEADLOCK FALSE

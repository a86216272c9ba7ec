SPECIFICATION Spec
CONSTANTS
  t1 = t1
  t2 = t2
  Threads = {t1, t2}
  MaxSize = 1
  Initial = 1
  Modulus = 8
  MaxNodes = 5
  MaxObjs = 3
INVARIANTS TypeOK StackSound NoObjectTwice CountSettles PoolBounded
PROPERTY StackSpec
CHECK_DEADLOCK FALSE

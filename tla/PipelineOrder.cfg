SPECIFICATION Spec
CONSTANTS
  c1 = c1
  c2 = c2
  l1 = l1
  l2 = l2
  Channels = {c1, c2}
  Loops = {l1, l2}
  LoopOf <- TwoLoops
  Size = 2
  HashCode = 2
  MaxReqs = 2
INVARIANTS TypeOK RepliesInOrder OneHandlerAtATime HandlerSeesItsMessage NoMessageLeaks
PROPERTY EveryRequestAnswered
CHECK_DEADLOCK FALSE

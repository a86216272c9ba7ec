SPECIFICATION Spec
CONSTANTS
  w1 = w1
  w2 = w2
  r1 = r1
  r2 = r2
  NoOne = NoOne
  Cap = 4
  Threads = {w1, r1, r2}
  Role <- DrainRole
  Lens = {1, 2, 3}
  MaxBytes = 9
VIEW Control
INVARIANTS OneOwnerPerSide ReadersAndWritersApart SizeIsSafe ConsumeNeverThrows TailStable

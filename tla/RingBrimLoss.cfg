SPECIFICATION Spec
CONSTANTS
  w1 = w1
  w2 = w2
  r1 = r1
  r2 = r2
  NoOne = NoOne
  Cap = 3
  Threads = {w1, w2, r1, r2}
  Role <- CopyRole
  Lens = {1, 2}
  MaxBytes = 5
INVARIANT AcceptedIsReadable

CONSTANTS
  p1 = p1
  p2 = p2
  w1 = w1
  w2 = w2
  w3 = w3
  Proc = {p1, p2}
  Worker = {w1, w3}
  ProcOf <- OneEach
  Modes = {"sequence"}
  MaxCount = 2
  MaxSize = 2
  Lengths = {1}
  ListsMayFail = FALSE
  MovesMayFail = FALSE
  CrashMay = FALSE
  MaxInode = 5
  MaxFile = 3
  NoProc = NoProc
  NoWorker = NoWorker
SPECIFICATION Spec
INVARIANTS KeptCount

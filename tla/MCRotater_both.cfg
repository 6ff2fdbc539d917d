CONSTANTS
  p1 = p1
  p2 = p2
  w1 = w1
  w2 = w2
  w3 = w3
  Proc = {p1, p2}
  Worker = {w1, w2, w3}
  ProcOf <- TwoAndOne
  Modes = {"rolling", "sequence"}
  MaxCount = 2
  MaxSize = 2
  Lengths = {1, 2, 3}
  ListsMayFail = TRUE
  MovesMayFail = TRUE
  CrashMay = TRUE
  MaxInode = 4
  MaxFile = 3
  NoProc = NoProc
  NoWorker = NoWorker
SPECIFICATION Spec
SYMMETRY Siblings
INVARIANTS TypeOK RotationExclusive ListAccurate ArchivesOrdered LastFilesKept LocksOwned
PROPERTIES ArchivedWhenDue ImplementsChain

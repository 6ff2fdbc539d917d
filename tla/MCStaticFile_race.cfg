CONSTANTS
  Thread = {t1, t2}
  MaxFd = 2
  MaxInode = 5
  Closed = Closed
  Foreign = Foreign
SPECIFICATION Spec
SYMMETRY ThreadSymmetry
INVARIANTS LandsInLog

CONSTANTS
  Thread = {t1}
  MaxFd = 2
  MaxInode = 5
  Closed = Closed
  Foreign = Foreign
SPECIFICATION Spec
INVARIANTS TypeOK LandsInLog OneDescriptor

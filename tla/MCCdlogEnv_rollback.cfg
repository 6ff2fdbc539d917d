CONSTANTS
  Thread = {t1, t2}
  Cat = {c1, c2}
  Level = {info}
  RName = {r1}
  Contents <- MCContents
  Fails = {"update"}
  Api = {"init", "get", "reload", "log"}
  UnsetDlog = FALSE
  MaxGen = 3
  NoThread = NoThread
  NoCat = NoCat
  NoConf = NoConf
  NoTls = NoTls
SPECIFICATION Spec
INVARIANTS Settled
CHECK_DEADLOCK FALSE

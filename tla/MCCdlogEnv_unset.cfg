CONSTANTS
  Thread = {t1, t2}
  Cat = {c1}
  Level = {info}
  RName = {r1}
  Contents <- MCContents
  Fails = {}
  Api = {"init", "dinit", "fini", "vdlog"}
  UnsetDlog = TRUE
  MaxGen = 3
  NoThread = NoThread
  NoCat = NoCat
  NoConf = NoConf
  NoTls = NoTls
SPECIFICATION Spec
INVARIANTS NoCrash
CHECK_DEADLOCK FALSE

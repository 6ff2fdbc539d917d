CONSTANTS
  Thread = {t1, t2}
  Cat = {c1, c2}
  Level = {info}
  RName = {r1}
  Contents <- MCContents
  Fails = {"conf"}
  Api = {"init", "fini", "get", "record", "reload", "log"}
  UnsetDlog = FALSE
  MaxGen = 4
  NoThread = NoThread
  NoCat = NoCat
  NoConf = NoConf
  NoTls = NoTls
SPECIFICATION FairSpec
INVARIANTS TypeOK Settled RecordsBound
PROPERTIES InstallMovesVersion ReaderReturns WriterReturns

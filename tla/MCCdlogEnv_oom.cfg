CONSTANTS
  Thread = {t1, t2}
  Cat = {c1, c2}
  Level = {info}
  RName = {r1}
  Contents <- OomContents
  Fails = {"update", "thread", "buf", "event", "category", "record", "write"}
  Api = {"dinit", "init", "setdef", "dlog", "vdlog", "fini", "reload", "mdc", "exit", "record"}
  UnsetDlog = FALSE
  MaxGen = 4
  NoThread = NoThread
  NoCat = NoCat
  NoConf = NoConf
  NoTls = NoTls
SPECIFICATION Spec
SYMMETRY ThreadSymmetry
INVARIANTS FreshThread
PROPERTIES CrashNeedsFailure AutoReloadPaced ReloadHeals
\* A logging call through rules that were freed ends the process.
CHECK_DEADLOCK FALSE

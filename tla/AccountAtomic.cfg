SPECIFICATION FairSpec

CONSTANTS
  Threads = {t1}
  NoThread = NoThread
  Keys = {k1, k2}
  FreshKeys = {k1, k2}
  Passwords = {p1, p2, w}
  ValidPasswords = {p1, p2}
  Blank = Blank
  NoKey = NoKey
  Absent = Absent
  Empty = Empty
  Torn = Torn
  Paths = {dir}
  DefaultPath = dir
  Ops = {"create", "import", "remove", "export"}
  ReadFaults = FALSE
  WriteFaults = TRUE
  Crashes = TRUE

PROPERTIES
  NeverCovers
  RemovedWithPassword
  ImplementsAccountBook
  EveryRequestAnswered
  BackupInStep

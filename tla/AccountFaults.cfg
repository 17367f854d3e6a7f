SPECIFICATION Spec

CONSTANTS
  Threads = {t1, t2}
  NoThread = NoThread
  Keys = {k1}
  FreshKeys = {k1}
  Passwords = {p1, p2, w}
  ValidPasswords = {p1, p2}
  Blank = Blank
  NoKey = NoKey
  Absent = Absent
  Empty = Empty
  Torn = Torn
  Paths = {dir}
  DefaultPath = dir
  Ops = {"create", "import", "remove", "export"}
  ReadFaults = TRUE
  WriteFaults = TRUE
  Crashes = TRUE

SYMMETRY Symmetry

INVARIANTS
  TypeOK
  AccountsHoldTheirKey
  KeystoresHoldTheirKey
  KeystoreOpensForRequester

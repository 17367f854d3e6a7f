SPECIFICATION Spec

CONSTANTS
  Threads = {t1, t2}
  NoThread = NoThread
  Keys = {k1}
  FreshKeys = {}
  Passwords = {p1}
  ValidPasswords = {p1}
  Blank = Blank
  NoKey = NoKey
  Absent = Absent
  Empty = Empty
  Torn = Torn
  Paths = {dir}
  DefaultPath = dir
  Ops = {"import"}
  ReadFaults = FALSE
  WriteFaults = FALSE
  Crashes = FALSE

INVARIANTS
  NoPlainBackupOfEncrypted

--------------------------- MODULE AccountService ---------------------------
(***************************************************************************)
(* AccountServiceImpl, AccountKeyStoreServiceImpl and                      *)
(* AccountStorageServiceImpl: the requests that create, import, remove and *)
(* export accounts, run by concurrent HTTP request threads over two stores *)
(* that are written one after the other, the account table of RocksDB and  *)
(* the keystore files.                                                     *)
(*                                                                         *)
(* A request is cut at its accesses to what threads share: one action for  *)
(* the access together with the local code up to the next one.  A request  *)
(* that is refused before its first write changes nothing and is not an    *)
(* action: its conditions are the guards of the action that starts it.     *)
(***************************************************************************)
EXTENDS AccountRecord, Naturals, FiniteSets

CONSTANTS
  Threads,      \* request threads
  NoThread,     \* nobody holds the lock
  Paths,        \* directories keystores are written to
  DefaultPath,  \* ApiModuleInfoConfig.getKeystorePath()
  FreshKeys,    \* the keys new ECKey() may still draw; bounds createAccount
  Ops,          \* the operations clients use
  Empty,        \* a file of length 0
  Torn,         \* a file that is no JSON document
  ReadFaults,   \* may RocksDB.get throw?  (RocksDBManager.get: null)
  WriteFaults,  \* may RocksDB.put and file operations throw?
  Crashes       \* may the process stop and be started again?

ASSUME ServiceConstants ==
  /\ NoThread \notin Threads
  /\ DefaultPath \in Paths
  /\ FreshKeys \subseteq Keys
  /\ Ops \subseteq {"create", "import", "remove", "export"}
  /\ {ReadFaults, WriteFaults, Crashes} \subseteq BOOLEAN

ASSUME FileConstants ==
  /\ {Absent, Empty, Torn} \intersect KeyStore = {}
  /\ Absent # Empty /\ Absent # Torn /\ Empty # Torn

VARIABLES
  db,      \* the account table: address -> AccountPo or Absent
  files,   \* directory, address -> what <address>.keystore holds
  fresh,   \* keys nobody has generated or seen yet
  locker,  \* AccountServiceImpl.locker: the thread holding it
  pc,      \* where each thread is
  req,     \* the arguments of the request it serves
  ks       \* the keystore it is about to write

vars == <<db, files, fresh, locker, pc, req, ks>>

Content == KeyStore \union {Absent, Empty, Torn}

\* "idle" and "failed": the last request was answered, with a result or with
\* an error; the others name what the thread does next.
Ready == {"idle", "failed"}
Steps == {"lock", "save", "read", "exists", "create", "open", "write", "delete"}

\* addr: the address the request is about; key: the private key it stores
\* (createAccount knows neither before it holds the lock).
Request ==
  [op : {"create", "import", "remove", "export"},
   addr : Keys \union {NoKey}, key : Keys \union {NoKey},
   pw : MaybePassword, over : BOOLEAN, path : Paths]

NoRequest == Absent
NoKeyStore == Absent

ASSUME AbsentIsNoRequest == Absent \notin Request

\* The keys clients can name: nobody else knows a new key before it is saved.
Unsaved == {req[t].key : t \in {u \in Threads : pc[u] = "save" /\ req[u].op = "create"}}
Known == (Keys \ fresh) \ Unsaved

-----------------------------------------------------------------------------
(***************************************************************************)
(* The end of a request.  The finally block of createAccount releases the  *)
(* lock on every exit; the other operations do not take it.  (First the    *)
(* slip of a release that is not in a finally block.)                      *)
(***************************************************************************)
AnswerLeakingLock(t, outcome) ==
  /\ pc' = [pc EXCEPT ![t] = outcome]
  /\ req' = [req EXCEPT ![t] = NoRequest]
  /\ ks' = [ks EXCEPT ![t] = NoKeyStore]
  /\ locker' = IF locker = t /\ outcome = "idle" THEN NoThread ELSE locker

Answer(t, outcome) ==
  /\ pc' = [pc EXCEPT ![t] = outcome]
  /\ req' = [req EXCEPT ![t] = NoRequest]
  /\ ks' = [ks EXCEPT ![t] = NoKeyStore]
  /\ locker' = IF locker = t THEN NoThread ELSE locker

Goto(t, step) ==
  /\ pc' = [pc EXCEPT ![t] = step]
  /\ UNCHANGED <<req, ks, locker>>

Begin(t, r, step) ==
  /\ pc[t] \in Ready
  /\ r.op \in Ops
  /\ req' = [req EXCEPT ![t] = r]
  /\ pc' = [pc EXCEPT ![t] = step]

\* AccountStorageServiceImpl.getAccount: a failed read looks like no account.
Reads(a) == {db[a]} \union (IF ReadFaults THEN {Absent} ELSE {})

\* Import checks the format of a password that is given; create does not.
Importable(pw) == pw = Blank \/ pw \in ValidPasswords

-----------------------------------------------------------------------------
(***************************************************************************)
(* createAccount: everything after the lock is inside the critical section *)
(***************************************************************************)
CreateAccount(t, pw) ==
  /\ Cardinality({u \in Threads : pc[u] = "lock"}) < Cardinality(fresh)
  /\ Begin(t, [op |-> "create", addr |-> NoKey, key |-> NoKey, pw |-> pw,
               over |-> FALSE, path |-> DefaultPath], "lock")
  /\ UNCHANGED <<db, files, fresh, locker, ks>>

\* A slip: the key is drawn without waiting for the lock.
DrawKeyUnlocked(t) ==
  /\ pc[t] = "lock"
  /\ locker' = t
  /\ \E k \in fresh :
       /\ fresh' = fresh \ {k}
       /\ req' = [req EXCEPT ![t].addr = k, ![t].key = k]
  /\ pc' = [pc EXCEPT ![t] = "save"]
  /\ UNCHANGED <<db, files, ks>>

\* locker.lock() and AccountTool.createAccount(chainId): a new random key.
LockAndDrawKey(t) ==
  /\ pc[t] = "lock"
  /\ locker = NoThread
  /\ locker' = t
  /\ \E k \in fresh :
       /\ fresh' = fresh \ {k}
       /\ req' = [req EXCEPT ![t].addr = k, ![t].key = k]
  /\ pc' = [pc EXCEPT ![t] = "save"]
  /\ UNCHANGED <<db, files, ks>>

\* The request made of a private key or of a keystore, once its checks passed.
ImportRequest(addr, k, pw, over) ==
  [op |-> "import", addr |-> addr, key |-> k, pw |-> pw,
   over |-> over, path |-> DefaultPath]

\* importAccountByPrikey: with overwrite = false the account must not exist.
ImportAccountByPrikey(t, k, pw, over) ==
  /\ Importable(pw)
  /\ over \/ Absent \in Reads(k)
  /\ Begin(t, ImportRequest(k, k, pw, over), "save")
  /\ UNCHANGED <<db, files, fresh, locker, ks>>

\* A slip: the address of the keystore is not compared with its key.
ImportUncompared(t, s, pw, over) ==
  /\ Importable(pw)
  /\ over \/ Absent \in Reads(s.addr)
  /\ KeyIn(s, pw) # NoKey
  /\ Begin(t, ImportRequest(s.addr, KeyIn(s, pw), pw, over), "save")
  /\ UNCHANGED <<db, files, fresh, locker, ks>>

\* importAccountByKeyStore: moreover the key must belong to the address.
ImportAccountByKeyStore(t, s, pw, over) ==
  /\ Importable(pw)
  /\ over \/ Absent \in Reads(s.addr)
  /\ KeyIn(s, pw) = s.addr
  /\ Begin(t, ImportRequest(s.addr, KeyIn(s, pw), pw, over), "save")
  /\ UNCHANGED <<db, files, fresh, locker, ks>>

\* A slip: the account is stored before it is encrypted.
SaveUnencrypted(t) ==
  /\ pc[t] = "save"
  /\ db' = [db EXCEPT ![req[t].key] = NewAccount(req[t].key)]
  /\ Goto(t, "read")
  /\ UNCHANGED <<files, fresh>>

\* saveAccount(new AccountPo(account)) of the encrypted or plain account.
SaveAccount(t) ==
  /\ pc[t] = "save"
  /\ db' = [db EXCEPT ![req[t].key] = Sealed(req[t].key, req[t].pw)]
  /\ Goto(t, "read")
  /\ UNCHANGED <<files, fresh>>

\* RocksDB.put throws: DB_SAVE_BATCH_ERROR.
SaveFails(t) ==
  /\ WriteFaults
  /\ pc[t] = "save"
  /\ Answer(t, "failed")
  /\ UNCHANGED <<db, files, fresh>>

-----------------------------------------------------------------------------
(***************************************************************************)
(* backupAccountToKeyStore: accountToKeyStore reads the account again and  *)
(* checks the password against what it finds now.                          *)
(***************************************************************************)
\* (First the slip of checking only that the account exists.)
ExportableUnchecked(a, pw) == a # Absent

Exportable(a, pw) ==
  /\ a # Absent
  /\ IsEncrypted(a) => ValidatePassword(a, pw)

BackupAccountToKeyStore(t) ==
  /\ pc[t] = "read"
  /\ \E a \in Reads(req[t].key) :
       IF Exportable(a, req[t].pw)
       THEN /\ ks' = [ks EXCEPT ![t] = ToKeyStore(a)]
            /\ pc' = [pc EXCEPT ![t] = "exists"]
            /\ UNCHANGED <<locker, req>>
       ELSE Answer(t, "failed")
  /\ UNCHANGED <<db, files, fresh>>

\* exportAccountKeyStore: the same, asked for by a client, any directory.
ExportAccountKeyStore(t, a, pw, path) ==
  /\ Exportable(db[a], pw)
  /\ Begin(t, [op |-> "export", addr |-> a, key |-> a, pw |-> pw,
               over |-> FALSE, path |-> path], "exists")
  /\ ks' = [ks EXCEPT ![t] = ToKeyStore(db[a])]
  /\ UNCHANGED <<db, files, fresh, locker>>

(***************************************************************************)
(* backUpKeyStore: !exists() && !createNewFile(), then a FileOutputStream  *)
(* (which empties the file), then one write at the stream's own offset 0.  *)
(***************************************************************************)
File(t) == <<req[t].path, ks[t].addr>>

FileExists(t) ==
  /\ pc[t] = "exists"
  /\ Goto(t, IF files[File(t)] = Absent THEN "create" ELSE "open")
  /\ UNCHANGED <<db, files, fresh>>

CreateNewFile(t) ==
  /\ pc[t] = "create"
  /\ IF files[File(t)] = Absent
     THEN /\ files' = [files EXCEPT ![File(t)] = Empty]
          /\ Goto(t, "open")
     ELSE /\ Answer(t, "failed")
          /\ UNCHANGED files
  /\ UNCHANGED <<db, fresh>>

\* A slip: the file is opened without emptying it.
OpenWithoutTruncating(t) ==
  /\ pc[t] = "open"
  /\ Goto(t, "write")
  /\ UNCHANGED <<db, files, fresh>>

OpenTruncates(t) ==
  /\ pc[t] = "open"
  /\ files' = [files EXCEPT ![File(t)] = Empty]
  /\ Goto(t, "write")
  /\ UNCHANGED <<db, fresh>>

\* Lengths, as far as they differ: the JSON text of a keystore with an
\* encrypted key is longer than one with a plain key.
Length(c) ==
  CASE c = Empty -> 0
    [] c = Torn  -> 2
    [] OTHER     -> IF c.enc # NoKey THEN 2 ELSE 1

\* Writing s from offset 0 over what another open stream has left there.
Overlay(c, s) == IF Length(c) > Length(s) THEN Torn ELSE s

WriteKeyStore(t) ==
  /\ pc[t] = "write"
  /\ files' = [files EXCEPT ![File(t)] = Overlay(@, ks[t])]
  /\ Answer(t, "idle")
  /\ UNCHANGED <<db, fresh>>

\* A file operation throws.  A failed write may have written a part.
FileFails(t) ==
  /\ WriteFaults
  /\ pc[t] \in {"create", "open", "write"}
  /\ \/ UNCHANGED files
     \/ pc[t] = "write" /\ files' = [files EXCEPT ![File(t)] = Torn]
  /\ Answer(t, "failed")
  /\ UNCHANGED <<db, fresh>>

-----------------------------------------------------------------------------
(***************************************************************************)
(* removeAccount: reads and verifies, then deletes whatever is there.  The *)
(* keystore files stay.  (First the slip of not verifying the password.)   *)
(***************************************************************************)
RemoveUnverified(t, a, pw) ==
  /\ db[a] # Absent
  /\ Begin(t, [op |-> "remove", addr |-> a, key |-> a, pw |-> pw,
               over |-> FALSE, path |-> DefaultPath], "delete")
  /\ UNCHANGED <<db, files, fresh, locker, ks>>

RemoveAccount(t, a, pw) ==
  /\ Exportable(db[a], pw)
  /\ Begin(t, [op |-> "remove", addr |-> a, key |-> a, pw |-> pw,
               over |-> FALSE, path |-> DefaultPath], "delete")
  /\ UNCHANGED <<db, files, fresh, locker, ks>>

DeleteAccount(t) ==
  /\ pc[t] = "delete"
  /\ db' = [db EXCEPT ![req[t].addr] = Absent]
  /\ Answer(t, "idle")
  /\ UNCHANGED <<files, fresh>>

DeleteFails(t) ==
  /\ WriteFaults
  /\ pc[t] = "delete"
  /\ Answer(t, "failed")
  /\ UNCHANGED <<db, files, fresh>>

\* The process stops and starts again: the table and the files remain.
Restart ==
  /\ Crashes
  /\ pc' = [t \in Threads |-> "idle"]
  /\ req' = [t \in Threads |-> NoRequest]
  /\ ks' = [t \in Threads |-> NoKeyStore]
  /\ locker' = NoThread
  /\ UNCHANGED <<db, files, fresh>>

-----------------------------------------------------------------------------
Init ==
  /\ db = [a \in Keys |-> Absent]
  /\ files = [f \in Paths \X Keys |-> Absent]
  /\ fresh = FreshKeys
  /\ locker = NoThread
  /\ pc = [t \in Threads |-> "idle"]
  /\ req = [t \in Threads |-> NoRequest]
  /\ ks = [t \in Threads |-> NoKeyStore]

\* Keystores a client can present: a key it knows, plain or encrypted, under
\* the address of that key or of another account.
ClientKeyStores ==
  {[addr |-> a, pri |-> k, enc |-> NoKey] : a \in Known, k \in Known}
  \union
  {[addr |-> a, pri |-> NoKey, enc |-> [key |-> k, pw |-> p]] :
     a \in Known, k \in Known, p \in Passwords}

Arrival(t) ==
  \E pw \in MaybePassword :
    \/ CreateAccount(t, pw)
    \/ \E k \in Known, over \in BOOLEAN : ImportAccountByPrikey(t, k, pw, over)
    \/ \E s \in ClientKeyStores, over \in BOOLEAN :
         ImportAccountByKeyStore(t, s, pw, over)
    \/ \E a \in Known : RemoveAccount(t, a, pw)
    \/ \E a \in Known, path \in Paths : ExportAccountKeyStore(t, a, pw, path)

Work(t) ==
  \/ LockAndDrawKey(t)
  \/ SaveAccount(t)
  \/ BackupAccountToKeyStore(t)
  \/ FileExists(t)
  \/ CreateNewFile(t)
  \/ OpenTruncates(t)
  \/ WriteKeyStore(t)
  \/ DeleteAccount(t)

Fault(t) ==
  \/ SaveFails(t)
  \/ FileFails(t)
  \/ DeleteFails(t)

Next ==
  \/ \E t \in Threads : Arrival(t) \/ Work(t) \/ Fault(t)
  \/ Restart

Spec == Init /\ [][Next]_vars

\* A thread that has started a request keeps running; nobody has to call.
FairSpec == Spec /\ \A t \in Threads : WF_vars(Work(t))

-----------------------------------------------------------------------------
(***************************************************************************)
(* Type invariant                                                          *)
(***************************************************************************)
TypeOK ==
  /\ db \in [Keys -> Account \union {Absent}]
  /\ files \in [Paths \X Keys -> Content]
  /\ fresh \in SUBSET FreshKeys
  /\ locker \in Threads \union {NoThread}
  /\ pc \in [Threads -> Ready \union Steps]
  /\ req \in [Threads -> Request \union {NoRequest}]
  /\ ks \in [Threads -> KeyStore \union {NoKeyStore}]

(***************************************************************************)
(* Safety, for any number of threads, with faults and restarts             *)
(***************************************************************************)

\* A key field pair (pri, enc) that yields exactly the key k: in plain text
\* or encrypted, never both and never neither.
HoldsKey(x, k) ==
  \/ x.pri = k /\ x.enc = NoKey
  \/ x.pri = NoKey /\ x.enc # NoKey /\ x.enc.key = k

\* Whatever requests, faults and restarts interleave, the record stored under
\* an address is the account of that address and holds its key in exactly one
\* form: no stored account has lost its key or keeps a plain copy of it.
\* (createAccount, importAccountByPrikey, importAccountByKeyStore)
AccountsHoldTheirKey ==
  \A a \in Keys : db[a] # Absent => db[a].pub = a /\ HoldsKey(db[a], a)

\* A keystore file that is a complete document, and every keystore on its way
\* to a file, is one of the address the file is named after, with its key.
\* (accountToKeyStore, backUpKeyStore)
KeystoresHoldTheirKey ==
  /\ \A f \in Paths \X Keys :
       files[f] \in KeyStore => files[f].addr = f[2] /\ HoldsKey(files[f], f[2])
  /\ \A t \in Threads :
       ks[t] # NoKeyStore => ks[t].addr = req[t].addr /\ HoldsKey(ks[t], req[t].addr)

\* A request never writes a keystore its own client could not open: the
\* account is read a second time for the backup and may by then have been
\* encrypted by another request under another password.
\* (backupAccountToKeyStore, accountToKeyStore)
KeystoreOpensForRequester ==
  \A t \in Threads :
    ks[t] # NoKeyStore =>
      \/ ks[t].enc = NoKey
      \/ req[t].pw \in ValidPasswords /\ KeyIn(ks[t], req[t].pw) = req[t].addr

\* The lock is held exactly while a createAccount is past its lock() and not
\* yet answered: it excludes a second one and no exit leaks it.
\* (createAccount: locker.lock ... finally locker.unlock)
LockHeldByCreator ==
  \A t \in Threads :
    locker = t <=> req[t] # NoRequest /\ req[t].op = "create" /\ pc[t] # "lock"

(***************************************************************************)
(* What holds for a client that waits for each answer (Threads has one     *)
(* member) and breaks when two requests for an account overlap             *)
(***************************************************************************)
\* One request at a time, and a table that can always be read.
OneAtATime == (\A t, u \in Threads : t = u) /\ ~ReadFaults

Quiet == \A t \in Threads : pc[t] \in Ready

CoversOnlyIfAsked ==
  \A a \in Keys :
    db[a] # Absent /\ db'[a] # Absent /\ db'[a] # db[a] =>
      \E t \in Threads : pc[t] = "save" /\ pc'[t] # "save" /\ req[t].over

\* An import with overwrite = false, or a creation, never replaces an account.
\* (importAccountByPrikey, "not allowed to cover"; importAccountByKeyStore)
NeverCovers == [][CoversOnlyIfAsked]_vars

RemovesOnlyUnlocked ==
  \A a \in Keys :
    db[a] # Absent /\ db'[a] = Absent =>
      \E t \in Threads :
        pc[t] = "delete" /\ pc'[t] # "delete" /\ Unlock(db[a], req[t].pw) = a

\* An encrypted account is only removed by a request whose password opens it
\* at the moment it is removed.  (removeAccount, "verify password")
RemovedWithPassword == [][RemovesOnlyUnlocked]_vars

\* Every request takes effect at one moment, in a state that allows it, even
\* if writes fail and the process restarts; otherwise it leaves the table alone.
\* (importAccountBy..., createAccount, removeAccount: check, then write)
Ordered(t) ==
  IF pc[t] \in {"save", "delete"}
  THEN [kind |-> IF pc[t] = "save" THEN "put" ELSE "remove",
        key |-> req[t].key, pw |-> req[t].pw, over |-> req[t].over]
  ELSE Absent

Book == INSTANCE AccountBook WITH
  Clients <- Threads, accounts <- db, asked <- [t \in Threads |-> Ordered(t)]

ASSUME AbsentIsNoOrder == Absent \notin Book!Order

ImplementsAccountBook == Book!BookSpec

WritesWhatIsStored ==
  \A t \in Threads :
    WriteKeyStore(t) =>
      files'[File(t)] = ToKeyStore(db'[req[t].addr])

\* A request answered with success after writing a keystore leaves a complete
\* document that says what the table says now, whatever was in the file: the
\* backup of an earlier import, with, without or with another password, or
\* what a failure or a stop left behind.
\* (saveAccount followed by backupAccountToKeyStore)
BackupInStep == [][WritesWhatIsStored]_vars

\* Between requests there is no plain-text key in the default directory for
\* an account that is encrypted.  (accountToKeyStore, "if the account is
\* encrypted, the plaintext private key is not exported")
NoPlainBackupOfEncrypted ==
  Quiet => \A a \in Keys :
    LET f == files[<<DefaultPath, a>>] IN
    db[a] # Absent /\ IsEncrypted(db[a]) /\ f \in KeyStore => f.pri = NoKey

(***************************************************************************)
(* Liveness                                                                *)
(***************************************************************************)

\* Every request is answered, with a result or an error: no request waits
\* forever for the lock.  (the finally block of createAccount)
EveryRequestAnswered == \A t \in Threads : pc[t] \in Steps ~> pc[t] \in Ready
=============================================================================

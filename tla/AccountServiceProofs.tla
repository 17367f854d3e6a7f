------------------------ MODULE AccountServiceProofs ------------------------
(***************************************************************************)
(* Proofs about AccountService, for every set of threads, keys, passwords  *)
(* and directories, with or without faults and restarts.                   *)
(*                                                                         *)
(* The safety invariants are not inductive by themselves: what a request   *)
(* in flight is about to write must be known to be right as well.  That is *)
(* InFlight; IInv adds it to the invariants.                               *)
(*                                                                         *)
(* The last part shows that AccountService implements AccountBook for      *)
(* clients whose requests do not overlap.                                  *)
(***************************************************************************)
EXTENDS AccountService, TLAPS

Backing == {"exists", "create", "open", "write"}

\* Every request past its first step names a key and the address of that key,
\* and a keystore is in memory exactly while the backup is being written.
InFlight ==
  \A t \in Threads :
    /\ pc[t] \in Ready <=> req[t] = NoRequest
    /\ pc[t] = "lock" => req[t].op = "create"
    /\ pc[t] \in Steps \ {"lock"} => req[t].key \in Keys /\ req[t].addr = req[t].key
    /\ pc[t] \in Backing <=> ks[t] # NoKeyStore

IInv ==
  /\ TypeOK
  /\ InFlight
  /\ AccountsHoldTheirKey
  /\ KeystoresHoldTheirKey
  /\ KeystoreOpensForRequester
  /\ LockHeldByCreator

-----------------------------------------------------------------------------
(***************************************************************************)
(* The data                                                                *)
(***************************************************************************)

\* What an import or a creation stores is an account holding its own key in
\* one form (AccountTool.createAccount followed by Account.encrypt).
LEMMA SealedHoldsKey ==
  ASSUME NEW k \in Keys, NEW pw \in MaybePassword
  PROVE  /\ Sealed(k, pw) \in Account
         /\ Sealed(k, pw).pub = k
         /\ HoldsKey(Sealed(k, pw), k)
<1> USE RecordConstants, NoKeyIsNoCipher
<1>1. CASE pw = Blank
  BY <1>1 DEF Sealed, NewAccount, Account, HoldsKey
<1>2. CASE pw # Blank
  <2>1. Sealed(k, pw) = [pub |-> k, pri |-> NoKey, enc |-> [key |-> k, pw |-> pw]]
    BY <1>2 DEF Sealed, NewAccount, Encrypt
  <2>2. [key |-> k, pw |-> pw] \in Cipher
    BY <1>2 DEF Cipher, MaybePassword
  <2> QED BY <2>1, <2>2 DEF Account, HoldsKey
<1> QED BY <1>1, <1>2

\* The keystore of an account that holds its key holds it too, and opens with
\* the password that made the account exportable (accountToKeyStore).
LEMMA ToKeyStoreHoldsKey ==
  ASSUME NEW a \in Account, NEW pw, Exportable(a, pw), HoldsKey(a, a.pub)
  PROVE  /\ ToKeyStore(a) \in KeyStore
         /\ ToKeyStore(a).addr = a.pub
         /\ HoldsKey(ToKeyStore(a), a.pub)
         /\ \/ ToKeyStore(a).enc = NoKey
            \/ pw \in ValidPasswords /\ KeyIn(ToKeyStore(a), pw) = a.pub
<1> USE RecordConstants, NoKeyIsNoCipher
<1>1. CASE IsEncrypted(a)
  <2>1. ToKeyStore(a) = [addr |-> a.pub, pri |-> NoKey, enc |-> a.enc]
    BY <1>1 DEF ToKeyStore
  <2>2. a.enc \in Cipher /\ a.pub \in Keys /\ a.enc.key = a.pub
    BY <1>1 DEF IsEncrypted, HoldsKey, Account
  <2>3. pw \in ValidPasswords /\ Decrypt(a.enc, pw) = a.pub
    BY <1>1 DEF Exportable, ValidatePassword
  <2> QED BY <2>1, <2>2, <2>3 DEF KeyStore, HoldsKey, KeyIn
<1>2. CASE ~IsEncrypted(a)
  <2>1. ToKeyStore(a) = [addr |-> a.pub, pri |-> a.pri, enc |-> NoKey]
    BY <1>2 DEF ToKeyStore
  <2> QED BY <1>2, <2>1 DEF KeyStore, HoldsKey, Account, IsEncrypted
<1> QED BY <1>1, <1>2

-----------------------------------------------------------------------------
(***************************************************************************)
(* The steps.  One lemma per action: each keeps IInv.                      *)
(***************************************************************************)
LEMMA InitIInv == Init => IInv
<1> SUFFICES ASSUME Init PROVE IInv
  OBVIOUS
<1> USE DEF Init
<1>1. TypeOK
  BY ServiceConstants DEF TypeOK, Content, Ready
<1>2. InFlight
  BY DEF InFlight, Ready, Steps, Backing
<1>3. AccountsHoldTheirKey
  BY DEF AccountsHoldTheirKey
<1>4. KeystoresHoldTheirKey
  BY FileConstants DEF KeystoresHoldTheirKey
<1>5. KeystoreOpensForRequester
  BY DEF KeystoreOpensForRequester
<1>6. LockHeldByCreator
  BY ServiceConstants DEF LockHeldByCreator
<1> QED BY <1>1, <1>2, <1>3, <1>4, <1>5, <1>6 DEF IInv

\* The end of a request: the thread is ready, holds nothing and has no lock.
LEMMA AnswerKeeps ==
  ASSUME IInv, NEW t \in Threads, NEW outcome \in Ready, Answer(t, outcome),
         AccountsHoldTheirKey', db' \in [Keys -> Account \union {Absent}],
         files' \in [Paths \X Keys -> Content], UNCHANGED fresh,
         \A f \in Paths \X Keys :
           files'[f] \in KeyStore => files'[f].addr = f[2] /\ HoldsKey(files'[f], f[2])
  PROVE  IInv'
<1> USE DEF IInv
<1>1. TypeOK'
  BY DEF TypeOK, Answer
<1>2. InFlight'
  BY DEF TypeOK, InFlight, Answer, Ready, Steps, Backing
<1>3. KeystoresHoldTheirKey'
  BY DEF TypeOK, KeystoresHoldTheirKey, Answer
<1>4. KeystoreOpensForRequester'
  BY DEF TypeOK, KeystoreOpensForRequester, Answer
<1>5. LockHeldByCreator'
  BY ServiceConstants DEF TypeOK, LockHeldByCreator, Answer, InFlight, Ready, Steps
<1> QED BY <1>1, <1>2, <1>3, <1>4, <1>5

LEMMA SaveKeeps ==
  ASSUME IInv, NEW t \in Threads, SaveAccount(t)
  PROVE  IInv'
<1> USE DEF IInv
<1> DEFINE k == req[t].key
<1>1. req[t] \in Request /\ k \in Keys /\ req[t].pw \in MaybePassword
  BY DEF SaveAccount, InFlight, TypeOK, Steps, Ready, Request
<1>2. /\ Sealed(k, req[t].pw) \in Account
      /\ Sealed(k, req[t].pw).pub = k
      /\ HoldsKey(Sealed(k, req[t].pw), k)
  BY <1>1, SealedHoldsKey
<1>3. TypeOK'
  BY <1>1, <1>2 DEF TypeOK, SaveAccount, Goto, Steps
<1>4. InFlight'
  BY DEF TypeOK, InFlight, SaveAccount, Goto, Ready, Steps, Backing
<1>5. AccountsHoldTheirKey'
  BY <1>1, <1>2 DEF TypeOK, AccountsHoldTheirKey, SaveAccount
<1>6. KeystoresHoldTheirKey'
  BY DEF KeystoresHoldTheirKey, SaveAccount, Goto
<1>7. KeystoreOpensForRequester'
  BY DEF KeystoreOpensForRequester, SaveAccount, Goto
<1>8. LockHeldByCreator'
  BY DEF TypeOK, LockHeldByCreator, SaveAccount, Goto
<1> QED BY <1>3, <1>4, <1>5, <1>6, <1>7, <1>8

\* A request that begins without writing anything yet: only t's own state
\* changes, and for the steps that follow the lock the key is known.
LEMMA BeginKeeps ==
  ASSUME IInv, NEW t \in Threads, NEW r \in Request, NEW step \in {"lock", "save", "delete"},
         Begin(t, r, step), UNCHANGED <<db, files, fresh, locker, ks>>,
         step = "lock" <=> r.op = "create",
         step # "lock" => r.key \in Keys /\ r.addr = r.key
  PROVE  IInv'
<1> USE DEF IInv
<1>1. TypeOK'
  BY DEF TypeOK, Begin, Steps
<1>2. InFlight'
  BY AbsentIsNoRequest DEF TypeOK, InFlight, Begin, Ready, Steps, Backing, NoRequest
<1>3. AccountsHoldTheirKey'
  BY DEF AccountsHoldTheirKey
<1>4. ks[t] = NoKeyStore
  BY DEF InFlight, Begin, Ready, Backing
<1>5. KeystoresHoldTheirKey'
  BY <1>4 DEF TypeOK, KeystoresHoldTheirKey, Begin
<1>6. KeystoreOpensForRequester'
  BY <1>4 DEF TypeOK, KeystoreOpensForRequester, Begin
<1>7. LockHeldByCreator'
  BY AbsentIsNoRequest, ServiceConstants
  DEF TypeOK, LockHeldByCreator, InFlight, Begin, Ready, Steps, NoRequest
<1> QED BY <1>1, <1>2, <1>3, <1>5, <1>6, <1>7

LEMMA CreateKeeps ==
  ASSUME IInv, NEW t \in Threads, NEW pw \in MaybePassword, CreateAccount(t, pw)
  PROVE  IInv'
<1> DEFINE r == [op |-> "create", addr |-> NoKey, key |-> NoKey, pw |-> pw,
                 over |-> FALSE, path |-> DefaultPath]
<1>1. r \in Request
  BY ServiceConstants DEF Request
<1> QED BY <1>1, BeginKeeps DEF CreateAccount

LEMMA ImportByPrikeyKeeps ==
  ASSUME IInv, NEW t \in Threads, NEW k \in Keys, NEW pw \in MaybePassword,
         NEW over \in BOOLEAN, ImportAccountByPrikey(t, k, pw, over)
  PROVE  IInv'
<1>1. ImportRequest(k, k, pw, over) \in Request
  BY ServiceConstants DEF ImportRequest, Request
<1> QED BY <1>1, BeginKeeps DEF ImportAccountByPrikey, ImportRequest

LEMMA ImportByKeyStoreKeeps ==
  ASSUME IInv, NEW t \in Threads, NEW s, s.addr \in Keys, NEW pw \in MaybePassword,
         NEW over \in BOOLEAN, ImportAccountByKeyStore(t, s, pw, over)
  PROVE  IInv'
<1> DEFINE r == ImportRequest(s.addr, s.addr, pw, over)
<1>1. r \in Request
  BY ServiceConstants DEF ImportRequest, Request
<1>2. Begin(t, r, "save") /\ UNCHANGED <<db, files, fresh, locker, ks>>
  BY DEF ImportAccountByKeyStore
<1>3. r.op = "import" /\ r.key = s.addr /\ r.addr = s.addr
  BY DEF ImportRequest
<1> QED BY <1>1, <1>2, <1>3, BeginKeeps

LEMMA RemoveKeeps ==
  ASSUME IInv, NEW t \in Threads, NEW a \in Keys, NEW pw \in MaybePassword,
         RemoveAccount(t, a, pw)
  PROVE  IInv'
<1> DEFINE r == [op |-> "remove", addr |-> a, key |-> a, pw |-> pw,
                 over |-> FALSE, path |-> DefaultPath]
<1>1. r \in Request
  BY ServiceConstants DEF Request
<1> QED BY <1>1, BeginKeeps DEF RemoveAccount

\* The lock is free when it is taken, so nobody else is in a creation.
LEMMA LockKeeps ==
  ASSUME IInv, NEW t \in Threads, LockAndDrawKey(t)
  PROVE  IInv'
<1> USE DEF IInv
<1>1. PICK k \in fresh : /\ fresh' = fresh \ {k}
                         /\ req' = [req EXCEPT ![t].addr = k, ![t].key = k]
  BY DEF LockAndDrawKey
<1>2. k \in Keys /\ req[t] \in Request
  BY ServiceConstants DEF TypeOK, InFlight, LockAndDrawKey, Ready, Steps
<1>3. /\ req'[t] \in Request /\ req'[t].op = req[t].op
      /\ req'[t].key = k /\ req'[t].addr = k
      /\ \A u \in Threads \ {t} : req'[u] = req[u]
      /\ req' \in [Threads -> Request \union {NoRequest}]
  BY <1>1, <1>2 DEF TypeOK, Request
<1>4. req[t].op = "create" /\ ks[t] = NoKeyStore /\ req'[t] # NoRequest
  BY <1>3, AbsentIsNoRequest DEF InFlight, LockAndDrawKey, Backing, NoRequest
<1>5. pc' = [pc EXCEPT ![t] = "save"] /\ UNCHANGED <<db, files, ks>>
  BY DEF LockAndDrawKey
<1>6. TypeOK'
  BY <1>1, <1>3, <1>5 DEF TypeOK, LockAndDrawKey, Steps
<1>7. InFlight'
  BY <1>2, <1>3, <1>4, <1>5 DEF TypeOK, InFlight, Ready, Steps, Backing
<1>8. AccountsHoldTheirKey'
  BY <1>5 DEF AccountsHoldTheirKey
<1>9. KeystoresHoldTheirKey'
  BY <1>3, <1>4, <1>5 DEF TypeOK, KeystoresHoldTheirKey
<1>10. KeystoreOpensForRequester'
  BY <1>3, <1>4, <1>5 DEF TypeOK, KeystoreOpensForRequester
<1>11. LockHeldByCreator'
  <2>1. \A u \in Threads : ~(req[u] # NoRequest /\ req[u].op = "create" /\ pc[u] # "lock")
    BY ServiceConstants DEF LockHeldByCreator, LockAndDrawKey
  <2>2. locker' = t
    BY DEF LockAndDrawKey
  <2> QED BY <1>3, <1>4, <1>5, <2>1, <2>2 DEF TypeOK, LockHeldByCreator
<1> QED BY <1>6, <1>7, <1>8, <1>9, <1>10, <1>11

\* A step of the backup that only moves on: request, keystore and lock stay.
LEMMA MoveKeeps ==
  ASSUME IInv, NEW t \in Threads, pc[t] \in Backing, NEW step \in Backing, Goto(t, step),
         UNCHANGED <<db, fresh>>, files' \in [Paths \X Keys -> Content],
         \A f \in Paths \X Keys :
           files'[f] \in KeyStore => files'[f].addr = f[2] /\ HoldsKey(files'[f], f[2])
  PROVE  IInv'
<1> USE DEF IInv
<1>1. TypeOK'
  BY DEF TypeOK, Goto, Steps, Backing
<1>2. InFlight'
  BY DEF TypeOK, InFlight, Goto, Ready, Steps, Backing
<1>3. AccountsHoldTheirKey'
  BY DEF AccountsHoldTheirKey
<1>4. KeystoresHoldTheirKey'
  BY DEF KeystoresHoldTheirKey, Goto
<1>5. KeystoreOpensForRequester'
  BY DEF KeystoreOpensForRequester, Goto
<1>6. LockHeldByCreator'
  BY DEF TypeOK, LockHeldByCreator, Goto, Backing
<1> QED BY <1>1, <1>2, <1>3, <1>4, <1>5, <1>6

\* While a backup is being written its file is that of an existing directory
\* and address, and the keystore in memory belongs to that address.
LEMMA BackingFile ==
  ASSUME IInv, NEW t \in Threads, pc[t] \in Backing
  PROVE  /\ File(t) \in Paths \X Keys
         /\ ks[t] \in KeyStore
         /\ ks[t].addr = File(t)[2] /\ HoldsKey(ks[t], File(t)[2])
<1> USE DEF IInv
<1>1. req[t] \in Request /\ req[t].addr \in Keys
  BY DEF TypeOK, InFlight, Backing, Ready, Steps
<1>2. ks[t] \in KeyStore /\ ks[t].addr = req[t].addr /\ HoldsKey(ks[t], req[t].addr)
  BY DEF TypeOK, InFlight, KeystoresHoldTheirKey
<1>3. req[t].path \in Paths
  BY <1>1 DEF Request
<1> QED BY <1>1, <1>2, <1>3 DEF File

\* Putting a file's own keystore, or no document at all, into it is sound.
LEMMA FilePut ==
  ASSUME IInv, NEW g \in Paths \X Keys, NEW c \in Content,
         c \in KeyStore => c.addr = g[2] /\ HoldsKey(c, g[2]),
         files' = [files EXCEPT ![g] = c]
  PROVE  /\ files' \in [Paths \X Keys -> Content]
         /\ \A f \in Paths \X Keys :
              files'[f] \in KeyStore => files'[f].addr = f[2] /\ HoldsKey(files'[f], f[2])
<1>1. files \in [Paths \X Keys -> Content]
  BY DEF IInv, TypeOK
<1>2. \A f \in Paths \X Keys :
        files[f] \in KeyStore => files[f].addr = f[2] /\ HoldsKey(files[f], f[2])
  BY DEF IInv, KeystoresHoldTheirKey
<1>3. \A f \in Paths \X Keys : files'[f] = IF f = g THEN c ELSE files[f]
  BY <1>1
<1>4. files' \in [Paths \X Keys -> Content]
  BY <1>1
<1> QED BY <1>2, <1>3, <1>4

LEMMA NoDocument == /\ {Absent, Empty, Torn} \subseteq Content
                    /\ \A c \in {Absent, Empty, Torn} : c \notin KeyStore
  BY FileConstants DEF Content

\* The keystores on disk are sound in a state with the invariant.
LEMMA FilesSound ==
  ASSUME IInv
  PROVE  /\ files \in [Paths \X Keys -> Content]
         /\ db \in [Keys -> Account \union {Absent}]
         /\ AccountsHoldTheirKey
         /\ \A f \in Paths \X Keys :
              files[f] \in KeyStore => files[f].addr = f[2] /\ HoldsKey(files[f], f[2])
  BY DEF IInv, TypeOK, KeystoresHoldTheirKey

LEMMA FailKeeps ==
  ASSUME IInv, NEW t \in Threads, Answer(t, "failed"), UNCHANGED <<db, files, fresh>>
  PROVE  IInv'
<1>1. AccountsHoldTheirKey'
  BY FilesSound DEF AccountsHoldTheirKey
<1>2. "failed" \in Ready
  BY DEF Ready
<1> QED BY <1>1, <1>2, AnswerKeeps, FilesSound

\* The keystore is made of what the table holds now: for the address the
\* request is about, and opened by the password the request came with.
LEMMA TakeKeystoreKeeps ==
  ASSUME IInv, NEW t \in Threads, NEW r \in Request, r.key \in Keys, r.addr = r.key,
         NEW a, a = db[r.key], Exportable(a, r.pw),
         ks' = [ks EXCEPT ![t] = ToKeyStore(a)], req' = [req EXCEPT ![t] = r],
         pc' = [pc EXCEPT ![t] = "exists"], UNCHANGED <<db, files, fresh, locker>>,
         locker = t <=> r.op = "create"
  PROVE  IInv'
<1> USE DEF IInv
<1>1. a \in Account /\ a.pub = r.key /\ HoldsKey(a, a.pub)
  BY DEF Exportable, TypeOK, AccountsHoldTheirKey
<1>2. /\ ToKeyStore(a) \in KeyStore /\ ToKeyStore(a).addr = r.key
      /\ HoldsKey(ToKeyStore(a), r.key)
      /\ \/ ToKeyStore(a).enc = NoKey
         \/ r.pw \in ValidPasswords /\ KeyIn(ToKeyStore(a), r.pw) = r.key
  BY <1>1, ToKeyStoreHoldsKey
<1>3. ToKeyStore(a) # NoKeyStore /\ r # NoRequest
  BY <1>2, FileConstants, AbsentIsNoRequest DEF NoKeyStore, NoRequest
<1>4. TypeOK'
  BY <1>2 DEF TypeOK, Steps
<1>5. InFlight'
  BY <1>3 DEF TypeOK, InFlight, Ready, Steps, Backing
<1>6. AccountsHoldTheirKey'
  BY DEF AccountsHoldTheirKey
<1>7. KeystoresHoldTheirKey'
  BY <1>2 DEF TypeOK, KeystoresHoldTheirKey
<1>8. KeystoreOpensForRequester'
  BY <1>2 DEF TypeOK, KeystoreOpensForRequester
<1>9. LockHeldByCreator'
  BY <1>3 DEF TypeOK, LockHeldByCreator
<1> QED BY <1>4, <1>5, <1>6, <1>7, <1>8, <1>9

LEMMA BackupKeeps ==
  ASSUME IInv, NEW t \in Threads, BackupAccountToKeyStore(t)
  PROVE  IInv'
<1>1. PICK a \in Reads(req[t].key) :
        IF Exportable(a, req[t].pw)
        THEN /\ ks' = [ks EXCEPT ![t] = ToKeyStore(a)]
             /\ pc' = [pc EXCEPT ![t] = "exists"]
             /\ UNCHANGED <<locker, req>>
        ELSE Answer(t, "failed")
  BY DEF BackupAccountToKeyStore
<1>2. UNCHANGED <<db, files, fresh>> /\ pc[t] = "read"
  BY DEF BackupAccountToKeyStore
<1>3. CASE Exportable(a, req[t].pw)
  <2>1. a = db[req[t].key]
    BY <1>3 DEF Reads, Exportable
  <2>2. req[t] \in Request /\ req[t].key \in Keys /\ req[t].addr = req[t].key
    BY <1>2 DEF IInv, TypeOK, InFlight, Ready, Steps
  <2>3. req' = [req EXCEPT ![t] = req[t]]
    BY <1>1, <1>3 DEF IInv, TypeOK
  <2>4. locker = t <=> req[t].op = "create"
    BY <1>2, <2>2, AbsentIsNoRequest DEF IInv, LockHeldByCreator, NoRequest
  <2> QED BY <1>1, <1>2, <1>3, <2>1, <2>2, <2>3, <2>4, TakeKeystoreKeeps
<1>4. CASE ~Exportable(a, req[t].pw)
  BY <1>1, <1>2, <1>4, FailKeeps
<1> QED BY <1>3, <1>4

LEMMA ExportKeeps ==
  ASSUME IInv, NEW t \in Threads, NEW a \in Keys, NEW pw \in MaybePassword,
         NEW path \in Paths, ExportAccountKeyStore(t, a, pw, path)
  PROVE  IInv'
<1> DEFINE r == [op |-> "export", addr |-> a, key |-> a, pw |-> pw,
                 over |-> FALSE, path |-> path]
<1>1. r \in Request
  BY DEF Request
<1>2. Begin(t, r, "exists") /\ Exportable(db[a], pw)
      /\ ks' = [ks EXCEPT ![t] = ToKeyStore(db[a])] /\ UNCHANGED <<db, files, fresh, locker>>
  BY DEF ExportAccountKeyStore
<1>3. locker # t
  BY <1>2 DEF IInv, LockHeldByCreator, InFlight, Begin
<1>4. /\ req' = [req EXCEPT ![t] = r]
      /\ pc' = [pc EXCEPT ![t] = "exists"]
  BY <1>2 DEF Begin
<1>5. r.key = a /\ r.addr = a /\ r.pw = pw /\ r.op # "create"
  OBVIOUS
<1> HIDE DEF r
<1> QED BY <1>1, <1>2, <1>3, <1>4, <1>5, TakeKeystoreKeeps

LEMMA FileExistsKeeps ==
  ASSUME IInv, NEW t \in Threads, FileExists(t)
  PROVE  IInv'
  BY MoveKeeps, FilesSound DEF FileExists, Backing

LEMMA CreateNewFileKeeps ==
  ASSUME IInv, NEW t \in Threads, CreateNewFile(t)
  PROVE  IInv'
<1>1. File(t) \in Paths \X Keys
  BY BackingFile DEF CreateNewFile, Backing
<1>2. CASE files[File(t)] = Absent
  <2>1. files' = [files EXCEPT ![File(t)] = Empty] /\ Goto(t, "open")
    BY <1>2 DEF CreateNewFile
  <2> QED BY <1>1, <2>1, NoDocument, FilePut, MoveKeeps DEF CreateNewFile, Backing
<1>3. CASE files[File(t)] # Absent
  BY <1>3, FailKeeps DEF CreateNewFile
<1> QED BY <1>2, <1>3

LEMMA OpenKeeps ==
  ASSUME IInv, NEW t \in Threads, OpenTruncates(t)
  PROVE  IInv'
<1>1. File(t) \in Paths \X Keys
  BY BackingFile DEF OpenTruncates, Backing
<1> QED BY <1>1, NoDocument, FilePut, MoveKeeps DEF OpenTruncates, Backing

LEMMA WriteKeeps ==
  ASSUME IInv, NEW t \in Threads, WriteKeyStore(t)
  PROVE  IInv'
<1> DEFINE c == Overlay(files[File(t)], ks[t])
<1>1. /\ File(t) \in Paths \X Keys /\ ks[t] \in KeyStore
      /\ ks[t].addr = File(t)[2] /\ HoldsKey(ks[t], File(t)[2])
  BY BackingFile DEF WriteKeyStore, Backing
<1>2. c \in {Torn, ks[t]}
  BY DEF Overlay
<1>3. c \in Content /\ (c \in KeyStore => c.addr = File(t)[2] /\ HoldsKey(c, File(t)[2]))
  BY <1>1, <1>2, NoDocument DEF Content
<1>4. files' = [files EXCEPT ![File(t)] = c] /\ Answer(t, "idle") /\ UNCHANGED <<db, fresh>>
  BY DEF WriteKeyStore
<1> HIDE DEF c
<1>5. /\ files' \in [Paths \X Keys -> Content]
      /\ \A f \in Paths \X Keys :
           files'[f] \in KeyStore => files'[f].addr = f[2] /\ HoldsKey(files'[f], f[2])
  BY <1>1, <1>3, <1>4, FilePut
<1>6. db' \in [Keys -> Account \union {Absent}] /\ AccountsHoldTheirKey'
  BY <1>4, FilesSound DEF AccountsHoldTheirKey
<1>7. "idle" \in Ready
  BY DEF Ready
<1> QED BY <1>4, <1>5, <1>6, <1>7, AnswerKeeps

LEMMA FileFailsKeeps ==
  ASSUME IInv, NEW t \in Threads, FileFails(t)
  PROVE  IInv'
<1>1. Answer(t, "failed") /\ UNCHANGED <<db, fresh>> /\ pc[t] \in Backing
  BY DEF FileFails, Backing
<1>2. CASE UNCHANGED files
  BY <1>1, <1>2, FailKeeps
<1>3. CASE files' = [files EXCEPT ![File(t)] = Torn]
  <2>1. File(t) \in Paths \X Keys
    BY <1>1, BackingFile
  <2>2. /\ files' \in [Paths \X Keys -> Content]
        /\ \A f \in Paths \X Keys :
             files'[f] \in KeyStore => files'[f].addr = f[2] /\ HoldsKey(files'[f], f[2])
    BY <1>3, <2>1, FilePut, NoDocument
  <2>3. db' \in [Keys -> Account \union {Absent}] /\ AccountsHoldTheirKey'
    BY <1>1, FilesSound DEF AccountsHoldTheirKey
  <2>4. "failed" \in Ready
    BY DEF Ready
  <2> QED BY <1>1, <2>2, <2>3, <2>4, AnswerKeeps
<1> QED BY <1>2, <1>3 DEF FileFails

LEMMA DeleteKeeps ==
  ASSUME IInv, NEW t \in Threads, DeleteAccount(t)
  PROVE  IInv'
<1>1. Answer(t, "idle") /\ UNCHANGED <<files, fresh>>
      /\ db' = [db EXCEPT ![req[t].addr] = Absent]
  BY DEF DeleteAccount
<1>2. db' \in [Keys -> Account \union {Absent}]
  BY <1>1, FilesSound
<1>3. AccountsHoldTheirKey'
  BY <1>1, FilesSound DEF AccountsHoldTheirKey
<1>4. "idle" \in Ready
  BY DEF Ready
<1> QED BY <1>1, <1>2, <1>3, <1>4, FilesSound, AnswerKeeps

LEMMA RestartKeeps ==
  ASSUME IInv, Restart
  PROVE  IInv'
<1> USE DEF IInv, Restart
<1>1. TypeOK'
  BY DEF TypeOK, Ready
<1>2. InFlight'
  BY DEF InFlight, Ready, Steps, Backing
<1>3. AccountsHoldTheirKey'
  BY DEF AccountsHoldTheirKey
<1>4. KeystoresHoldTheirKey'
  BY DEF KeystoresHoldTheirKey
<1>5. KeystoreOpensForRequester'
  BY DEF KeystoreOpensForRequester
<1>6. LockHeldByCreator'
  BY ServiceConstants DEF LockHeldByCreator
<1> QED BY <1>1, <1>2, <1>3, <1>4, <1>5, <1>6

LEMMA StutterKeeps ==
  ASSUME IInv, UNCHANGED vars
  PROVE  IInv'
  BY DEF IInv, vars, TypeOK, InFlight, AccountsHoldTheirKey, KeystoresHoldTheirKey,
         KeystoreOpensForRequester, LockHeldByCreator

LEMMA ArrivalKeeps ==
  ASSUME IInv, NEW t \in Threads, Arrival(t)
  PROVE  IInv'
<1> PICK pw \in MaybePassword :
      \/ CreateAccount(t, pw)
      \/ \E k \in Known, over \in BOOLEAN : ImportAccountByPrikey(t, k, pw, over)
      \/ \E s \in ClientKeyStores, over \in BOOLEAN :
           ImportAccountByKeyStore(t, s, pw, over)
      \/ \E a \in Known : RemoveAccount(t, a, pw)
      \/ \E a \in Known, path \in Paths : ExportAccountKeyStore(t, a, pw, path)
  BY DEF Arrival
<1>1. Known \subseteq Keys
  BY DEF Known
<1>2. \A s \in ClientKeyStores : s.addr \in Keys
  BY <1>1 DEF ClientKeyStores
<1>3. CASE CreateAccount(t, pw)
  BY <1>3, CreateKeeps
<1>4. CASE \E k \in Known, over \in BOOLEAN : ImportAccountByPrikey(t, k, pw, over)
  BY <1>1, <1>4, ImportByPrikeyKeeps
<1>5. CASE \E s \in ClientKeyStores, over \in BOOLEAN : ImportAccountByKeyStore(t, s, pw, over)
  BY <1>2, <1>5, ImportByKeyStoreKeeps
<1>6. CASE \E a \in Known : RemoveAccount(t, a, pw)
  BY <1>1, <1>6, RemoveKeeps
<1>7. CASE \E a \in Known, path \in Paths : ExportAccountKeyStore(t, a, pw, path)
  BY <1>1, <1>7, ExportKeeps
<1> QED BY <1>3, <1>4, <1>5, <1>6, <1>7

LEMMA NextIInv == IInv /\ [Next]_vars => IInv'
<1> SUFFICES ASSUME IInv, [Next]_vars PROVE IInv'
  OBVIOUS
<1>1. ASSUME NEW t \in Threads, Arrival(t) PROVE IInv'
  BY <1>1, ArrivalKeeps
<1>2. ASSUME NEW t \in Threads, Work(t) PROVE IInv'
  BY <1>2, LockKeeps, SaveKeeps, BackupKeeps, FileExistsKeeps, CreateNewFileKeeps,
     OpenKeeps, WriteKeeps, DeleteKeeps DEF Work
<1>3. ASSUME NEW t \in Threads, Fault(t) PROVE IInv'
  BY <1>3, FailKeeps, FileFailsKeeps DEF Fault, SaveFails, DeleteFails
<1>4. CASE Restart
  BY <1>4, RestartKeeps
<1>5. CASE UNCHANGED vars
  BY <1>5, StutterKeeps
<1> QED BY <1>1, <1>2, <1>3, <1>4, <1>5 DEF Next

LEMMA Invariance == Spec => []IInv
  BY InitIInv, NextIInv, PTL DEF Spec

-----------------------------------------------------------------------------
(***************************************************************************)
(* The results                                                             *)
(***************************************************************************)

\* The table, the files and every request in flight have the shape the code
\* gives them, in every reachable state.
THEOREM TypeCorrect == Spec => []TypeOK
<1>1. IInv => TypeOK
  BY DEF IInv
<1> QED BY <1>1, Invariance, PTL

\* Whatever requests overlap, fail or are cut by a restart: the record under
\* an address is the account of that address, with its key in exactly one
\* form.  (createAccount, importAccountByPrikey, importAccountByKeyStore)
THEOREM AccountsSound == Spec => []AccountsHoldTheirKey
<1>1. IInv => AccountsHoldTheirKey
  BY DEF IInv
<1> QED BY <1>1, Invariance, PTL

\* Every complete keystore file, and every keystore about to be written, is
\* that of its address, with its key in exactly one form, also when several
\* streams write one file.  (accountToKeyStore, backUpKeyStore)
THEOREM KeystoresSound == Spec => []KeystoresHoldTheirKey
<1>1. IInv => KeystoresHoldTheirKey
  BY DEF IInv
<1> QED BY <1>1, Invariance, PTL

\* No request writes a keystore its client cannot open, although the account
\* it backs up is read again after it was stored.  (backupAccountToKeyStore)
THEOREM RequesterCanOpen == Spec => []KeystoreOpensForRequester
<1>1. IInv => KeystoreOpensForRequester
  BY DEF IInv
<1> QED BY <1>1, Invariance, PTL

\* The lock of createAccount excludes and is never leaked: no failure and no
\* early return leaves it held by a thread that has answered.
THEOREM LockSound == Spec => []LockHeldByCreator
<1>1. IInv => LockHeldByCreator
  BY DEF IInv
<1> QED BY <1>1, Invariance, PTL

-----------------------------------------------------------------------------
(***************************************************************************)
(* AccountService implements AccountBook for clients whose requests do not *)
(* overlap, whatever writes fail and whenever the process restarts.        *)
(*                                                                         *)
(* What makes check-then-write atomic is that the state checked is still   *)
(* there at the write: StillAllowed.  Two overlapping requests break it    *)
(* (run account_cover_race), which is why the theorems here assume         *)
(* OneAtATime.                                                             *)
(***************************************************************************)

StillAllowed ==
  /\ \A k \in fresh : db[k] = Absent
  /\ \A t \in Threads :
       /\ pc[t] \in Steps \ {"lock"} => req[t].key \notin fresh
       /\ pc[t] = "save" /\ ~req[t].over => db[req[t].key] = Absent
       /\ pc[t] = "delete" => Exportable(db[req[t].key], req[t].pw)

SInv == IInv /\ StillAllowed

LEMMA SInvInit == Init => SInv
<1> SUFFICES ASSUME Init PROVE StillAllowed
  BY InitIInv DEF SInv
<1> QED BY ServiceConstants DEF Init, StillAllowed, Steps

\* Nothing is stored and the request, if any, is unchanged or over.
LEMMA QuietStep ==
  ASSUME SInv, NEW t \in Threads, UNCHANGED <<db, fresh>>,
         \A u \in Threads \ {t} : pc'[u] = pc[u] /\ req'[u] = req[u],
         \/ pc'[t] \in Ready
         \/ pc[t] \in Steps \ {"lock"} /\ pc'[t] \in Backing /\ req'[t] = req[t]
  PROVE  StillAllowed'
  BY DEF SInv, StillAllowed, Ready, Backing, Steps

LEMMA BeginStep ==
  ASSUME SInv, NEW t \in Threads, NEW r, NEW step \in {"save", "delete", "exists"},
         Begin(t, r, step), UNCHANGED <<db, fresh>>, r.key \notin fresh,
         step = "save" /\ ~r.over => db[r.key] = Absent,
         step = "delete" => Exportable(db[r.key], r.pw)
  PROVE  StillAllowed'
<1>1. /\ pc' = [pc EXCEPT ![t] = step] /\ req' = [req EXCEPT ![t] = r]
  BY DEF Begin
<1>2. pc \in [Threads -> Ready \union Steps] /\ req \in [Threads -> Request \union {NoRequest}]
  BY DEF SInv, IInv, TypeOK
<1> QED BY <1>1, <1>2 DEF SInv, StillAllowed

LEMMA ArrivalStep ==
  ASSUME SInv, ~ReadFaults, NEW t \in Threads, Arrival(t)
  PROVE  StillAllowed'
<1> PICK pw \in MaybePassword :
      \/ CreateAccount(t, pw)
      \/ \E k \in Known, over \in BOOLEAN : ImportAccountByPrikey(t, k, pw, over)
      \/ \E s \in ClientKeyStores, over \in BOOLEAN :
           ImportAccountByKeyStore(t, s, pw, over)
      \/ \E a \in Known : RemoveAccount(t, a, pw)
      \/ \E a \in Known, path \in Paths : ExportAccountKeyStore(t, a, pw, path)
  BY DEF Arrival
<1>1. \A k \in Known : k \in Keys /\ k \notin fresh
  BY DEF Known
<1>2. \A k \in Keys : Absent \in Reads(k) => db[k] = Absent
  BY DEF Reads
<1>3. CASE CreateAccount(t, pw)
  <2>1. /\ pc' = [pc EXCEPT ![t] = "lock"] /\ UNCHANGED <<db, fresh>>
        /\ \A u \in Threads \ {t} : req'[u] = req[u]
    BY <1>3 DEF CreateAccount, Begin, SInv, IInv, TypeOK
  <2>2. pc \in [Threads -> Ready \union Steps]
    BY DEF SInv, IInv, TypeOK
  <2> QED BY <2>1, <2>2 DEF SInv, StillAllowed
<1>4. ASSUME NEW k \in Known, NEW over \in BOOLEAN, ImportAccountByPrikey(t, k, pw, over)
      PROVE  StillAllowed'
  <2> DEFINE r == ImportRequest(k, k, pw, over)
  <2>1. Begin(t, r, "save") /\ UNCHANGED <<db, fresh>> /\ r.key = k /\ r.over = over
    BY <1>4 DEF ImportAccountByPrikey, ImportRequest
  <2>2. ~over => db[k] = Absent
    BY <1>1, <1>2, <1>4 DEF ImportAccountByPrikey
  <2> HIDE DEF r
  <2> QED BY <1>1, <2>1, <2>2, BeginStep
<1>5. ASSUME NEW s \in ClientKeyStores, NEW over \in BOOLEAN,
             ImportAccountByKeyStore(t, s, pw, over)
      PROVE  StillAllowed'
  <2> DEFINE r == ImportRequest(s.addr, KeyIn(s, pw), pw, over)
  <2>1. s.addr \in Known
    BY DEF ClientKeyStores
  <2>2. /\ Begin(t, r, "save") /\ UNCHANGED <<db, fresh>>
        /\ r.key = s.addr /\ r.over = over
    BY <1>5 DEF ImportAccountByKeyStore, ImportRequest
  <2>3. ~over => db[s.addr] = Absent
    BY <1>1, <1>2, <1>5, <2>1 DEF ImportAccountByKeyStore
  <2> HIDE DEF r
  <2> QED BY <1>1, <2>1, <2>2, <2>3, BeginStep
<1>6. ASSUME NEW a \in Known, RemoveAccount(t, a, pw)
      PROVE  StillAllowed'
  BY <1>1, <1>6, BeginStep DEF RemoveAccount
<1>7. ASSUME NEW a \in Known, NEW path \in Paths, ExportAccountKeyStore(t, a, pw, path)
      PROVE  StillAllowed'
  BY <1>1, <1>7, BeginStep DEF ExportAccountKeyStore
<1> QED BY <1>3, <1>4, <1>5, <1>6, <1>7

\* The key drawn under the lock is one no account can have.
LEMMA LockStep ==
  ASSUME SInv, OneAtATime, NEW t \in Threads, LockAndDrawKey(t)
  PROVE  StillAllowed'
<1>1. PICK k \in fresh : /\ fresh' = fresh \ {k}
                         /\ req' = [req EXCEPT ![t].addr = k, ![t].key = k]
  BY DEF LockAndDrawKey
<1>2. req[t] \in Request /\ \A u \in Threads : u = t
  BY DEF SInv, IInv, TypeOK, InFlight, LockAndDrawKey, Ready, Steps, OneAtATime
<1>3. req'[t].key = k /\ pc'[t] = "save" /\ db' = db
  BY <1>1, <1>2 DEF SInv, IInv, TypeOK, Request, LockAndDrawKey
<1>4. db[k] = Absent
  BY DEF SInv, StillAllowed
<1>5. \A j \in fresh' : db'[j] = Absent
  BY <1>1, <1>3 DEF SInv, StillAllowed
<1>6. \A u \in Threads : req'[u].key = k /\ pc'[u] = "save" /\ db'[req'[u].key] = Absent
  BY <1>2, <1>3, <1>4
<1>7. k \notin fresh'
  BY <1>1
<1> QED BY <1>5, <1>6, <1>7 DEF StillAllowed

LEMMA SaveStep ==
  ASSUME SInv, OneAtATime, NEW t \in Threads, SaveAccount(t)
  PROVE  StillAllowed'
<1>1. /\ db' = [db EXCEPT ![req[t].key] = Sealed(req[t].key, req[t].pw)]
      /\ pc' = [pc EXCEPT ![t] = "read"] /\ UNCHANGED <<req, fresh>>
  BY DEF SaveAccount, Goto
<1>2. \A u \in Threads : u = t
  BY DEF OneAtATime
<1>3. req[t].key \in Keys /\ req[t].key \notin fresh
  BY DEF SInv, IInv, InFlight, StillAllowed, SaveAccount, Steps
<1>4. pc'[t] = "read"
  BY <1>1 DEF SInv, IInv, TypeOK
<1>5. \A k \in fresh : k \in Keys /\ db'[k] = db[k]
  BY <1>1, <1>3, ServiceConstants DEF SInv, IInv, TypeOK
<1> QED BY <1>1, <1>2, <1>3, <1>4, <1>5 DEF SInv, StillAllowed

LEMMA DeleteStep ==
  ASSUME SInv, OneAtATime, NEW t \in Threads, DeleteAccount(t)
  PROVE  StillAllowed'
<1>1. /\ db' = [db EXCEPT ![req[t].addr] = Absent] /\ fresh' = fresh
      /\ pc' = [pc EXCEPT ![t] = "idle"]
  BY DEF DeleteAccount, Answer
<1>2. \A u \in Threads : u = t /\ pc'[u] = "idle"
  BY <1>1 DEF OneAtATime, SInv, IInv, TypeOK
<1>3. \A k \in fresh : k \in Keys /\ db'[k] = Absent
  BY <1>1, ServiceConstants DEF SInv, IInv, TypeOK, StillAllowed
<1> QED BY <1>1, <1>2, <1>3 DEF StillAllowed, Steps

\* The steps of the backup, and every failure, leave the table alone.
LEMMA AnswerStep ==
  ASSUME SInv, NEW t \in Threads, NEW outcome \in Ready, Answer(t, outcome),
         UNCHANGED <<db, fresh>>
  PROVE  StillAllowed'
<1>1. /\ pc'[t] \in Ready
      /\ \A u \in Threads \ {t} : pc'[u] = pc[u] /\ req'[u] = req[u]
  BY DEF Answer, SInv, IInv, TypeOK
<1> QED BY <1>1, QuietStep

LEMMA MoveStep ==
  ASSUME SInv, NEW t \in Threads, NEW step \in Backing, pc[t] \in Steps \ {"lock"},
         pc' = [pc EXCEPT ![t] = step], UNCHANGED <<db, fresh, req>>
  PROVE  StillAllowed'
<1>1. /\ pc'[t] = step
      /\ \A u \in Threads \ {t} : pc'[u] = pc[u] /\ req'[u] = req[u]
  BY DEF SInv, IInv, TypeOK
<1> QED BY <1>1, QuietStep

LEMMA WorkStep ==
  ASSUME SInv, OneAtATime, NEW t \in Threads, Work(t)
  PROVE  StillAllowed'
<1>1. CASE LockAndDrawKey(t)
  BY <1>1, LockStep
<1>2. CASE SaveAccount(t)
  BY <1>2, SaveStep
<1>3. CASE DeleteAccount(t)
  BY <1>3, DeleteStep
<1>4. CASE BackupAccountToKeyStore(t)
  <2>1. UNCHANGED <<db, fresh>> /\ pc[t] \in Steps \ {"lock"}
    BY <1>4 DEF BackupAccountToKeyStore, Steps
  <2>2. \/ Answer(t, "failed")
        \/ pc' = [pc EXCEPT ![t] = "exists"] /\ UNCHANGED req
    BY <1>4 DEF BackupAccountToKeyStore
  <2> QED BY <2>1, <2>2, AnswerStep, MoveStep DEF Ready, Backing
<1>5. CASE FileExists(t)
  <2>1. PICK step \in {"create", "open"} : Goto(t, step)
    BY <1>5 DEF FileExists
  <2> QED BY <1>5, <2>1, MoveStep DEF FileExists, Goto, Backing, Steps
<1>6. CASE CreateNewFile(t)
  <2>1. Goto(t, "open") \/ Answer(t, "failed")
    BY <1>6 DEF CreateNewFile
  <2> QED BY <1>6, <2>1, MoveStep, AnswerStep DEF CreateNewFile, Goto, Backing, Steps, Ready
<1>7. CASE OpenTruncates(t)
  BY <1>7, MoveStep DEF OpenTruncates, Goto, Backing, Steps
<1>8. CASE WriteKeyStore(t)
  BY <1>8, AnswerStep DEF WriteKeyStore, Ready
<1> QED BY <1>1, <1>2, <1>3, <1>4, <1>5, <1>6, <1>7, <1>8 DEF Work

LEMMA SInvNext == OneAtATime /\ SInv /\ [Next]_vars => SInv'
<1> SUFFICES ASSUME OneAtATime, SInv, [Next]_vars PROVE SInv'
  OBVIOUS
<1>1. IInv'
  BY NextIInv DEF SInv
<1>2. ASSUME NEW t \in Threads, Arrival(t) PROVE StillAllowed'
  BY <1>2, ArrivalStep DEF OneAtATime
<1>3. ASSUME NEW t \in Threads, Work(t) PROVE StillAllowed'
  BY <1>3, WorkStep
<1>4. ASSUME NEW t \in Threads, Fault(t) PROVE StillAllowed'
  BY <1>4, AnswerStep DEF Fault, SaveFails, FileFails, DeleteFails, Ready
<1>5. ASSUME Restart PROVE StillAllowed'
  <2>1. UNCHANGED <<db, fresh>> /\ \A t \in Threads : pc'[t] = "idle"
    BY <1>5 DEF Restart
  <2> QED BY <2>1 DEF SInv, StillAllowed, Steps
<1>6. ASSUME UNCHANGED vars PROVE StillAllowed'
  <2>1. UNCHANGED <<db, fresh, pc, req>>
    BY <1>6 DEF vars
  <2> QED BY <2>1 DEF SInv, StillAllowed
<1>7. StillAllowed'
  BY <1>2, <1>3, <1>4, <1>5, <1>6 DEF Next
<1> QED BY <1>1, <1>7 DEF SInv

LEMMA SerialInvariance ==
  ASSUME OneAtATime
  PROVE  Spec => []SInv
<1>1. SInv /\ [Next]_vars => SInv'
  BY SInvNext
<1> QED BY SInvInit, <1>1, PTL DEF Spec
-----------------------------------------------------------------------------
(***************************************************************************)
(* The two writes of the table happen in a state that allows them          *)
(***************************************************************************)
LEMMA TableWrites ==
  ASSUME [Next]_vars
  PROVE  db' = db \/ \E t \in Threads : SaveAccount(t) \/ DeleteAccount(t)
<1>1. ASSUME NEW t \in Threads, Arrival(t) PROVE db' = db
  BY <1>1 DEF Arrival, CreateAccount, ImportAccountByPrikey, ImportAccountByKeyStore,
     RemoveAccount, ExportAccountKeyStore
<1>2. ASSUME NEW t \in Threads, Work(t)
      PROVE  db' = db \/ SaveAccount(t) \/ DeleteAccount(t)
  BY <1>2 DEF Work, LockAndDrawKey, BackupAccountToKeyStore, FileExists, CreateNewFile,
     OpenTruncates, WriteKeyStore
<1>3. ASSUME NEW t \in Threads, Fault(t) PROVE db' = db
  BY <1>3 DEF Fault, SaveFails, FileFails, DeleteFails
<1>4. Restart \/ UNCHANGED vars => db' = db
  BY DEF Restart, vars
<1> QED BY <1>1, <1>2, <1>3, <1>4 DEF Next

\* A save stores an account of the request's key, in place of another one
\* only if the request says so.
LEMMA SaveAllowed ==
  ASSUME SInv, NEW t \in Threads, SaveAccount(t)
  PROVE  LET k == req[t].key IN
         /\ k \in Keys /\ req[t].pw \in MaybePassword /\ req[t].over \in BOOLEAN
         /\ Sealed(k, req[t].pw) \in Account
         /\ db' = [db EXCEPT ![k] = Sealed(k, req[t].pw)]
         /\ req[t].over \/ db[k] = Absent
         /\ pc[t] = "save" /\ pc' = [pc EXCEPT ![t] = "read"] /\ req' = req
<1>1. /\ pc[t] = "save" /\ pc' = [pc EXCEPT ![t] = "read"] /\ req' = req
      /\ db' = [db EXCEPT ![req[t].key] = Sealed(req[t].key, req[t].pw)]
  BY DEF SaveAccount, Goto
<1>2. req[t] \in Request /\ req[t].key \in Keys
  BY <1>1 DEF SInv, IInv, TypeOK, InFlight, Steps, Ready
<1>3. req[t].pw \in MaybePassword /\ req[t].over \in BOOLEAN
  BY <1>2 DEF Request
<1>4. Sealed(req[t].key, req[t].pw) \in Account
  BY <1>2, <1>3, SealedHoldsKey
<1>5. req[t].over \/ db[req[t].key] = Absent
  BY <1>1 DEF SInv, StillAllowed
<1> QED BY <1>1, <1>2, <1>3, <1>4, <1>5

\* A deletion deletes an account that its request's password opens.
LEMMA DeleteAllowed ==
  ASSUME SInv, NEW t \in Threads, DeleteAccount(t)
  PROVE  LET a == req[t].key IN
         /\ a \in Keys /\ req[t].pw \in MaybePassword /\ req[t].over \in BOOLEAN
         /\ db[a] # Absent /\ Unlock(db[a], req[t].pw) = a
         /\ db' = [db EXCEPT ![a] = Absent]
         /\ pc[t] = "delete" /\ pc' = [pc EXCEPT ![t] = "idle"]
         /\ req' = [req EXCEPT ![t] = NoRequest]
<1> DEFINE a == req[t].key
<1>1. /\ pc[t] = "delete" /\ pc' = [pc EXCEPT ![t] = "idle"]
      /\ req' = [req EXCEPT ![t] = NoRequest]
      /\ db' = [db EXCEPT ![req[t].addr] = Absent]
  BY DEF DeleteAccount, Answer
<1>2. req[t] \in Request /\ a \in Keys /\ req[t].addr = a
  BY <1>1 DEF SInv, IInv, TypeOK, InFlight, Steps, Ready
<1>3. req[t].pw \in MaybePassword /\ req[t].over \in BOOLEAN
  BY <1>2 DEF Request
<1>4. Exportable(db[a], req[t].pw)
  BY <1>1 DEF SInv, StillAllowed
<1>5. db[a] \in Account /\ db[a].pub = a /\ HoldsKey(db[a], a)
  BY <1>2, <1>4 DEF Exportable, SInv, IInv, TypeOK, AccountsHoldTheirKey
<1>6. Unlock(db[a], req[t].pw) = a
  <2>1. CASE IsEncrypted(db[a])
    BY <1>4, <1>5, <2>1 DEF Exportable, Unlock, HoldsKey, IsEncrypted
  <2>2. CASE ~IsEncrypted(db[a])
    BY <1>5, <2>2 DEF Unlock, HoldsKey, IsEncrypted
  <2> QED BY <2>1, <2>2
<1>7. db[a] # Absent
  BY <1>5, AbsentIsNoAccount
<1> QED BY <1>1, <1>2, <1>3, <1>6, <1>7

-----------------------------------------------------------------------------
(***************************************************************************)
(* The backup says what the table says                                     *)
(***************************************************************************)
\* The keystore of a backup is that of the account as it is stored, and the
\* file it is written into was emptied.
BackupSound ==
  \A t \in Threads :
    /\ pc[t] \in Backing => ks[t] = ToKeyStore(db[req[t].key])
    /\ pc[t] = "write" => files[File(t)] = Empty

LEMMA BackupElsewhere ==
  ASSUME OneAtATime, NEW t \in Threads, pc'[t] \notin Backing
  PROVE  BackupSound'
<1>1. \A u \in Threads : pc'[u] \notin Backing
  BY DEF OneAtATime
<1> QED BY <1>1 DEF BackupSound, Backing

LEMMA BackupArrival ==
  ASSUME OneAtATime, SInv, NEW t \in Threads, Arrival(t)
  PROVE  BackupSound'
<1> USE DEF SInv, IInv, TypeOK
<1>1. CASE \E a \in Known, pw \in MaybePassword, path \in Paths :
             ExportAccountKeyStore(t, a, pw, path)
  <2>1. PICK a \in Known, pw \in MaybePassword, path \in Paths :
          ExportAccountKeyStore(t, a, pw, path)
    BY <1>1
  <2>2. /\ pc'[t] = "exists" /\ req'[t].key = a /\ ks'[t] = ToKeyStore(db[a]) /\ db' = db
    BY <2>1 DEF ExportAccountKeyStore, Begin
  <2>3. \A u \in Threads : u = t
    BY DEF OneAtATime
  <2> QED BY <2>2, <2>3 DEF BackupSound
<1>2. ASSUME ~ \E a \in Known, pw \in MaybePassword, path \in Paths :
                 ExportAccountKeyStore(t, a, pw, path)
      PROVE  pc'[t] \notin Backing
  BY <1>2 DEF Arrival, CreateAccount, ImportAccountByPrikey, ImportAccountByKeyStore,
     RemoveAccount, Begin, Backing
<1> QED BY <1>1, <1>2, BackupElsewhere

\* What is read for the backup is what is stored.
LEMMA BackupRead ==
  ASSUME OneAtATime, SInv, NEW t \in Threads, BackupAccountToKeyStore(t)
  PROVE  BackupSound'
<1> USE DEF SInv, IInv, TypeOK
<1>1. CASE Answer(t, "failed")
  <2>1. pc'[t] = "failed"
    BY <1>1 DEF Answer
  <2> QED BY <2>1, BackupElsewhere DEF Backing
<1>2. CASE /\ ks' = [ks EXCEPT ![t] = ToKeyStore(db[req[t].key])]
           /\ pc' = [pc EXCEPT ![t] = "exists"]
           /\ UNCHANGED <<req, db>>
  <2>1. pc'[t] = "exists" /\ ks'[t] = ToKeyStore(db'[req'[t].key])
    BY <1>2
  <2>2. \A u \in Threads : u = t
    BY DEF OneAtATime
  <2> QED BY <2>1, <2>2 DEF BackupSound
<1>3. Reads(req[t].key) = {db[req[t].key]}
  BY DEF OneAtATime, Reads
<1> QED BY <1>1, <1>2, <1>3 DEF BackupAccountToKeyStore

\* A backup that goes on with the same keystore, and is not yet to be written.
LEMMA BackupMoves ==
  ASSUME OneAtATime, SInv, BackupSound, NEW t \in Threads, NEW step \in Backing \ {"write"},
         pc[t] \in Backing, Goto(t, step), db' = db
  PROVE  BackupSound'
<1>1. pc'[t] = step /\ req' = req /\ ks' = ks
  BY DEF Goto, SInv, IInv, TypeOK
<1>2. \A u \in Threads : u = t
  BY DEF OneAtATime
<1> QED BY <1>1, <1>2 DEF BackupSound

LEMMA BackupOpens ==
  ASSUME OneAtATime, SInv, BackupSound, NEW t \in Threads, OpenTruncates(t)
  PROVE  BackupSound'
<1>1. File(t) \in Paths \X Keys
  BY BackingFile DEF OpenTruncates, Backing, SInv
<1>2. /\ pc'[t] = "write" /\ req' = req /\ ks' = ks /\ db' = db
      /\ files'[File(t)] = Empty
  BY <1>1 DEF OpenTruncates, Goto, SInv, IInv, TypeOK
<1>3. File(t)' = File(t)
  BY <1>2 DEF File
<1>4. \A u \in Threads : u = t
  BY DEF OneAtATime
<1>5. ks[t] = ToKeyStore(db[req[t].key])
  BY DEF BackupSound, OpenTruncates, Backing
<1> QED BY <1>2, <1>3, <1>4, <1>5 DEF BackupSound

LEMMA BackupNext ==
  OneAtATime /\ SInv /\ BackupSound /\ [Next]_vars => BackupSound'
<1> SUFFICES ASSUME OneAtATime, SInv, BackupSound, [Next]_vars PROVE BackupSound'
  OBVIOUS
<1>1. ASSUME NEW t \in Threads, Work(t) PROVE BackupSound'
  <2>1. CASE \/ LockAndDrawKey(t) \/ SaveAccount(t) \/ DeleteAccount(t) \/ WriteKeyStore(t)
    <3>1. pc'[t] \in {"save", "read", "idle"}
      BY <2>1 DEF LockAndDrawKey, SaveAccount, DeleteAccount, WriteKeyStore, Goto, Answer,
         SInv, IInv, TypeOK
    <3> QED BY <3>1, BackupElsewhere DEF Backing
  <2>2. CASE BackupAccountToKeyStore(t)
    BY <2>2, BackupRead
  <2>3. CASE FileExists(t)
    <3>1. PICK step \in {"create", "open"} : Goto(t, step)
      BY <2>3 DEF FileExists
    <3> QED BY <2>3, <3>1, BackupMoves DEF FileExists, Backing
  <2>4. CASE CreateNewFile(t)
    <3>1. CASE Goto(t, "open")
      BY <2>4, <3>1, BackupMoves DEF CreateNewFile, Backing
    <3>2. CASE Answer(t, "failed")
      <4>1. pc'[t] = "failed"
        BY <3>2 DEF Answer, SInv, IInv, TypeOK
      <4> QED BY <4>1, BackupElsewhere DEF Backing
    <3> QED BY <2>4, <3>1, <3>2 DEF CreateNewFile
  <2>5. CASE OpenTruncates(t)
    BY <2>5, BackupOpens
  <2> QED BY <1>1, <2>1, <2>2, <2>3, <2>4, <2>5 DEF Work
<1>2. ASSUME NEW t \in Threads, Fault(t) PROVE BackupSound'
  <2>1. pc'[t] = "failed"
    BY <1>2 DEF Fault, SaveFails, FileFails, DeleteFails, Answer, SInv, IInv, TypeOK
  <2> QED BY <2>1, BackupElsewhere DEF Backing
<1>3. CASE Restart
  BY <1>3 DEF Restart, BackupSound, Backing
<1>4. CASE UNCHANGED vars
  BY <1>4 DEF vars, BackupSound, File
<1> QED BY <1>1, <1>2, <1>3, <1>4, BackupArrival DEF Next

\* Into an emptied file the whole keystore is written.
LEMMA WritesStep == SInv /\ BackupSound => WritesWhatIsStored
<1> SUFFICES ASSUME SInv, BackupSound, NEW t \in Threads, WriteKeyStore(t)
             PROVE  files'[File(t)] = ToKeyStore(db'[req[t].addr])
  BY DEF WritesWhatIsStored
<1>1. pc[t] = "write" /\ db' = db /\ files' = [files EXCEPT ![File(t)] = Overlay(@, ks[t])]
  BY DEF WriteKeyStore
<1>2. /\ File(t) \in Paths \X Keys /\ ks[t] \in KeyStore
      /\ files \in [Paths \X Keys -> Content]
      /\ req[t].addr = req[t].key
  BY <1>1, BackingFile, FilesSound DEF SInv, IInv, InFlight, Backing, Steps
<1>3. files[File(t)] = Empty /\ ks[t] = ToKeyStore(db[req[t].key])
  BY <1>1 DEF BackupSound, Backing
<1>4. ks[t] # Empty /\ ks[t] # Torn
  BY <1>2, FileConstants
<1>5. Overlay(Empty, ks[t]) = ks[t]
  <2>1. Length(Empty) = 0
    BY FileConstants DEF Length
  <2>2. Length(ks[t]) \in {1, 2}
    BY <1>4 DEF Length
  <2> QED BY <2>1, <2>2 DEF Overlay
<1> QED BY <1>1, <1>2, <1>3, <1>5

\* For clients whose requests do not overlap, a keystore that is written is
\* complete and says what the table says, whatever failed or stopped before.
\* (saveAccount followed by backupAccountToKeyStore)
THEOREM BackupsAgree ==
  ASSUME OneAtATime
  PROVE  Spec => BackupInStep
<1>1. Init => BackupSound
  BY DEF Init, BackupSound, Backing
<1>2. SInv /\ BackupSound /\ [Next]_vars => BackupSound'
  BY BackupNext
<1>3. SInv /\ BackupSound /\ [Next]_vars => [WritesWhatIsStored]_vars
  BY WritesStep
<1> QED BY <1>1, <1>2, <1>3, SerialInvariance, PTL DEF Spec, BackupInStep
-----------------------------------------------------------------------------
(***************************************************************************)
(* The refinement                                                          *)
(***************************************************************************)
Asked == [t \in Threads |-> Ordered(t)]

\* A request that is not about to write the table has no order in the book.
LEMMA AskedOfOne ==
  ASSUME NEW t \in Threads,
         \A u \in Threads \ {t} : pc'[u] = pc[u] /\ req'[u] = req[u]
  PROVE  Asked' = [Asked EXCEPT ![t] = Ordered(t)']
  BY DEF Asked, Ordered

LEMMA BookSealed ==
  ASSUME NEW k, NEW pw
  PROVE  Book!Sealed(k, pw) = Sealed(k, pw)
  BY DEF Book!Sealed, Sealed, Book!Encrypt, Encrypt, Book!NewAccount, NewAccount

LEMMA BookUnlock ==
  ASSUME NEW a, NEW pw
  PROVE  Book!Unlock(a, pw) = Unlock(a, pw)
  BY DEF Book!Unlock, Unlock, Book!IsEncrypted, IsEncrypted, Book!ValidatePassword,
     ValidatePassword, Book!Decrypt, Decrypt

LEMMA OrderOf ==
  ASSUME NEW kind \in {"put", "remove"}, NEW k \in Keys, NEW pw \in MaybePassword,
         NEW over \in BOOLEAN
  PROVE  [kind |-> kind, key |-> k, pw |-> pw, over |-> over] \in Book!Order
  BY DEF Book!Order, Book!MaybePassword, MaybePassword

\* A request that comes to a write of the table is asked of the book.
LEMMA AskStep ==
  ASSUME NEW t \in Threads, Ordered(t) = Absent, Ordered(t)' \in Book!Order,
         \A u \in Threads \ {t} : pc'[u] = pc[u] /\ req'[u] = req[u], db' = db
  PROVE  Book!BookNext
<1>1. Asked' = [Asked EXCEPT ![t] = Ordered(t)']
  BY AskedOfOne
<1>2. Asked[t] = Absent
  BY DEF Asked
<1>3. Book!Ask(t, Ordered(t)')
  BY <1>1, <1>2 DEF Asked, Book!Ask, Book!NoOrder
<1> QED BY <1>3 DEF Book!BookNext

\* A request that does not come to one is not seen in the book.
LEMMA HiddenStep ==
  ASSUME NEW t \in Threads, Ordered(t) = Absent, Ordered(t)' = Absent,
         \A u \in Threads \ {t} : pc'[u] = pc[u] /\ req'[u] = req[u], db' = db
  PROVE  UNCHANGED Book!bookVars
<1>1. Asked' = [Asked EXCEPT ![t] = Ordered(t)']
  BY AskedOfOne
<1>2. Asked' = Asked
  BY <1>1 DEF Asked
<1> QED BY <1>2 DEF Asked, Book!bookVars

\* A request that ends without having written is abandoned.
LEMMA AbandonStep ==
  ASSUME NEW S \in SUBSET Threads, db' = db,
         \A t \in S : Ordered(t)' = Absent,
         \A u \in Threads \ S : pc'[u] = pc[u] /\ req'[u] = req[u]
  PROVE  Book!BookNext
<1>1. \A u \in Threads \ S : Ordered(u)' = Ordered(u)
  BY DEF Ordered
<1>2. Asked' = [t \in Threads |-> IF t \in S THEN Absent ELSE Asked[t]]
  BY <1>1 DEF Asked
<1>3. Book!Abandon(S)
  BY <1>2 DEF Asked, Book!Abandon, Book!NoOrder
<1> QED BY <1>3 DEF Book!BookNext

LEMMA PutStep ==
  ASSUME SInv, NEW t \in Threads, SaveAccount(t)
  PROVE  Book!BookNext
<1> DEFINE o == Ordered(t)
<1>1. o = [kind |-> "put", key |-> req[t].key, pw |-> req[t].pw, over |-> req[t].over]
  BY SaveAllowed DEF Ordered
<1>2. Ordered(t)' = Absent
  BY SaveAllowed DEF Ordered, SInv, IInv, TypeOK
<1>3. Asked' = [Asked EXCEPT ![t] = Absent]
  <2>1. \A u \in Threads \ {t} : pc'[u] = pc[u] /\ req'[u] = req[u]
    BY SaveAllowed DEF SInv, IInv, TypeOK
  <2> QED BY <1>2, <2>1, AskedOfOne
<1>4. /\ o.kind = "put" /\ (o.over \/ db[o.key] = Absent)
      /\ db' = [db EXCEPT ![o.key] = Book!Sealed(o.key, o.pw)]
  BY <1>1, SaveAllowed, BookSealed
<1>5. o # Absent
  BY <1>1, SaveAllowed, OrderOf, AbsentIsNoOrder
<1>6. Book!Put(t)
  BY <1>3, <1>4, <1>5 DEF Asked, Book!Put, Book!Done, Book!NoOrder
<1> QED BY <1>6 DEF Book!BookNext

LEMMA RemoveStep ==
  ASSUME SInv, NEW t \in Threads, DeleteAccount(t)
  PROVE  Book!BookNext
<1> DEFINE o == Ordered(t)
<1>1. o = [kind |-> "remove", key |-> req[t].key, pw |-> req[t].pw, over |-> req[t].over]
  BY DeleteAllowed DEF Ordered
<1>2. Ordered(t)' = Absent
  BY DeleteAllowed DEF Ordered, SInv, IInv, TypeOK
<1>3. \A u \in Threads \ {t} : pc'[u] = pc[u] /\ req'[u] = req[u]
  BY DeleteAllowed DEF SInv, IInv, TypeOK
<1>4. Asked' = [Asked EXCEPT ![t] = Absent]
  BY <1>2, <1>3, AskedOfOne
<1>5. /\ o.kind = "remove" /\ db[o.key] # Absent
      /\ Book!Unlock(db[o.key], o.pw) = o.key
      /\ db' = [db EXCEPT ![o.key] = Absent]
  BY <1>1, DeleteAllowed, BookUnlock
<1>6. o # Absent
  BY <1>1, DeleteAllowed, OrderOf, AbsentIsNoOrder
<1>7. Book!Remove(t)
  BY <1>4, <1>5, <1>6 DEF Asked, Book!Remove, Book!Done, Book!NoOrder
<1> QED BY <1>7 DEF Book!BookNext

\* What a step of one thread leaves alone.
LEMMA OnlyOne ==
  ASSUME SInv, NEW t \in Threads, Arrival(t) \/ Work(t) \/ Fault(t)
  PROVE  \A u \in Threads \ {t} : pc'[u] = pc[u] /\ req'[u] = req[u]
<1> USE DEF SInv, IInv, TypeOK
<1>1. CASE Arrival(t)
  BY <1>1 DEF Arrival, CreateAccount, ImportAccountByPrikey, ImportAccountByKeyStore,
     RemoveAccount, ExportAccountKeyStore, Begin
<1>2. CASE Work(t)
  BY <1>2 DEF Work, LockAndDrawKey, SaveAccount, BackupAccountToKeyStore, FileExists,
     CreateNewFile, OpenTruncates, WriteKeyStore, DeleteAccount, Goto, Answer
<1>3. CASE Fault(t)
  BY <1>3 DEF Fault, SaveFails, FileFails, DeleteFails, Answer
<1> QED BY <1>1, <1>2, <1>3

LEMMA BookArrival ==
  ASSUME SInv, NEW t \in Threads, Arrival(t)
  PROVE  Book!BookNext \/ UNCHANGED Book!bookVars
<1> PICK pw \in MaybePassword :
      \/ CreateAccount(t, pw)
      \/ \E k \in Known, over \in BOOLEAN : ImportAccountByPrikey(t, k, pw, over)
      \/ \E s \in ClientKeyStores, over \in BOOLEAN :
           ImportAccountByKeyStore(t, s, pw, over)
      \/ \E a \in Known : RemoveAccount(t, a, pw)
      \/ \E a \in Known, path \in Paths : ExportAccountKeyStore(t, a, pw, path)
  BY DEF Arrival
<1>1. Known \subseteq Keys /\ \A s \in ClientKeyStores : s.addr \in Keys
  BY DEF Known, ClientKeyStores
<1>2. \A u \in Threads \ {t} : pc'[u] = pc[u] /\ req'[u] = req[u]
  BY OnlyOne
<1>3. ASSUME NEW r, NEW step \in Steps, Begin(t, r, step), db' = db
      PROVE  /\ Ordered(t) = Absent /\ pc'[t] = step /\ req'[t] = r
  BY <1>3 DEF Begin, Ordered, Ready, SInv, IInv, TypeOK
<1>4. CASE CreateAccount(t, pw)
  <2>1. Ordered(t) = Absent /\ pc'[t] = "lock" /\ db' = db
    BY <1>3, <1>4 DEF CreateAccount, Steps
  <2>2. Ordered(t)' = Absent
    BY <2>1 DEF Ordered
  <2> QED BY <1>2, <2>1, <2>2, HiddenStep
<1>5. ASSUME NEW k \in Keys, NEW over \in BOOLEAN,
             Begin(t, ImportRequest(k, k, pw, over), "save"), db' = db
      PROVE  Book!BookNext
  <2>1. Ordered(t) = Absent /\ pc'[t] = "save" /\ req'[t] = ImportRequest(k, k, pw, over)
    BY <1>3, <1>5 DEF Steps
  <2>2. Ordered(t)' = [kind |-> "put", key |-> k, pw |-> pw, over |-> over]
    BY <2>1 DEF Ordered, ImportRequest
  <2>3. Ordered(t)' \in Book!Order
    BY <2>2, OrderOf
  <2> QED BY <1>2, <1>5, <2>1, <2>3, AskStep
<1>6. CASE \E k \in Known, over \in BOOLEAN : ImportAccountByPrikey(t, k, pw, over)
  BY <1>1, <1>5, <1>6 DEF ImportAccountByPrikey
<1>7. CASE \E s \in ClientKeyStores, over \in BOOLEAN : ImportAccountByKeyStore(t, s, pw, over)
  <2>1. PICK s \in ClientKeyStores, over \in BOOLEAN : ImportAccountByKeyStore(t, s, pw, over)
    BY <1>7
  <2>2. Begin(t, ImportRequest(s.addr, s.addr, pw, over), "save") /\ db' = db
    BY <2>1 DEF ImportAccountByKeyStore
  <2> QED BY <1>1, <1>5, <2>2
<1>8. CASE \E a \in Known : RemoveAccount(t, a, pw)
  <2>1. PICK a \in Known : RemoveAccount(t, a, pw)
    BY <1>8
  <2>2. Ordered(t) = Absent /\ pc'[t] = "delete" /\ db' = db
        /\ req'[t].key = a /\ req'[t].pw = pw /\ req'[t].over = FALSE
    BY <1>3, <2>1 DEF RemoveAccount, Steps
  <2>3. Ordered(t)' = [kind |-> "remove", key |-> a, pw |-> pw, over |-> FALSE]
    BY <2>2 DEF Ordered
  <2>4. Ordered(t)' \in Book!Order
    BY <1>1, <2>3, OrderOf
  <2> QED BY <1>2, <2>2, <2>4, AskStep
<1>9. CASE \E a \in Known, path \in Paths : ExportAccountKeyStore(t, a, pw, path)
  <2>1. Ordered(t) = Absent /\ pc'[t] = "exists" /\ db' = db
    BY <1>3, <1>9 DEF ExportAccountKeyStore, Steps
  <2>2. Ordered(t)' = Absent
    BY <2>1 DEF Ordered
  <2> QED BY <1>2, <2>1, <2>2, HiddenStep
<1> QED BY <1>4, <1>6, <1>7, <1>8, <1>9

\* A new key is asked to be put as soon as it is drawn.
LEMMA BookLock ==
  ASSUME SInv, SInv', NEW t \in Threads, LockAndDrawKey(t)
  PROVE  Book!BookNext
<1>1. pc[t] = "lock" /\ pc' = [pc EXCEPT ![t] = "save"] /\ db' = db
  BY DEF LockAndDrawKey
<1>2. pc'[t] = "save" /\ Ordered(t) = Absent
  BY <1>1 DEF Ordered, SInv, IInv, TypeOK
<1>3. req'[t].key \in Keys /\ req'[t] \in Request
  BY <1>2 DEF SInv, IInv, TypeOK, InFlight, Ready, Steps
<1>4. req'[t].pw \in MaybePassword /\ req'[t].over \in BOOLEAN
  BY <1>3 DEF Request
<1>5. Ordered(t)' = [kind |-> "put", key |-> req'[t].key, pw |-> req'[t].pw,
                     over |-> req'[t].over]
  BY <1>2 DEF Ordered
<1>6. Ordered(t)' \in Book!Order
  BY <1>3, <1>4, <1>5, OrderOf
<1>7. \A u \in Threads \ {t} : pc'[u] = pc[u] /\ req'[u] = req[u]
  BY OnlyOne DEF Work
<1> QED BY <1>1, <1>2, <1>6, <1>7, AskStep

\* Steps between the writes, and the failures of the backup, are hidden.
LEMMA BookHidden ==
  ASSUME SInv, NEW t \in Threads, db' = db,
         pc[t] \notin {"save", "delete"}, pc'[t] \notin {"save", "delete"},
         Arrival(t) \/ Work(t) \/ Fault(t)
  PROVE  UNCHANGED Book!bookVars
<1>1. Ordered(t) = Absent /\ Ordered(t)' = Absent
  BY DEF Ordered
<1> QED BY <1>1, OnlyOne, HiddenStep

LEMMA BookWork ==
  ASSUME SInv, SInv', NEW t \in Threads, Work(t)
  PROVE  Book!BookNext \/ UNCHANGED Book!bookVars
<1>1. CASE LockAndDrawKey(t)
  BY <1>1, BookLock
<1>2. CASE SaveAccount(t)
  BY <1>2, PutStep
<1>3. CASE DeleteAccount(t)
  BY <1>3, RemoveStep
<1>4. ASSUME ~LockAndDrawKey(t), ~SaveAccount(t), ~DeleteAccount(t)
      PROVE  /\ db' = db /\ pc[t] \notin {"save", "delete"}
             /\ pc'[t] \notin {"save", "delete"}
  BY <1>4 DEF SInv, IInv, TypeOK, Work, BackupAccountToKeyStore, FileExists, CreateNewFile,
     OpenTruncates, WriteKeyStore, Goto, Answer
<1> QED BY <1>1, <1>2, <1>3, <1>4, BookHidden

LEMMA BookFault ==
  ASSUME SInv, NEW t \in Threads, Fault(t)
  PROVE  Book!BookNext \/ UNCHANGED Book!bookVars
<1>1. db' = db /\ pc' = [pc EXCEPT ![t] = "failed"]
  BY DEF Fault, SaveFails, FileFails, DeleteFails, Answer
<1>2. pc'[t] = "failed"
  BY <1>1 DEF SInv, IInv, TypeOK
<1>3. \A u \in {t} : Ordered(u)' = Absent
  BY <1>2 DEF Ordered
<1>4. \A u \in Threads \ {t} : pc'[u] = pc[u] /\ req'[u] = req[u]
  BY OnlyOne
<1>5. {t} \in SUBSET Threads
  OBVIOUS
<1>6. Book!BookNext
  BY <1>1, <1>3, <1>4, <1>5, AbandonStep
<1> QED BY <1>6

LEMMA BookStep ==
  SInv /\ SInv' /\ [Next]_vars => [Book!BookNext]_(Book!bookVars)
<1> SUFFICES ASSUME SInv, SInv', [Next]_vars
             PROVE  Book!BookNext \/ UNCHANGED Book!bookVars
  OBVIOUS
<1>1. ASSUME NEW t \in Threads, Arrival(t) \/ Work(t) \/ Fault(t)
      PROVE  Book!BookNext \/ UNCHANGED Book!bookVars
  BY <1>1, BookArrival, BookWork, BookFault
<1>2. ASSUME Restart PROVE Book!BookNext
  <2>1. db' = db /\ \A t \in Threads : pc'[t] = "idle"
    BY <1>2 DEF Restart
  <2>2. \A t \in Threads : Ordered(t)' = Absent
    BY <2>1 DEF Ordered
  <2> QED BY <2>1, <2>2, AbandonStep
<1>3. ASSUME UNCHANGED vars PROVE UNCHANGED Book!bookVars
  BY <1>3 DEF vars, Book!bookVars, Ordered
<1> QED BY <1>1, <1>2, <1>3 DEF Next

LEMMA BookStart == Init => Book!BookInit
<1> SUFFICES ASSUME Init PROVE Book!BookInit
  OBVIOUS
<1>1. \A t \in Threads : Ordered(t) = Absent
  BY DEF Init, Ordered
<1> QED BY <1>1 DEF Init, Book!BookInit, Book!NoOrder

\* The account service implements the book of accounts for clients whose
\* requests do not overlap, whatever writes fail and whenever the process
\* restarts: each request takes effect at one moment, or not at all.
THEOREM ServiceImplementsBook ==
  ASSUME OneAtATime
  PROVE  Spec => ImplementsAccountBook
<1>1. Init => Book!BookInit
  BY BookStart
<1>2. SInv /\ SInv' /\ [Next]_vars => [Book!BookNext]_(Book!bookVars)
  BY BookStep
<1> QED BY <1>1, <1>2, SerialInvariance, PTL DEF Spec, ImplementsAccountBook, Book!BookSpec
=============================================================================

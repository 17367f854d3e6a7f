------------------------------- MODULE Tables -------------------------------
(***************************************************************************)
(* RocksDBManager, RocksDBService and the startup that uses them: the map  *)
(* TABLES of open connections over the directories of the tables.  init is *)
(* guarded by the monitor of the class, createTable by a ReentrantLock,    *)
(* everything else by nothing but the atomicity of the ConcurrentHashMap.  *)
(*                                                                         *)
(* A call is cut at its accesses to the map, the locks, the directories    *)
(* and RocksDB.  A call that fails leaves only what its earlier steps did. *)
(* A table's contents are represented by one row of it.                    *)
(***************************************************************************)
EXTENDS Naturals, FiniteSets

CONSTANTS
  Threads, NoThread,
  TableNames,
  AccountTable,  \* the table startup creates and requests use
  Closable,      \* the tables clients close and destroy
  Connections,   \* RocksDB objects of a table; one nobody refers to is reused
  NoConnection,  \* null
  Values, NoValue

ASSUME TableConstants ==
  /\ NoThread \notin Threads
  /\ AccountTable \in TableNames
  /\ IsFiniteSet(TableNames)
  /\ Closable \subseteq TableNames \ {AccountTable}
  /\ NoConnection \notin Connections
  /\ NoValue \notin Values

VARIABLES
  disk,       \* per table: no directory, one without a database, a database
  data,       \* the row each database holds
  live,       \* the connection that holds the LOCK file of each database
  tables,     \* RocksDBManager.TABLES
  dataPath,   \* has init set RocksDBManager.dataPath?
  monitor,    \* who is inside synchronized (RocksDBManager.class)
  lock,       \* who holds RocksDBManager.lock
  phase,      \* has a startup returned, and has one succeeded?
  at          \* the call each thread is in

vars == <<disk, data, live, tables, dataPath, monitor, lock, phase, at>>

Tables == {n \in TableNames : tables[n] # NoConnection}

\* The steps of a call, named for what they do next.
Steps ==
  {"init", "scan", "current", "initOpen", "initInstall",     \* init
   "keys", "size", "list",                                   \* existTable
   "contains", "open", "install",                            \* createTable
   "exists", "remove", "close", "destroy",                   \* destroyTable
   "check", "fetch", "use"}                                  \* put, get, ...

Operations == {"startup", "create", "destroy", "close", "write", "read"}

\* names, size: tables still to scan, or those an enumeration may list, and
\* how many it has room for; asks: how often existTable is still asked.
Call ==
  [pc : Steps \union {"idle"}, op : Operations \union {"none"}, table : TableNames,
   conn : Connections \union {NoConnection},
   names : SUBSET TableNames, size : Nat, asks : 1..2]

CallOf(op, n, step, asks) ==
  [pc |-> step, op |-> op, table |-> n, conn |-> NoConnection,
   names |-> {}, size |-> 0, asks |-> asks]

NoCall == CallOf("none", AccountTable, "idle", 1)

Becomes(t, call) == at' = [at EXCEPT ![t] = call]
Goto(t, step) == Becomes(t, [at[t] EXCEPT !.pc = step])
Return(t) == Becomes(t, NoCall)

Begin(t, op, n, step, asks) ==
  /\ at[t].pc = "idle"
  /\ op = "startup" \/ phase # "starting"
  /\ Becomes(t, CallOf(op, n, step, asks))
  /\ UNCHANGED <<disk, data, live, tables, dataPath, monitor, lock, phase>>

\* The connections of a table that somebody still refers to.
Held(n) ==
  {tables[n], live[n]}
    \union {at[t].conn : t \in {u \in Threads : at[u].table = n}}

\* RocksDB.open: one connection at a time holds the LOCK of a database.
Opens(t, n) ==
  /\ live[n] = NoConnection
  /\ \E c \in Connections \ Held(n) :
       /\ c = CHOOSE x \in Connections \ Held(n) : TRUE
       /\ live' = [live EXCEPT ![n] = c]
       /\ Becomes(t, [at[t] EXCEPT !.conn = c,
                                   !.pc = IF @ = "open" THEN "install" ELSE "initInstall"])

-----------------------------------------------------------------------------
(***************************************************************************)
(* Startup (ApiModuleInitTool.initDB, on every ContextRefreshedEvent):     *)
(* init, whose exception is only logged, then existTable and createTable.  *)
(***************************************************************************)
Startup(t) == Begin(t, "startup", AccountTable, "init", 2)

EnterInit(t) ==
  /\ at[t].pc = "init"
  /\ monitor = NoThread
  /\ monitor' = t
  /\ dataPath' = TRUE
  /\ Becomes(t, [at[t] EXCEPT !.pc = "scan",
                             !.names = {n \in TableNames : disk[n] # "none"}])
  /\ UNCHANGED <<disk, data, live, tables, lock, phase>>

\* (First a slip: a table that is open is closed and opened again.)
ScanReopens(t) ==
  /\ at[t].pc = "scan"
  /\ \E n \in at[t].names :
       /\ Becomes(t, [at[t] EXCEPT !.names = @ \ {n}, !.table = n, !.pc = "current"])
       /\ live' = [live EXCEPT ![n] = NoConnection]
       /\ tables' = [tables EXCEPT ![n] = NoConnection]
  /\ UNCHANGED <<disk, data, dataPath, monitor, lock, phase>>

\* A table that is already open is not opened again.
Scan(t) ==
  /\ at[t].pc = "scan"
  /\ \E n \in at[t].names :
       Becomes(t, [at[t] EXCEPT !.names = @ \ {n}, !.table = n,
                                !.pc = IF tables[n] # NoConnection THEN "scan" ELSE "current"])
  /\ UNCHANGED <<disk, data, live, tables, dataPath, monitor, lock, phase>>

\* initOpenDB: a directory without the file CURRENT is no database.
CheckCurrent(t) ==
  /\ at[t].pc = "current"
  /\ Goto(t, IF disk[at[t].table] = "database" THEN "initOpen" ELSE "scan")
  /\ UNCHANGED <<disk, data, live, tables, dataPath, monitor, lock, phase>>

InitOpens(t) ==
  /\ at[t].pc = "initOpen"
  /\ disk[at[t].table] = "database"
  /\ Opens(t, at[t].table)
  /\ UNCHANGED <<disk, data, tables, dataPath, monitor, lock, phase>>

InitInstalls(t) ==
  /\ at[t].pc = "initInstall"
  /\ tables' = [tables EXCEPT ![at[t].table] = at[t].conn]
  /\ Becomes(t, [at[t] EXCEPT !.pc = "scan", !.conn = NoConnection])
  /\ UNCHANGED <<disk, data, live, dataPath, monitor, lock, phase>>

\* init returns when all directories are scanned, or with the exception of
\* the first table that cannot be opened.
LeaveInit(t) ==
  /\ \/ at[t].pc = "scan" /\ at[t].names = {}
     \/ at[t].pc = "initOpen"
  /\ monitor' = NoThread
  /\ Becomes(t, [at[t] EXCEPT !.pc = "keys", !.table = AccountTable, !.names = {}])
  /\ UNCHANGED <<disk, data, live, tables, dataPath, lock, phase>>

\* The end of a call.  A startup whose exception reaches ApplicationStartup is
\* printed there, and the program goes on.  (First a slip: so it is in initDB.)
SucceedAnyway(t, failed) ==
  /\ Return(t)
  /\ phase' = IF at[t].op = "startup" THEN "started" ELSE phase

Ends(t, failed) ==
  /\ Return(t)
  /\ phase' = CASE at[t].op # "startup" -> phase
                [] failed /\ phase = "starting" -> "failed"
                [] failed /\ phase # "starting" -> phase
                [] OTHER -> "started"

-----------------------------------------------------------------------------
(***************************************************************************)
(* createTable and createTableIfNotExist ask existTable first: an array of *)
(* the map's size is filled by an enumeration that was begun before the    *)
(* size was read, and that other threads' changes may or may not reach.    *)
(***************************************************************************)
CreateTable(t, n) == Begin(t, "create", n, "keys", 1)
CreateTableIfNotExist(t, n) == Begin(t, "create", n, "keys", 2)

EnumerateKeys(t) ==
  /\ at[t].pc = "keys"
  /\ Becomes(t, [at[t] EXCEPT !.pc = "size", !.names = Tables])
  /\ UNCHANGED <<disk, data, live, tables, dataPath, monitor, lock, phase>>

\* The enumeration has its first key already: it does not fit an empty array.
ReadSize(t) ==
  /\ at[t].pc = "size"
  /\ IF Tables = {} /\ at[t].names # {}
     THEN Ends(t, TRUE)
     ELSE /\ Becomes(t, [at[t] EXCEPT !.pc = "list", !.size = Cardinality(Tables)])
          /\ UNCHANGED phase
  /\ UNCHANGED <<disk, data, live, tables, dataPath, monitor, lock>>

Lists(t, listed) ==
  LET before == at[t].names
  IN /\ listed \subseteq before \union Tables
     /\ Cardinality(listed) <= at[t].size
     /\ IF before = {}
        THEN listed = {}
        ELSE /\ listed \intersect before # {}
             /\ \/ before \intersect Tables \subseteq listed
                \/ Cardinality(listed) = at[t].size

FillList(t) ==
  /\ at[t].pc = "list"
  /\ \E listed \in SUBSET TableNames :
       /\ Lists(t, listed)
       /\ CASE at[t].table \in listed -> Ends(t, FALSE)
            [] at[t].table \notin listed /\ at[t].asks = 2 ->
                 /\ Becomes(t, [at[t] EXCEPT !.pc = "keys", !.asks = 1, !.names = {}])
                 /\ UNCHANGED phase
            [] OTHER ->
                 /\ Becomes(t, [at[t] EXCEPT !.pc = "contains", !.names = {}])
                 /\ UNCHANGED phase
  /\ UNCHANGED <<disk, data, live, tables, dataPath, monitor, lock>>

(***************************************************************************)
(* RocksDBManager.createTable                                              *)
(***************************************************************************)
\* A table that exists, or no data path: an exception, and the lock is free
\* again.  Startup takes "exists" for a success.
CheckNotOpen(t) ==
  /\ at[t].pc = "contains"
  /\ lock = NoThread
  /\ IF at[t].table \in Tables \/ ~dataPath
     THEN Ends(t, at[t].table \notin Tables) /\ UNCHANGED lock
     ELSE Goto(t, "open") /\ lock' = t /\ UNCHANGED phase
  /\ UNCHANGED <<disk, data, live, tables, dataPath, monitor>>

\* mkdir, and RocksDB.open with createIfMissing: an existing database is
\* opened with what it holds.
CreateOpens(t) ==
  /\ at[t].pc = "open"
  /\ Opens(t, at[t].table)
  /\ disk' = [disk EXCEPT ![at[t].table] = "database"]
  /\ UNCHANGED <<data, tables, dataPath, monitor, lock, phase>>

\* (First a slip: unlock() is not in a finally block.)
FailLocked(t) ==
  /\ at[t].pc = "open"
  /\ disk' = [disk EXCEPT ![at[t].table] = IF @ = "none" THEN "folder" ELSE @]
  /\ Ends(t, TRUE)
  /\ UNCHANGED <<data, live, tables, dataPath, monitor, lock>>

CreateFails(t) ==
  /\ at[t].pc = "open"
  /\ disk' = [disk EXCEPT ![at[t].table] = IF @ = "none" THEN "folder" ELSE @]
  /\ lock' = NoThread
  /\ Ends(t, TRUE)
  /\ UNCHANGED <<data, live, tables, dataPath, monitor>>

CreateInstalls(t) ==
  /\ at[t].pc = "install"
  /\ tables' = [tables EXCEPT ![at[t].table] = at[t].conn]
  /\ lock' = NoThread
  /\ Ends(t, FALSE)
  /\ UNCHANGED <<disk, data, live, dataPath, monitor>>

-----------------------------------------------------------------------------
(***************************************************************************)
(* destroyTable checks the map first, closeTable does not; both remove the *)
(* connection from the map and close it.                                   *)
(***************************************************************************)
DestroyTable(t, n) == Begin(t, "destroy", n, "exists", 1)
CloseTable(t, n) == Begin(t, "close", n, "remove", 1)

CheckExists(t) ==
  /\ at[t].pc = "exists"
  /\ IF at[t].table \in Tables THEN Goto(t, "remove") ELSE Return(t)
  /\ UNCHANGED <<disk, data, live, tables, dataPath, monitor, lock, phase>>

\* (First a slip: the connection is closed before it is taken from the map.)
GetToClose(t) ==
  /\ at[t].pc = "remove"
  /\ IF at[t].table \in Tables
     THEN Becomes(t, [at[t] EXCEPT !.pc = "close", !.conn = tables[at[t].table]])
     ELSE Return(t)
  /\ UNCHANGED <<disk, data, live, tables, dataPath, monitor, lock, phase>>

\* Removed by another thread in between: a NullPointerException ends the call.
RemoveTable(t) ==
  /\ at[t].pc = "remove"
  /\ IF at[t].table \in Tables
     THEN /\ Becomes(t, [at[t] EXCEPT !.pc = "close", !.conn = tables[at[t].table]])
          /\ tables' = [tables EXCEPT ![at[t].table] = NoConnection]
     ELSE Return(t) /\ UNCHANGED tables
  /\ UNCHANGED <<disk, data, live, dataPath, monitor, lock, phase>>

AfterClose(t) ==
  IF at[t].op = "destroy"
  THEN Becomes(t, [at[t] EXCEPT !.pc = "destroy", !.conn = NoConnection])
  ELSE Return(t)

\* (First a slip: the connection is dropped without being closed.)
Drop(t) ==
  /\ at[t].pc = "close"
  /\ AfterClose(t)
  /\ UNCHANGED <<disk, data, live, tables, dataPath, monitor, lock, phase>>

\* RocksDB.close: only the first call on a connection does something.
CloseConnection(t) ==
  /\ at[t].pc = "close"
  /\ live' = [live EXCEPT ![at[t].table] = IF @ = at[t].conn THEN NoConnection ELSE @]
  /\ AfterClose(t)
  /\ UNCHANGED <<disk, data, tables, dataPath, monitor, lock, phase>>

\* (First a slip: the directory's files are deleted, whoever has them open.)
DeleteFiles(t) ==
  /\ at[t].pc = "destroy"
  /\ disk' = [disk EXCEPT ![at[t].table] = "folder"]
  /\ data' = [data EXCEPT ![at[t].table] = NoValue]
  /\ Return(t)
  /\ UNCHANGED <<live, tables, dataPath, monitor, lock, phase>>

\* (And a slip: only the file CURRENT is deleted.)
DeleteCurrent(t) ==
  /\ at[t].pc = "destroy"
  /\ disk' = [disk EXCEPT ![at[t].table] =
                IF live[at[t].table] = NoConnection THEN "folder" ELSE @]
  /\ Return(t)
  /\ UNCHANGED <<data, live, tables, dataPath, monitor, lock, phase>>

\* RocksDB.destroyDB takes the LOCK file: it throws when the table was opened
\* again in the meantime.
DestroyDB(t) ==
  /\ at[t].pc = "destroy"
  /\ IF live[at[t].table] = NoConnection
     THEN /\ disk' = [disk EXCEPT ![at[t].table] = "folder"]
          /\ data' = [data EXCEPT ![at[t].table] = NoValue]
     ELSE UNCHANGED <<disk, data>>
  /\ Return(t)
  /\ UNCHANGED <<live, tables, dataPath, monitor, lock, phase>>

-----------------------------------------------------------------------------
(***************************************************************************)
(* put, delete, batchPut, deleteKeys and the reads check the map and then  *)
(* fetch the connection; a RocksDBBatchOperation only fetches it, when it  *)
(* is made, and uses it when it is executed.                               *)
(***************************************************************************)
Write(t, n) == Begin(t, "write", n, "check", 1)
Read(t, n) == Begin(t, "read", n, "check", 1)
CreateWriteBatch(t, n) == Begin(t, "write", n, "fetch", 1)

BaseCheckTable(t) ==
  /\ at[t].pc = "check"
  /\ IF at[t].table \in Tables THEN Goto(t, "fetch") ELSE Return(t)
  /\ UNCHANGED <<disk, data, live, tables, dataPath, monitor, lock, phase>>

\* Gone in between: null, and a NullPointerException that ends the call.
Fetch(t) ==
  /\ at[t].pc = "fetch"
  /\ IF at[t].table \in Tables
     THEN Becomes(t, [at[t] EXCEPT !.pc = "use", !.conn = tables[at[t].table]])
     ELSE Return(t)
  /\ UNCHANGED <<disk, data, live, tables, dataPath, monitor, lock, phase>>

\* A use of a closed connection is undefined: it may fail, or stop the process.
UseConnection(t) ==
  /\ at[t].pc = "use"
  /\ IF at[t].conn = live[at[t].table] /\ at[t].op # "read"
     THEN \E v \in Values \union {NoValue} : data' = [data EXCEPT ![at[t].table] = v]
     ELSE UNCHANGED data
  /\ Return(t)
  /\ UNCHANGED <<disk, live, tables, dataPath, monitor, lock, phase>>

\* RocksDB throws: put and its like report it, reads answer null, a batch is
\* closed and refuses to be executed again.
UseFails(t) ==
  /\ at[t].pc = "use"
  /\ Return(t)
  /\ UNCHANGED <<disk, data, live, tables, dataPath, monitor, lock, phase>>

\* The process stops; the files stay and their locks are gone.
Restart ==
  /\ live' = [n \in TableNames |-> NoConnection]
  /\ tables' = [n \in TableNames |-> NoConnection]
  /\ dataPath' = FALSE
  /\ monitor' = NoThread
  /\ lock' = NoThread
  /\ phase' = "starting"
  /\ at' = [t \in Threads |-> NoCall]
  /\ UNCHANGED <<disk, data>>

-----------------------------------------------------------------------------
Init ==
  /\ disk = [n \in TableNames |-> "none"]
  /\ data = [n \in TableNames |-> NoValue]
  /\ live = [n \in TableNames |-> NoConnection]
  /\ tables = [n \in TableNames |-> NoConnection]
  /\ dataPath = FALSE
  /\ monitor = NoThread
  /\ lock = NoThread
  /\ phase = "starting"
  /\ at = [t \in Threads |-> NoCall]

Step(t) ==
  \/ EnterInit(t) \/ Scan(t) \/ CheckCurrent(t)
  \/ InitOpens(t) \/ InitInstalls(t) \/ LeaveInit(t)
  \/ EnumerateKeys(t) \/ ReadSize(t) \/ FillList(t)
  \/ CheckNotOpen(t) \/ CreateOpens(t) \/ CreateFails(t) \/ CreateInstalls(t)
  \/ CheckExists(t) \/ RemoveTable(t) \/ CloseConnection(t) \/ DestroyDB(t)
  \/ BaseCheckTable(t) \/ Fetch(t) \/ UseConnection(t) \/ UseFails(t)

Calls(t) ==
  \/ Startup(t)
  \/ \E n \in TableNames : CreateTable(t, n) \/ CreateTableIfNotExist(t, n)
  \/ \E n \in Closable : DestroyTable(t, n) \/ CloseTable(t, n)
  \/ \E n \in TableNames : Write(t, n) \/ CreateWriteBatch(t, n) \/ Read(t, n)

Next == Restart \/ \E t \in Threads : Calls(t) \/ Step(t)

Spec == Init /\ [][Next]_vars

-----------------------------------------------------------------------------
Types ==
  /\ disk \in [TableNames -> {"none", "folder", "database"}]
  /\ data \in [TableNames -> Values \union {NoValue}]
  /\ live \in [TableNames -> Connections \union {NoConnection}]
  /\ tables \in [TableNames -> Connections \union {NoConnection}]
  /\ dataPath \in BOOLEAN
  /\ {monitor, lock} \subseteq Threads \union {NoThread}
  /\ phase \in {"starting", "failed", "started"}
  /\ at \in [Threads -> Call]

\* Rows and connections are of databases that exist.
InDatabases ==
  \A n \in TableNames :
    data[n] # NoValue \/ live[n] # NoConnection => disk[n] = "database"

TypeOK == Types /\ InDatabases

\* The map never offers a connection that is closed, although two locks that
\* know nothing of each other guard those who open, and none those who close.
\* (RocksDBManager: open before TABLES.put, TABLES.remove before close)
MapHoldsLive ==
  \A n \in TableNames : tables[n] # NoConnection => tables[n] = live[n]

\* No connection is lost: an open one is in the map, or one thread, and only
\* one, is about to put it there or to close it.  A lost one would keep the
\* LOCK file, and no later call could open its table before a restart.
\* (init and createTable; destroyTable and closeTable)
Owners(n) ==
  {t \in Threads : /\ at[t].pc \in {"initInstall", "install", "close"}
                   /\ at[t].table = n
                   /\ at[t].conn = live[n]}

NoConnectionLost ==
  \A n \in TableNames : live[n] # NoConnection =>
    IF tables[n] = live[n]
    THEN Owners(n) = {}
    ELSE \E t \in Threads : Owners(n) = {t}

\* A table nobody closes is used through its open connection, also by a call
\* that fetched it before another startup (a further ContextRefreshedEvent)
\* went through the tables.  (init: tables in the cache are not opened again)
ConnectionInUseIsOpen ==
  \A t \in Threads : at[t].pc = "use" /\ at[t].table \notin Closable =>
    at[t].conn = live[at[t].table]

\* Once a startup has succeeded the account table is open, whatever else could
\* not be opened and however creations, removals and further startups overlap.
\* (ApiModuleInitTool.initDB)
StartedMeansOpen == phase = "started" => AccountTable \in Tables

\* Nothing takes the files away from under an open table: a row disappears only
\* by a delete, or when its table is closed.  (destroyTable: close, destroyDB)
LosesRow(n) ==
  /\ data[n] # NoValue /\ data'[n] = NoValue
  /\ live[n] # NoConnection
  /\ ~ \E t \in Threads : at[t].pc = "use" /\ at[t].table = n /\ UseConnection(t)

OpenTableKeepsData == [][~ \E n \in TableNames : LosesRow(n)]_vars

\* The monitor and the lock are held exactly while their sections are run: one
\* thread at a time is inside, and every exit, also that of an exception from
\* RocksDB.open, leaves them free.  (init: synchronized; createTable: finally)
LocksHeldInside ==
  \A t \in Threads :
    /\ monitor = t <=> at[t].pc \in {"scan", "current", "initOpen", "initInstall"}
    /\ lock = t <=> at[t].pc \in {"open", "install"}
=============================================================================

---------------------------- MODULE TablesProofs ----------------------------
(***************************************************************************)
(* What holds of the map of open tables for any number of threads, tables  *)
(* and connections, whatever fails and whenever the process is restarted.  *)
(***************************************************************************)
EXTENDS Tables, TLAPS, FiniteSetTheorems

(***************************************************************************)
(* The steps, grouped by what they change.                                 *)
(***************************************************************************)
\* Only the thread's own call changes.
Quiet(t) ==
  \/ Calls(t) \/ Scan(t) \/ CheckCurrent(t) \/ EnumerateKeys(t)
  \/ CheckExists(t) \/ BaseCheckTable(t) \/ Fetch(t)

\* The connections and the map change.
Connects(t) ==
  \/ InitOpens(t) \/ InitInstalls(t) \/ CreateOpens(t) \/ CreateInstalls(t)
  \/ RemoveTable(t) \/ CloseConnection(t)

\* Neither of them does.
Others(t) ==
  \/ EnterInit(t) \/ LeaveInit(t) \/ ReadSize(t) \/ FillList(t)
  \/ CheckNotOpen(t) \/ CreateFails(t) \/ DestroyDB(t)
  \/ UseConnection(t) \/ UseFails(t)

(***************************************************************************)
(* The type invariant                                                      *)
(***************************************************************************)
\* A call that becomes another call leaves the other threads' alone. (Becomes)
LEMMA BecomesType ==
  ASSUME Types, NEW t \in Threads, NEW c \in Call, Becomes(t, c)
  PROVE  /\ at' \in [Threads -> Call]
         /\ at'[t] = c
         /\ \A u \in Threads : u # t => at'[u] = at[u]
  BY DEF Types, Becomes

LEMMA NoCallType == NoCall \in Call
  BY TableConstants DEF NoCall, CallOf, Call

LEMMA CallType ==
  ASSUME Types, NEW t \in Threads
  PROVE  /\ at[t] \in Call
         /\ at[t].table \in TableNames /\ at[t].names \subseteq TableNames
         /\ at[t].conn \in Connections \union {NoConnection}
  BY DEF Types, Call

\* A call that ends. (Return, Ends)
LEMMA ReturnType ==
  ASSUME Types, NEW t \in Threads, Return(t)
  PROVE  /\ at' \in [Threads -> Call]
         /\ at'[t] = NoCall
         /\ \A u \in Threads : u # t => at'[u] = at[u]
  BY BecomesType, NoCallType DEF Return

LEMMA EndsType ==
  ASSUME Types, NEW t \in Threads, NEW f \in BOOLEAN, Ends(t, f)
  PROVE  /\ at' \in [Threads -> Call]
         /\ phase' \in {"starting", "failed", "started"}
         /\ at'[t] = NoCall
         /\ \A u \in Threads : u # t => at'[u] = at[u]
  BY ReturnType DEF Ends, Types

LEMMA QuietType ==
  ASSUME Types, NEW t \in Threads, Quiet(t)
  PROVE  Types'
<1>1. /\ disk' = disk /\ data' = data /\ live' = live /\ tables' = tables
      /\ dataPath' = dataPath /\ monitor' = monitor /\ lock' = lock /\ phase' = phase
  BY DEF Quiet, Calls, Startup, CreateTable, CreateTableIfNotExist, DestroyTable,
         CloseTable, Write, Read, CreateWriteBatch, Begin, Scan, CheckCurrent,
         EnumerateKeys, CheckExists, BaseCheckTable, Fetch
<1>2. at[t] \in Call
  BY CallType
<1>3. at' \in [Threads -> Call]
  <2>1. CASE Calls(t)
    <3>1. PICK op \in Operations, n \in TableNames, p \in Steps, k \in 1..2 :
            Begin(t, op, n, p, k)
      BY <2>1, TableConstants
      DEF Calls, Startup, CreateTable, CreateTableIfNotExist, DestroyTable,
          CloseTable, Write, Read, CreateWriteBatch, Steps, Operations
    <3>2. CallOf(op, n, p, k) \in Call
      BY DEF CallOf, Call
    <3>3. QED
      BY <3>1, <3>2, BecomesType DEF Begin
  <2>2. CASE Scan(t)
    <3>1. PICK n \in at[t].names :
            Becomes(t, [at[t] EXCEPT !.names = @ \ {n}, !.table = n,
                                     !.pc = IF tables[n] # NoConnection THEN "scan" ELSE "current"])
      BY <2>2 DEF Scan
    <3>2. n \in TableNames
      BY CallType
    <3>3. [at[t] EXCEPT !.names = @ \ {n}, !.table = n,
                        !.pc = IF tables[n] # NoConnection THEN "scan" ELSE "current"] \in Call
      BY <1>2, <3>2 DEF Call, Steps
    <3>4. QED
      BY <3>1, <3>3, BecomesType
  <2>3. CASE CheckCurrent(t) \/ CheckExists(t) \/ BaseCheckTable(t)
    <3>1. \A p \in Steps : [at[t] EXCEPT !.pc = p] \in Call
      BY <1>2 DEF Call
    <3>2. QED
      BY <2>3, <3>1, BecomesType, ReturnType
      DEF CheckCurrent, CheckExists, BaseCheckTable, Goto, Steps
  <2>4. CASE EnumerateKeys(t)
    <3>1. [at[t] EXCEPT !.pc = "size", !.names = Tables] \in Call
      BY <1>2 DEF Call, Steps, Tables
    <3>2. QED
      BY <2>4, <3>1, BecomesType DEF EnumerateKeys
  <2>5. CASE Fetch(t)
    <3>1. tables[at[t].table] \in Connections \union {NoConnection}
      BY CallType DEF Types
    <3>2. [at[t] EXCEPT !.pc = "use", !.conn = tables[at[t].table]] \in Call
      BY <1>2, <3>1 DEF Call, Steps
    <3>3. \/ Becomes(t, [at[t] EXCEPT !.pc = "use", !.conn = tables[at[t].table]])
          \/ Return(t)
      BY <2>5, Zenon DEF Fetch
    <3>4. QED
      BY <3>2, <3>3, BecomesType, ReturnType, Zenon
  <2>6. QED
    BY <2>1, <2>2, <2>3, <2>4, <2>5 DEF Quiet
<1>4. QED
  BY <1>1, <1>3 DEF Types

\* What RocksDB.open does to the connections and to the call. (Opens)
LEMMA OpensType ==
  ASSUME Types, NEW t \in Threads, Opens(t, at[t].table)
  PROVE  \E c \in Connections :
           /\ live[at[t].table] = NoConnection
           /\ live' = [live EXCEPT ![at[t].table] = c]
           /\ at' \in [Threads -> Call]
           /\ at'[t] = [at[t] EXCEPT !.conn = c,
                                    !.pc = IF @ = "open" THEN "install" ELSE "initInstall"]
           /\ \A u \in Threads : u # t => at'[u] = at[u]
<1>1. PICK c \in Connections :
        /\ live[at[t].table] = NoConnection
        /\ live' = [live EXCEPT ![at[t].table] = c]
        /\ Becomes(t, [at[t] EXCEPT !.conn = c,
                                    !.pc = IF @ = "open" THEN "install" ELSE "initInstall"])
  BY DEF Opens
<1>2. [at[t] EXCEPT !.conn = c,
                    !.pc = IF @ = "open" THEN "install" ELSE "initInstall"] \in Call
  BY CallType DEF Call, Steps
<1>3. QED
  BY <1>1, <1>2, BecomesType

LEMMA ConnectsType ==
  ASSUME Types, NEW t \in Threads, Connects(t)
  PROVE  Types'
<1>0. /\ at[t] \in Call /\ at[t].table \in TableNames
      /\ at[t].conn \in Connections \union {NoConnection}
  BY CallType
<1>1. CASE InitOpens(t)
  BY <1>0, <1>1, OpensType DEF Types, InitOpens
<1>2. CASE InitInstalls(t)
  <2>1. [at[t] EXCEPT !.pc = "scan", !.conn = NoConnection] \in Call
    BY <1>0 DEF Call, Steps
  <2>2. at' \in [Threads -> Call]
    BY <1>2, <2>1, BecomesType DEF InitInstalls
  <2>3. QED
    BY <1>0, <1>2, <2>2 DEF Types, InitInstalls
<1>3. CASE CreateOpens(t)
  BY <1>0, <1>3, OpensType DEF Types, CreateOpens
<1>4. CASE CreateInstalls(t)
  BY <1>0, <1>4, EndsType DEF Types, CreateInstalls
<1>5. CASE RemoveTable(t)
  <2>1. [at[t] EXCEPT !.pc = "close", !.conn = tables[at[t].table]] \in Call
    BY <1>0 DEF Types, Call, Steps
  <2>2. \/ Becomes(t, [at[t] EXCEPT !.pc = "close", !.conn = tables[at[t].table]])
        \/ Return(t)
    BY <1>5, Zenon DEF RemoveTable
  <2>3. at' \in [Threads -> Call]
    BY <2>1, <2>2, BecomesType, ReturnType, Zenon
  <2>4. QED
    BY <1>0, <1>5, <2>3 DEF Types, RemoveTable
<1>6. CASE CloseConnection(t)
  <2>1. [at[t] EXCEPT !.pc = "destroy", !.conn = NoConnection] \in Call
    BY <1>0 DEF Call, Steps
  <2>2. at' \in [Threads -> Call]
    BY <1>6, <2>1, BecomesType, ReturnType DEF CloseConnection, AfterClose
  <2>3. QED
    BY <1>0, <1>6, <2>2 DEF Types, CloseConnection
<1>7. QED
  BY <1>1, <1>2, <1>3, <1>4, <1>5, <1>6 DEF Connects

LEMMA OthersType ==
  ASSUME Types, NEW t \in Threads, Others(t)
  PROVE  Types'
<1>0. at[t] \in Call /\ at[t].table \in TableNames
  BY CallType
<1>1. CASE EnterInit(t)
  <2>1. [at[t] EXCEPT !.pc = "scan",
                      !.names = {n \in TableNames : disk[n] # "none"}] \in Call
    BY <1>0 DEF Call, Steps
  <2>2. at' \in [Threads -> Call]
    BY <1>1, <2>1, BecomesType DEF EnterInit
  <2>3. QED
    BY <1>1, <2>2 DEF Types, EnterInit
<1>2. CASE LeaveInit(t)
  <2>1. [at[t] EXCEPT !.pc = "keys", !.table = AccountTable, !.names = {}] \in Call
    BY <1>0, TableConstants DEF Call, Steps
  <2>2. at' \in [Threads -> Call]
    BY <1>2, <2>1, BecomesType DEF LeaveInit
  <2>3. QED
    BY <1>2, <2>2 DEF Types, LeaveInit
<1>3. CASE ReadSize(t)
  <2>1. Cardinality(Tables) \in Nat
    <3>1. IsFiniteSet(Tables)
      BY TableConstants, FS_Subset DEF Tables
    <3>2. QED
      BY <3>1, FS_CardinalityType
  <2>2. [at[t] EXCEPT !.pc = "list", !.size = Cardinality(Tables)] \in Call
    BY <1>0, <2>1 DEF Call, Steps
  <2>3. at' \in [Threads -> Call] /\ phase' \in {"starting", "failed", "started"}
    BY <1>3, <2>2, BecomesType, EndsType DEF ReadSize, Types
  <2>4. QED
    BY <1>3, <2>3 DEF Types, ReadSize
<1>4. CASE FillList(t)
  <2>1. [at[t] EXCEPT !.pc = "keys", !.asks = 1, !.names = {}] \in Call
    <3>1. {} \in SUBSET TableNames /\ 1 \in 1..2
      OBVIOUS
    <3>2. QED
      BY <1>0, <3>1 DEF Call, Steps
  <2>. [at[t] EXCEPT !.pc = "contains", !.names = {}] \in Call
    BY <1>0 DEF Call, Steps
  <2>2. at' \in [Threads -> Call] /\ phase' \in {"starting", "failed", "started"}
    BY <1>4, <2>1, BecomesType, EndsType DEF FillList, Types
  <2>3. QED
    BY <1>4, <2>2 DEF Types, FillList
<1>5. CASE CheckNotOpen(t)
  <2>1. [at[t] EXCEPT !.pc = "open"] \in Call
    BY <1>0 DEF Call, Steps
  <2>2. at' \in [Threads -> Call] /\ phase' \in {"starting", "failed", "started"}
    BY <1>5, <2>1, BecomesType, EndsType DEF CheckNotOpen, Goto, Types
  <2>3. QED
    BY <1>5, <2>2 DEF Types, CheckNotOpen
<1>6. CASE CreateFails(t)
  BY <1>0, <1>6, EndsType DEF Types, CreateFails
<1>7. CASE DestroyDB(t)
  BY <1>0, <1>7, ReturnType DEF Types, DestroyDB
<1>8. CASE UseConnection(t) \/ UseFails(t)
  <2>1. at' \in [Threads -> Call]
    BY <1>8, ReturnType DEF UseConnection, UseFails
  <2>2. QED
    BY <1>0, <1>8, <2>1 DEF Types, UseConnection, UseFails
<1>9. QED
  BY <1>1, <1>2, <1>3, <1>4, <1>5, <1>6, <1>7, <1>8 DEF Others

(***************************************************************************)
(* The inductive invariant.  An open connection has one owner: the map, or *)
(* the one thread that is about to install or to close it.  A table nobody *)
(* closes never leaves the map.                                            *)
(***************************************************************************)
InsideInit == {"scan", "current", "initOpen", "initInstall"}
InsideCreate == {"open", "install"}
Owning == {"initInstall", "install", "close"}
Closing == {"exists", "remove", "close", "destroy"}

OwnersHoldLive ==
  \A t \in Threads : at[t].pc \in Owning =>
    /\ at[t].conn # NoConnection
    /\ at[t].conn = live[at[t].table]
    /\ tables[at[t].table] = NoConnection

OwnersDiffer ==
  \A t, u \in Threads :
    at[t].pc \in Owning /\ at[u].pc \in Owning /\ t # u => at[t].table # at[u].table

LiveIsOwned ==
  \A n \in TableNames : live[n] # NoConnection =>
    \/ tables[n] = live[n]
    \/ \E t \in Threads : at[t].pc \in Owning /\ at[t].table = n

UsersHoldMapped ==
  \A t \in Threads : at[t].pc = "use" =>
    /\ at[t].conn # NoConnection
    /\ at[t].table \notin Closable => at[t].conn = tables[at[t].table]

OnlyClosableClose ==
  \A t \in Threads : at[t].pc \in Closing => at[t].table \in Closable

Connected ==
  /\ MapHoldsLive /\ OwnersHoldLive /\ OwnersDiffer /\ LiveIsOwned
  /\ UsersHoldMapped /\ OnlyClosableClose /\ InDatabases

\* What existTable saw of the tables nobody closes is still there, and a
\* startup that is past init is about the account table.
ListsStillOpen ==
  \A t \in Threads : at[t].pc \in {"size", "list"} => at[t].names \ Closable \subseteq Tables

StartupOfAccount ==
  \A t \in Threads : at[t].op = "startup" /\ at[t].pc \notin InsideInit =>
    at[t].table = AccountTable

Started == ListsStillOpen /\ StartupOfAccount /\ StartedMeansOpen

IInv == Types /\ Connected /\ Started /\ LocksHeldInside

(***************************************************************************)
(* The quiet steps                                                         *)
(***************************************************************************)
\* What a quiet step makes of the call of its thread.
QuietCall(c, d) ==
  /\ c.pc \notin Owning \union InsideCreate \union {"use"}
  /\ d.pc \notin Owning \union InsideCreate
  /\ c.pc \in InsideInit <=> d.pc \in InsideInit
  /\ d.pc = "use" => d.conn # NoConnection /\ d.conn = tables[d.table]
  /\ d.pc \in Closing =>
       d.table \in Closable \/ (c.pc \in Closing /\ c.table = d.table)
  /\ d.pc \in {"size", "list"} => d.names = Tables
  /\ d.op = "startup" /\ d.pc \notin InsideInit =>
       \/ d.table = AccountTable
       \/ c.op = "startup" /\ c.pc \notin InsideInit /\ c.table = d.table

LEMMA QuietShape ==
  ASSUME Types, NEW t \in Threads, Quiet(t)
  PROVE  /\ UNCHANGED <<disk, data, live, tables, dataPath, monitor, lock, phase>>
         /\ \A u \in Threads : u # t => at'[u] = at[u]
         /\ QuietCall(at[t], at'[t])
<1>0. at[t] \in Call
  BY CallType
<1>1. UNCHANGED <<disk, data, live, tables, dataPath, monitor, lock, phase>>
  BY DEF Quiet, Calls, Startup, CreateTable, CreateTableIfNotExist, DestroyTable,
         CloseTable, Write, Read, CreateWriteBatch, Begin, Scan, CheckCurrent,
         EnumerateKeys, CheckExists, BaseCheckTable, Fetch
<1>2. PICK d \in Call : Becomes(t, d) /\ QuietCall(at[t], d)
  <2>1. CASE Calls(t)
    <3>1. PICK op \in Operations, n \in TableNames, p \in Steps, k \in 1..2 :
            /\ Begin(t, op, n, p, k)
            /\ p \notin InsideInit \union InsideCreate \union {"use", "close", "size", "list"}
            /\ p \in Closing => n \in Closable
            /\ op = "startup" => n = AccountTable
      BY <2>1, TableConstants
      DEF Calls, Startup, CreateTable, CreateTableIfNotExist, DestroyTable,
          CloseTable, Write, Read, CreateWriteBatch, Steps, Operations,
          InsideInit, InsideCreate, Closing
    <3>2. CallOf(op, n, p, k) \in Call
      BY DEF CallOf, Call
    <3>3. QuietCall(at[t], CallOf(op, n, p, k))
      BY <3>1 DEF QuietCall, CallOf, Begin, Owning, InsideInit, InsideCreate, Closing
    <3>4. QED
      BY <3>1, <3>2, <3>3 DEF Begin
  <2>2. CASE Scan(t)
    <3>1. PICK n \in at[t].names :
            Becomes(t, [at[t] EXCEPT !.names = @ \ {n}, !.table = n,
                                     !.pc = IF tables[n] # NoConnection THEN "scan" ELSE "current"])
      BY <2>2 DEF Scan
    <3>2. n \in TableNames
      BY CallType
    <3> DEFINE d == [at[t] EXCEPT !.names = @ \ {n}, !.table = n,
                                  !.pc = IF tables[n] # NoConnection THEN "scan" ELSE "current"]
    <3>3. d \in Call /\ d.pc \in {"scan", "current"}
      BY <1>0, <3>2 DEF Call, Steps
    <3>4. QuietCall(at[t], d)
      BY <2>2, <3>3 DEF QuietCall, Scan, Owning, InsideInit, InsideCreate, Closing
    <3>5. QED
      BY <3>1, <3>3, <3>4
  <2>3. CASE CheckCurrent(t)
    <3> DEFINE d == [at[t] EXCEPT !.pc = IF disk[at[t].table] = "database" THEN "initOpen" ELSE "scan"]
    <3>1. d \in Call /\ d.pc \in {"initOpen", "scan"}
      BY <1>0 DEF Call, Steps
    <3>2. QuietCall(at[t], d)
      BY <2>3, <3>1 DEF QuietCall, CheckCurrent, Owning, InsideInit, InsideCreate, Closing
    <3>3. QED
      BY <2>3, <3>1, <3>2 DEF CheckCurrent, Goto
  <2>4. CASE EnumerateKeys(t)
    <3> DEFINE d == [at[t] EXCEPT !.pc = "size", !.names = Tables]
    <3>1. /\ d \in Call /\ d.pc = "size" /\ d.names = Tables
          /\ d.op = at[t].op /\ d.table = at[t].table
      BY <1>0 DEF Call, Steps, Tables
    <3>2. QuietCall(at[t], d)
      BY <2>4, <3>1 DEF QuietCall, EnumerateKeys, Owning, InsideInit, InsideCreate, Closing
    <3>3. QED
      BY <2>4, <3>1, <3>2 DEF EnumerateKeys
  <2>5. CASE CheckExists(t) \/ BaseCheckTable(t) \/ Fetch(t)
    <3>1. at[t].pc \in {"exists", "check", "fetch"}
      BY <2>5 DEF CheckExists, BaseCheckTable, Fetch
    <3>2. NoCall \in Call /\ QuietCall(at[t], NoCall)
      BY <3>1, NoCallType
      DEF QuietCall, NoCall, CallOf, Owning, InsideInit, InsideCreate, Closing
    <3>3. ASSUME CheckExists(t)
          PROVE  LET d == [at[t] EXCEPT !.pc = "remove"] IN d \in Call /\ QuietCall(at[t], d)
      BY <1>0, <3>3
      DEF CheckExists, QuietCall, Call, Steps, Owning, InsideInit, InsideCreate, Closing
    <3>4. ASSUME BaseCheckTable(t)
          PROVE  LET d == [at[t] EXCEPT !.pc = "fetch"] IN d \in Call /\ QuietCall(at[t], d)
      BY <1>0, <3>4
      DEF BaseCheckTable, QuietCall, Call, Steps, Owning, InsideInit, InsideCreate, Closing
    <3>5. ASSUME Fetch(t), at[t].table \in Tables
          PROVE  LET d == [at[t] EXCEPT !.pc = "use", !.conn = tables[at[t].table]]
                 IN d \in Call /\ QuietCall(at[t], d)
      <4>1. /\ tables[at[t].table] \in Connections
            /\ tables[at[t].table] # NoConnection
        BY <1>0, <3>5, TableConstants DEF Types, Tables, Call
      <4> DEFINE d == [at[t] EXCEPT !.pc = "use", !.conn = tables[at[t].table]]
      <4>2. /\ d \in Call /\ d.pc = "use" /\ d.conn = tables[at[t].table]
            /\ d.op = at[t].op /\ d.table = at[t].table
        BY <1>0, <4>1 DEF Call, Steps
      <4>3. QuietCall(at[t], d)
        BY <3>5, <4>1, <4>2
        DEF Fetch, QuietCall, Owning, InsideInit, InsideCreate, Closing
      <4>4. QED
        BY <4>2, <4>3
    <3>6. QED
      BY <2>5, <3>2, <3>3, <3>4, <3>5 DEF CheckExists, BaseCheckTable, Fetch, Goto, Return
  <2>6. QED
    BY <2>1, <2>2, <2>3, <2>4, <2>5 DEF Quiet
<1>3. QED
  BY <1>1, <1>2, BecomesType

LEMMA QuietKeeps ==
  ASSUME IInv, NEW t \in Threads, Quiet(t)
  PROVE  IInv'
<1>1. /\ UNCHANGED <<disk, data, live, tables, dataPath, monitor, lock, phase>>
      /\ \A u \in Threads : u # t => at'[u] = at[u]
      /\ QuietCall(at[t], at'[t])
  BY QuietShape DEF IInv
<1>2. Types'
  BY QuietType DEF IInv
<1>3. OwnersHoldLive' /\ OwnersDiffer' /\ MapHoldsLive' /\ InDatabases'
  BY <1>1 DEF IInv, Connected, OwnersHoldLive, OwnersDiffer, MapHoldsLive, InDatabases, QuietCall
<1>4. LiveIsOwned'
  BY <1>1 DEF IInv, Connected, LiveIsOwned, QuietCall
<1>5. UsersHoldMapped' /\ OnlyClosableClose'
  BY <1>1 DEF IInv, Connected, UsersHoldMapped, OnlyClosableClose, QuietCall
<1>6. Started'
  BY <1>1 DEF IInv, Started, ListsStillOpen, StartupOfAccount, StartedMeansOpen, Tables, QuietCall
<1>7. LocksHeldInside'
  BY <1>1 DEF IInv, LocksHeldInside, QuietCall, InsideInit, InsideCreate
<1>8. QED
  BY <1>2, <1>3, <1>4, <1>5, <1>6, <1>7 DEF IInv, Connected

(***************************************************************************)
(* The steps that open, install, remove and close connections              *)
(***************************************************************************)
\* A connection is opened: nobody owned one of this table, now t does.
LEMMA OpensKeeps ==
  ASSUME IInv, NEW t \in Threads, InitOpens(t) \/ CreateOpens(t)
  PROVE  IInv'
<1> DEFINE n == at[t].table
<1>0. /\ at[t] \in Call /\ n \in TableNames
      /\ at[t].pc \in {"initOpen", "open"}
      /\ UNCHANGED <<data, tables, dataPath, monitor, lock, phase>>
      /\ disk'[n] = "database"
      /\ \A m \in TableNames : m # n => disk'[m] = disk[m]
  BY CallType DEF InitOpens, CreateOpens, IInv, Types
<1>1. PICK c \in Connections :
        /\ live[n] = NoConnection
        /\ live' = [live EXCEPT ![n] = c]
        /\ at'[t] = [at[t] EXCEPT !.conn = c,
                                 !.pc = IF @ = "open" THEN "install" ELSE "initInstall"]
        /\ \A u \in Threads : u # t => at'[u] = at[u]
  BY OpensType DEF InitOpens, CreateOpens, IInv
<1>2. /\ at'[t].conn = c /\ at'[t].table = n /\ at'[t].op = at[t].op
      /\ at'[t].pc = IF at[t].pc = "open" THEN "install" ELSE "initInstall"
  BY <1>0, <1>1 DEF Call
<1>3. /\ c # NoConnection /\ live'[n] = c
      /\ \A m \in TableNames : m # n => live'[m] = live[m]
  BY <1>0, <1>1, TableConstants DEF IInv, Types
<1>4. Types'
  BY ConnectsType DEF Connects, IInv
<1>5. tables[n] = NoConnection
  BY <1>0, <1>1 DEF IInv, Connected, MapHoldsLive
<1>6. \A u \in Threads : at[u].pc \in Owning => at[u].table # n
  BY <1>1 DEF IInv, Connected, OwnersHoldLive
<1>7. \A u \in Threads : at[u].table \in TableNames
  BY CallType DEF IInv
<1>8. MapHoldsLive' /\ InDatabases'
  BY <1>0, <1>3, <1>5 DEF IInv, Connected, MapHoldsLive, InDatabases
<1>f. \A u \in Threads : u # t => at'[u] = at[u]
  BY <1>1
<1>p. /\ at'[t].pc \in {"install", "initInstall"} /\ at'[t].pc \in Owning
      /\ at'[t].pc \notin {"exists", "remove", "close", "destroy", "use"}
      /\ at[t].pc \notin Owning
  BY <1>0, <1>2 DEF Owning
<1>9. OwnersHoldLive' /\ OwnersDiffer' /\ LiveIsOwned'
  <2>2. OwnersHoldLive'
    <3>1. \A u \in Threads : u # t /\ at'[u].pc \in Owning =>
            /\ at'[u].conn # NoConnection
            /\ at'[u].conn = live'[at'[u].table]
            /\ tables'[at'[u].table] = NoConnection
      BY <1>0, <1>f, <1>3, <1>6, <1>7 DEF IInv, Connected, OwnersHoldLive
    <3>2. QED
      BY <1>0, <1>2, <1>3, <1>5, <3>1 DEF OwnersHoldLive
  <2>3. OwnersDiffer'
    <3>1. \A u \in Threads : u # t /\ at'[u].pc \in Owning => at'[u].table # at'[t].table
      BY <1>f, <1>2, <1>6
    <3>2. \A u, w \in Threads :
            u # t /\ w # t /\ u # w /\ at'[u].pc \in Owning /\ at'[w].pc \in Owning =>
              at'[u].table # at'[w].table
      BY <1>f DEF IInv, Connected, OwnersDiffer
    <3>3. QED
      BY <3>1, <3>2 DEF OwnersDiffer
  <2>4. LiveIsOwned'
    <3>1. ASSUME NEW m \in TableNames, live'[m] # NoConnection, m # n
          PROVE  tables'[m] = live'[m] \/ \E u \in Threads : at'[u].pc \in Owning /\ at'[u].table = m
      <4>1. \/ tables[m] = live[m]
            \/ \E u \in Threads : at[u].pc \in Owning /\ at[u].table = m
        BY <1>3, <3>1 DEF IInv, Connected, LiveIsOwned
      <4>2. QED
        BY <1>0, <1>3, <1>f, <1>p, <3>1, <4>1
    <3>2. QED
      BY <1>2, <1>p, <3>1 DEF LiveIsOwned
  <2>5. QED
    BY <2>2, <2>3, <2>4
<1>10. UsersHoldMapped' /\ OnlyClosableClose'
  BY <1>0, <1>f, <1>p DEF IInv, Connected, UsersHoldMapped, OnlyClosableClose, Closing
<1>11. Started'
  BY <1>0, <1>1, <1>2
  DEF IInv, Started, ListsStillOpen, StartupOfAccount, StartedMeansOpen, Tables, InsideInit
<1>12. LocksHeldInside'
  BY <1>0, <1>1, <1>2 DEF IInv, LocksHeldInside
<1>13. QED
  BY <1>4, <1>8, <1>9, <1>10, <1>11, <1>12 DEF IInv, Connected

\* The owner puts its connection into the map.
LEMMA InstallsKeeps ==
  ASSUME IInv, NEW t \in Threads, InitInstalls(t) \/ CreateInstalls(t)
  PROVE  IInv'
<1> DEFINE n == at[t].table
<1>0. /\ at[t] \in Call /\ n \in TableNames
      /\ at[t].pc \in {"initInstall", "install"}
      /\ tables' = [tables EXCEPT ![n] = at[t].conn]
      /\ UNCHANGED <<disk, data, live, dataPath, monitor>>
  BY CallType DEF InitInstalls, CreateInstalls, IInv
<1>1. /\ \A u \in Threads : u # t => at'[u] = at[u]
      /\ at[t].pc = "initInstall" =>
           /\ at'[t].pc = "scan" /\ UNCHANGED <<lock, phase>>
      /\ at[t].pc = "install" =>
           /\ at'[t].pc = "idle" /\ at'[t].op # "startup" /\ lock' = NoThread
           /\ phase' = IF at[t].op = "startup" THEN "started" ELSE phase
  <2>1. CASE InitInstalls(t)
    <3> DEFINE d == [at[t] EXCEPT !.pc = "scan", !.conn = NoConnection]
    <3>1. d \in Call /\ d.pc = "scan"
      BY <1>0 DEF Call, Steps
    <3>2. QED
      BY <2>1, <3>1, BecomesType DEF InitInstalls, IInv
  <2>2. CASE CreateInstalls(t)
    <3>1. at'[t] = NoCall /\ \A u \in Threads : u # t => at'[u] = at[u]
      BY <2>2, EndsType DEF CreateInstalls, IInv
    <3>2. at'[t].pc = "idle" /\ at'[t].op = "none"
      BY <3>1 DEF NoCall, CallOf
    <3>3. /\ at[t].pc = "install" /\ lock' = NoThread
          /\ phase' = IF at[t].op = "startup" THEN "started" ELSE phase
      BY <2>2 DEF CreateInstalls, Ends
    <3>4. QED
      BY <3>1, <3>2, <3>3
  <2>3. QED
    BY <2>1, <2>2
<1>2. Types'
  BY ConnectsType DEF Connects, IInv
<1>3. /\ at[t].pc \in Owning /\ at[t].conn # NoConnection
      /\ live[n] = at[t].conn /\ tables[n] = NoConnection
      /\ \A u \in Threads : u # t /\ at[u].pc \in Owning => at[u].table # n
  BY <1>0 DEF IInv, Connected, OwnersHoldLive, OwnersDiffer, Owning
<1>4. /\ tables'[n] = live[n]
      /\ \A m \in TableNames : m # n => tables'[m] = tables[m]
  BY <1>0, <1>3 DEF IInv, Types
<1>5. at'[t].pc \notin Owning \union Closing \union {"use", "size", "list"}
  BY <1>0, <1>1 DEF Owning, Closing
<1>6. \A u \in Threads : at[u].table \in TableNames
  BY CallType DEF IInv
<1>7. MapHoldsLive' /\ InDatabases' /\ OwnersHoldLive' /\ OwnersDiffer'
  BY <1>0, <1>1, <1>3, <1>4, <1>5, <1>6
  DEF IInv, Connected, MapHoldsLive, InDatabases, OwnersHoldLive, OwnersDiffer
<1>8. LiveIsOwned'
  BY <1>0, <1>1, <1>4, <1>5 DEF IInv, Connected, LiveIsOwned
<1>9. UsersHoldMapped' /\ OnlyClosableClose'
  <2>1. \A u \in Threads : at[u].pc = "use" /\ at[u].table \notin Closable => at[u].table # n
    BY <1>3 DEF IInv, Connected, UsersHoldMapped
  <2>2. QED
    BY <1>1, <1>4, <1>5, <1>6, <2>1 DEF IInv, Connected, UsersHoldMapped, OnlyClosableClose
<1>10. Started'
  <2>1. Tables \subseteq Tables' /\ n \in Tables'
    BY <1>0, <1>3, <1>4 DEF Tables
  <2>2. phase' = phase \/ n = AccountTable
    BY <1>0, <1>1 DEF IInv, Started, StartupOfAccount, InsideInit
  <2>3. ListsStillOpen' /\ StartedMeansOpen'
    BY <1>1, <1>5, <2>1, <2>2, <1>0 DEF IInv, Started, ListsStillOpen, StartedMeansOpen
  <2>4. StartupOfAccount'
    BY <1>0, <1>1 DEF IInv, Started, StartupOfAccount, InsideInit
  <2>5. QED
    BY <2>3, <2>4 DEF Started
<1>11. LocksHeldInside'
  BY <1>0, <1>1, TableConstants DEF IInv, LocksHeldInside
<1>12. QED
  BY <1>2, <1>7, <1>8, <1>9, <1>10, <1>11 DEF IInv, Connected

\* A connection leaves the map for the hands of the thread that closes it.
LEMMA RemoveKeeps ==
  ASSUME IInv, NEW t \in Threads, RemoveTable(t)
  PROVE  IInv'
<1> DEFINE n == at[t].table
<1>0. /\ at[t] \in Call /\ n \in TableNames /\ at[t].pc = "remove" /\ n \in Closable
      /\ UNCHANGED <<disk, data, live, dataPath, monitor, lock, phase>>
  BY CallType DEF RemoveTable, IInv, Connected, OnlyClosableClose, Closing
<1>1. Types'
  BY ConnectsType DEF Connects, IInv
<1>2. \A u \in Threads : at[u].table \in TableNames
  BY CallType DEF IInv
<1>3. CASE n \in Tables
  <2> DEFINE d == [at[t] EXCEPT !.pc = "close", !.conn = tables[n]]
  <2>1. /\ d \in Call /\ d.pc = "close" /\ d.conn = tables[n]
        /\ d.table = n /\ d.op = at[t].op
    BY <1>0 DEF Call, Steps, IInv, Types
  <2>2. at'[t] = d /\ \A u \in Threads : u # t => at'[u] = at[u]
    BY <1>3, <2>1, BecomesType DEF RemoveTable, IInv
  <2>3. /\ tables[n] # NoConnection /\ live[n] = tables[n] /\ tables'[n] = NoConnection
        /\ \A m \in TableNames : m # n => tables'[m] = tables[m]
        /\ \A u \in Threads : at[u].pc \in Owning => at[u].table # n
    BY <1>0, <1>3 DEF RemoveTable, Tables, IInv, Types, Connected, MapHoldsLive, OwnersHoldLive
  <2>4. at'[t].pc \in Owning /\ at'[t].pc \notin {"use", "size", "list"} \union InsideInit
    BY <2>1, <2>2 DEF Owning, InsideInit
  <2>f. \A u \in Threads : u # t => at'[u] = at[u]
    BY <2>2
  <2>c. at'[t].conn = tables[n] /\ at'[t].table = n /\ at'[t].op = at[t].op
    BY <2>1, <2>2
  <2>5. MapHoldsLive' /\ InDatabases' /\ OwnersHoldLive' /\ OwnersDiffer'
    <3>1. MapHoldsLive' /\ InDatabases'
      BY <1>0, <2>3 DEF IInv, Connected, MapHoldsLive, InDatabases
    <3>2. OwnersHoldLive'
      <4>1. \A u \in Threads : u # t /\ at'[u].pc \in Owning =>
              /\ at'[u].conn # NoConnection
              /\ at'[u].conn = live'[at'[u].table]
              /\ tables'[at'[u].table] = NoConnection
        BY <1>0, <1>2, <2>f, <2>3 DEF IInv, Connected, OwnersHoldLive
      <4>2. QED
        BY <1>0, <2>c, <2>3, <4>1 DEF OwnersHoldLive
    <3>3. OwnersDiffer'
      <4>1. \A u \in Threads : u # t /\ at'[u].pc \in Owning => at'[u].table # at'[t].table
        BY <2>f, <2>c, <2>3
      <4>2. \A u, w \in Threads :
              u # t /\ w # t /\ u # w /\ at'[u].pc \in Owning /\ at'[w].pc \in Owning =>
                at'[u].table # at'[w].table
        BY <2>f DEF IInv, Connected, OwnersDiffer
      <4>3. QED
        BY <4>1, <4>2 DEF OwnersDiffer
    <3>4. QED
      BY <3>1, <3>2, <3>3
  <2>6. LiveIsOwned'
    <3>1. at[t].pc \notin Owning
      BY <1>0 DEF Owning
    <3>2. ASSUME NEW m \in TableNames, live'[m] # NoConnection, m # n
          PROVE  tables'[m] = live'[m] \/ \E u \in Threads : at'[u].pc \in Owning /\ at'[u].table = m
      <4>1. \/ tables[m] = live[m]
            \/ \E u \in Threads : at[u].pc \in Owning /\ at[u].table = m
        BY <1>0, <3>2 DEF IInv, Connected, LiveIsOwned
      <4>2. QED
        BY <1>0, <2>f, <2>3, <3>1, <3>2, <4>1
    <3>3. QED
      BY <2>c, <2>4, <3>2 DEF LiveIsOwned
  <2>7. UsersHoldMapped' /\ OnlyClosableClose'
    <3>1. \A u \in Threads : at[u].table \notin Closable => at[u].table # n
      BY <1>0
    <3>2. UsersHoldMapped'
      BY <1>2, <2>f, <2>3, <2>4, <3>1 DEF IInv, Connected, UsersHoldMapped
    <3>3. OnlyClosableClose'
      BY <1>0, <2>f, <2>c DEF IInv, Connected, OnlyClosableClose
    <3>4. QED
      BY <3>2, <3>3
  <2>8. Started'
    <3>1. Tables' = Tables \ {n}
      BY <2>3, <1>0 DEF Tables
    <3>2. QED
      BY <1>0, <2>1, <2>2, <2>4, <3>1, TableConstants
      DEF IInv, Started, ListsStillOpen, StartupOfAccount, StartedMeansOpen, InsideInit
  <2>9. LocksHeldInside'
    BY <1>0, <2>1, <2>2 DEF IInv, LocksHeldInside
  <2>10. QED
    BY <1>1, <2>5, <2>6, <2>7, <2>8, <2>9 DEF IInv, Connected
<1>4. CASE n \notin Tables
  <2>1. /\ at'[t] = NoCall /\ tables' = tables
        /\ \A u \in Threads : u # t => at'[u] = at[u]
    BY <1>4, ReturnType DEF RemoveTable, IInv
  <2>2. at'[t].pc = "idle" /\ at'[t].op = "none"
    BY <2>1 DEF NoCall, CallOf
  <2>3. Connected'
    BY <1>0, <2>1, <2>2
    DEF IInv, Connected, MapHoldsLive, OwnersHoldLive, OwnersDiffer, LiveIsOwned,
        UsersHoldMapped, OnlyClosableClose, InDatabases, Owning, Closing
  <2>4. Started' /\ LocksHeldInside'
    BY <1>0, <2>1, <2>2
    DEF IInv, Started, ListsStillOpen, StartupOfAccount, StartedMeansOpen, Tables, LocksHeldInside
  <2>5. QED
    BY <1>1, <2>3, <2>4 DEF IInv
<1>5. QED
  BY <1>3, <1>4

\* The owner closes the connection.
LEMMA CloseKeeps ==
  ASSUME IInv, NEW t \in Threads, CloseConnection(t)
  PROVE  IInv'
<1> DEFINE n == at[t].table
<1>0. /\ at[t] \in Call /\ n \in TableNames /\ at[t].pc = "close"
      /\ UNCHANGED <<disk, data, tables, dataPath, monitor, lock, phase>>
  BY CallType DEF CloseConnection, IInv
<1>1. Types'
  BY ConnectsType DEF Connects, IInv
<1>2. /\ n \in Closable /\ live[n] = at[t].conn /\ tables[n] = NoConnection
      /\ \A u \in Threads : u # t /\ at[u].pc \in Owning => at[u].table # n
  BY <1>0 DEF IInv, Connected, OwnersHoldLive, OwnersDiffer, OnlyClosableClose, Owning, Closing
<1>3. /\ live'[n] = NoConnection
      /\ \A m \in TableNames : m # n => live'[m] = live[m]
  BY <1>0, <1>2 DEF CloseConnection, IInv, Types
<1>4. /\ \A u \in Threads : u # t => at'[u] = at[u]
      /\ at'[t].pc \in {"idle", "destroy"}
      /\ at'[t].pc = "destroy" => at'[t].table = n /\ at'[t].op = "destroy"
      /\ at'[t].op # "startup"
  <2> DEFINE d == [at[t] EXCEPT !.pc = "destroy", !.conn = NoConnection]
  <2>1. d \in Call /\ d.pc = "destroy" /\ d.table = n /\ d.op = at[t].op
    BY <1>0 DEF Call, Steps
  <2>2. CASE at[t].op = "destroy"
    BY <2>1, <2>2, BecomesType DEF CloseConnection, AfterClose, IInv
  <2>3. CASE at[t].op # "destroy"
    BY <2>3, ReturnType DEF CloseConnection, AfterClose, IInv, NoCall, CallOf
  <2>4. QED
    BY <2>2, <2>3
<1>5. \A u \in Threads : at[u].table \in TableNames
  BY CallType DEF IInv
<1>6. MapHoldsLive' /\ InDatabases' /\ OwnersHoldLive' /\ OwnersDiffer'
  BY <1>0, <1>2, <1>3, <1>4, <1>5
  DEF IInv, Connected, MapHoldsLive, InDatabases, OwnersHoldLive, OwnersDiffer, Owning
<1>7. LiveIsOwned'
  BY <1>0, <1>3, <1>4 DEF IInv, Connected, LiveIsOwned
<1>8. UsersHoldMapped' /\ OnlyClosableClose'
  <2>1. UsersHoldMapped'
    BY <1>0, <1>4 DEF IInv, Connected, UsersHoldMapped
  <2>2. OnlyClosableClose'
    BY <1>2, <1>4 DEF IInv, Connected, OnlyClosableClose, Closing
  <2>3. QED
    BY <2>1, <2>2
<1>9. Started' /\ LocksHeldInside'
  BY <1>0, <1>4
  DEF IInv, Started, ListsStillOpen, StartupOfAccount, StartedMeansOpen, Tables, LocksHeldInside
<1>10. QED
  BY <1>1, <1>6, <1>7, <1>8, <1>9 DEF IInv, Connected

(***************************************************************************)
(* The other steps                                                         *)
(***************************************************************************)
OtherCall(c, d) ==
  /\ c.pc \notin Owning
  /\ d.pc \notin Owning \union Closing \union {"use"}
  /\ d.pc \in {"size", "list"} => c.pc \in {"size", "list"} /\ d.names = c.names
  /\ d.op = "startup" /\ d.pc \notin InsideInit =>
       \/ d.table = AccountTable
       \/ c.op = "startup" /\ c.pc \notin InsideInit /\ c.table = d.table

\* Who may be inside a section that t enters, leaves or does not touch.
Section(c, d, inside, holder, holder2, t) ==
  \/ holder = NoThread /\ holder2 = t /\ c.pc \notin inside /\ d.pc \in inside
  \/ holder2 = NoThread /\ c.pc \in inside /\ d.pc \notin inside
  \/ holder2 = holder /\ (c.pc \in inside <=> d.pc \in inside)

\* Startup succeeds when the account table was seen, or is, in the map.
Success(c) ==
  /\ c.op = "startup" /\ c.pc \notin InsideInit
  /\ \/ c.table \in Tables
     \/ c.pc \in {"size", "list"} /\ c.table \in c.names

LEMMA EndsShape ==
  ASSUME Types, NEW t \in Threads, NEW f \in BOOLEAN, Ends(t, f),
         at[t].pc \notin Owning \union InsideInit
  PROVE  /\ OtherCall(at[t], at'[t])
         /\ \A u \in Threads : u # t => at'[u] = at[u]
         /\ at'[t].pc = "idle"
         /\ phase' \in {phase, "failed"} \/ (~f /\ at[t].op = "startup")
<1>1. /\ at'[t] = NoCall
      /\ \A u \in Threads : u # t => at'[u] = at[u]
  BY EndsType
<1>2. at'[t].pc = "idle" /\ at'[t].op = "none"
  BY <1>1 DEF NoCall, CallOf
<1>3. OtherCall(at[t], at'[t])
  BY <1>2 DEF OtherCall, Owning, Closing
<1>4. phase' \in {phase, "failed"} \/ (~f /\ at[t].op = "startup")
  BY DEF Ends, Types
<1>5. QED
  BY <1>1, <1>2, <1>3, <1>4

LEMMA OthersShape ==
  ASSUME Types, NEW t \in Threads, Others(t)
  PROVE  /\ UNCHANGED <<live, tables>>
         /\ \A u \in Threads : u # t => at'[u] = at[u]
         /\ OtherCall(at[t], at'[t])
         /\ Section(at[t], at'[t], InsideInit, monitor, monitor', t)
         /\ Section(at[t], at'[t], InsideCreate, lock, lock', t)
         /\ phase' \in {phase, "failed"} \/ Success(at[t])
<1>0. at[t] \in Call
  BY CallType
<1>1. CASE EnterInit(t)
  <2> DEFINE d == [at[t] EXCEPT !.pc = "scan", !.names = {n \in TableNames : disk[n] # "none"}]
  <2>1. d \in Call /\ d.pc = "scan" /\ d.op = at[t].op /\ d.table = at[t].table
    BY <1>0 DEF Call, Steps
  <2>2. at'[t] = d /\ \A u \in Threads : u # t => at'[u] = at[u]
    BY <1>1, <2>1, BecomesType DEF EnterInit
  <2>3. OtherCall(at[t], d)
    BY <1>1, <2>1 DEF EnterInit, OtherCall, Owning, Closing, InsideInit
  <2>4. /\ Section(at[t], d, InsideInit, monitor, monitor', t)
        /\ Section(at[t], d, InsideCreate, lock, lock', t)
    BY <1>1, <2>1 DEF EnterInit, Section, InsideInit, InsideCreate
  <2>5. QED
    BY <1>1, <2>2, <2>3, <2>4 DEF EnterInit
<1>2. CASE LeaveInit(t)
  <2> DEFINE d == [at[t] EXCEPT !.pc = "keys", !.table = AccountTable, !.names = {}]
  <2>1. d \in Call /\ d.pc = "keys" /\ d.table = AccountTable
    BY <1>0, TableConstants DEF Call, Steps
  <2>2. at'[t] = d /\ \A u \in Threads : u # t => at'[u] = at[u]
    BY <1>2, <2>1, BecomesType DEF LeaveInit
  <2>3. OtherCall(at[t], d)
    BY <1>2, <2>1 DEF LeaveInit, OtherCall, Owning, Closing, InsideInit
  <2>4. /\ Section(at[t], d, InsideInit, monitor, monitor', t)
        /\ Section(at[t], d, InsideCreate, lock, lock', t)
    BY <1>2, <2>1 DEF LeaveInit, Section, InsideInit, InsideCreate
  <2>5. QED
    BY <1>2, <2>2, <2>3, <2>4 DEF LeaveInit
<1>3. CASE ReadSize(t)
  <2> DEFINE d == [at[t] EXCEPT !.pc = "list", !.size = Cardinality(Tables)]
  <2>0. at[t].pc = "size" /\ UNCHANGED <<live, tables, monitor, lock>>
    BY <1>3 DEF ReadSize
  <2>1. CASE Ends(t, TRUE)
    BY <2>0, <2>1, EndsShape DEF Section, Owning, InsideInit, InsideCreate
  <2>2. CASE Becomes(t, d) /\ phase' = phase
    <3>1. Cardinality(Tables) \in Nat
      BY TableConstants, FS_Subset, FS_CardinalityType DEF Tables
    <3>2. /\ d \in Call /\ d.pc = "list" /\ d.names = at[t].names
          /\ d.op = at[t].op /\ d.table = at[t].table
      BY <1>0, <3>1 DEF Call, Steps
    <3>3. at'[t] = d /\ \A u \in Threads : u # t => at'[u] = at[u]
      BY <2>2, <3>2, BecomesType
    <3>4. OtherCall(at[t], d)
      BY <2>0, <3>2 DEF OtherCall, Owning, Closing, InsideInit
    <3>5. /\ Section(at[t], d, InsideInit, monitor, monitor', t)
          /\ Section(at[t], d, InsideCreate, lock, lock', t)
      BY <2>0, <3>2 DEF Section, InsideInit, InsideCreate
    <3>6. QED
      BY <2>0, <2>2, <3>3, <3>4, <3>5
  <2>3. QED
    BY <1>3, <2>1, <2>2 DEF ReadSize
<1>4. CASE FillList(t)
  <2>0. at[t].pc = "list" /\ UNCHANGED <<live, tables, monitor, lock>>
    BY <1>4 DEF FillList
  <2>1. CASE Ends(t, FALSE) /\ at[t].table \in at[t].names \union Tables
    BY <2>0, <2>1, EndsShape DEF Section, Owning, InsideInit, InsideCreate, Success
  <2>2. ASSUME NEW p \in {"keys", "contains"}, NEW d \in Call, Becomes(t, d), phase' = phase,
               d.pc = p, d.op = at[t].op, d.table = at[t].table
        PROVE  /\ \A u \in Threads : u # t => at'[u] = at[u]
               /\ OtherCall(at[t], at'[t])
               /\ Section(at[t], at'[t], InsideInit, monitor, monitor', t)
               /\ Section(at[t], at'[t], InsideCreate, lock, lock', t)
    <3>1. at'[t] = d /\ \A u \in Threads : u # t => at'[u] = at[u]
      BY <2>2, BecomesType
    <3>2. OtherCall(at[t], d)
      BY <2>0, <2>2 DEF OtherCall, Owning, Closing, InsideInit
    <3>3. /\ Section(at[t], d, InsideInit, monitor, monitor', t)
          /\ Section(at[t], d, InsideCreate, lock, lock', t)
      BY <2>0, <2>2 DEF Section, InsideInit, InsideCreate
    <3>4. QED
      BY <3>1, <3>2, <3>3
  <2>3. CASE Becomes(t, [at[t] EXCEPT !.pc = "keys", !.asks = 1, !.names = {}]) /\ phase' = phase
    <3> DEFINE d == [at[t] EXCEPT !.pc = "keys", !.asks = 1, !.names = {}]
    <3>0. {} \in SUBSET TableNames /\ 1 \in 1..2
      OBVIOUS
    <3>1. d \in Call /\ d.pc = "keys" /\ d.op = at[t].op /\ d.table = at[t].table
      BY <1>0, <3>0 DEF Call, Steps
    <3>2. QED
      BY <2>0, <2>2, <2>3, <3>1
  <2>4. CASE Becomes(t, [at[t] EXCEPT !.pc = "contains", !.names = {}]) /\ phase' = phase
    <3> DEFINE d == [at[t] EXCEPT !.pc = "contains", !.names = {}]
    <3>1. d \in Call /\ d.pc = "contains" /\ d.op = at[t].op /\ d.table = at[t].table
      BY <1>0 DEF Call, Steps
    <3>2. QED
      BY <2>0, <2>2, <2>4, <3>1
  <2>5. QED
    BY <1>4, <2>1, <2>3, <2>4 DEF FillList, Lists
<1>5. CASE CheckNotOpen(t)
  <2>0. at[t].pc = "contains" /\ lock = NoThread /\ UNCHANGED <<live, tables, monitor>>
    BY <1>5 DEF CheckNotOpen
  <2>1. CASE Ends(t, at[t].table \notin Tables) /\ lock' = lock
    BY <2>0, <2>1, EndsShape DEF Section, Owning, InsideInit, InsideCreate, Success
  <2>2. CASE Goto(t, "open") /\ lock' = t /\ phase' = phase
    <3> DEFINE d == [at[t] EXCEPT !.pc = "open"]
    <3>1. /\ d \in Call /\ d.pc = "open" /\ d.names = at[t].names
          /\ d.op = at[t].op /\ d.table = at[t].table
      BY <1>0 DEF Call, Steps
    <3>2. at'[t] = d /\ \A u \in Threads : u # t => at'[u] = at[u]
      BY <2>2, <3>1, BecomesType DEF Goto
    <3>3. OtherCall(at[t], d)
      BY <2>0, <3>1 DEF OtherCall, Owning, Closing, InsideInit
    <3>4. QED
      BY <2>0, <2>2, <3>1, <3>2, <3>3 DEF Section, InsideInit, InsideCreate
  <2>3. QED
    BY <1>5, <2>1, <2>2 DEF CheckNotOpen
<1>6. CASE CreateFails(t)
  <2>1. at[t].pc = "open" /\ lock' = NoThread /\ Ends(t, TRUE) /\ UNCHANGED <<live, tables, monitor>>
    BY <1>6 DEF CreateFails
  <2>2. QED
    BY <2>1, EndsShape DEF Section, Owning, InsideInit, InsideCreate
<1>7. CASE DestroyDB(t) \/ UseConnection(t) \/ UseFails(t)
  <2>1. /\ at[t].pc \in {"destroy", "use"} /\ Return(t)
        /\ UNCHANGED <<live, tables, monitor, lock, phase>>
    BY <1>7 DEF DestroyDB, UseConnection, UseFails
  <2>2. at'[t] = NoCall /\ \A u \in Threads : u # t => at'[u] = at[u]
    BY <2>1, ReturnType
  <2>3. at'[t].pc = "idle" /\ at'[t].op = "none"
    BY <2>2 DEF NoCall, CallOf
  <2>4. OtherCall(at[t], at'[t])
    BY <2>1, <2>3 DEF OtherCall, Owning, Closing
  <2>5. QED
    BY <2>1, <2>2, <2>3, <2>4 DEF Section, InsideInit, InsideCreate
<1>8. QED
  BY <1>1, <1>2, <1>3, <1>4, <1>5, <1>6, <1>7 DEF Others

LEMMA OthersKeeps ==
  ASSUME IInv, NEW t \in Threads, Others(t)
  PROVE  IInv'
<1>1. /\ UNCHANGED <<live, tables>>
      /\ \A u \in Threads : u # t => at'[u] = at[u]
      /\ OtherCall(at[t], at'[t])
      /\ Section(at[t], at'[t], InsideInit, monitor, monitor', t)
      /\ Section(at[t], at'[t], InsideCreate, lock, lock', t)
      /\ phase' \in {phase, "failed"} \/ Success(at[t])
  BY OthersShape DEF IInv
<1>2. Types'
  BY OthersType DEF IInv
<1>3. MapHoldsLive' /\ OwnersHoldLive' /\ OwnersDiffer'
  BY <1>1 DEF IInv, Connected, MapHoldsLive, OwnersHoldLive, OwnersDiffer, OtherCall
<1>4. LiveIsOwned'
  BY <1>1 DEF IInv, Connected, LiveIsOwned, OtherCall
<1>5. UsersHoldMapped' /\ OnlyClosableClose'
  BY <1>1 DEF IInv, Connected, UsersHoldMapped, OnlyClosableClose, OtherCall
<1>6. InDatabases'
  <2>1. CASE EnterInit(t) \/ LeaveInit(t) \/ ReadSize(t) \/ FillList(t)
             \/ CheckNotOpen(t) \/ UseFails(t)
    BY <1>1, <2>1
    DEF IInv, Connected, InDatabases, EnterInit, LeaveInit, ReadSize, FillList,
        CheckNotOpen, UseFails
  <2>2. CASE CreateFails(t)
    BY <1>1, <2>2 DEF IInv, Types, Connected, InDatabases, CreateFails
  <2>3. CASE DestroyDB(t)
    BY <1>1, <2>3 DEF IInv, Types, Connected, InDatabases, DestroyDB
  <2>4. CASE UseConnection(t)
    <3>1. \A n \in TableNames : data'[n] # data[n] => live[n] # NoConnection
      BY <2>4 DEF IInv, Types, Connected, UsersHoldMapped, UseConnection
    <3>2. QED
      BY <1>1, <2>4, <3>1 DEF IInv, Connected, InDatabases, UseConnection
  <2>5. QED
    BY <2>1, <2>2, <2>3, <2>4 DEF Others
<1>7. Tables' = Tables
  BY <1>1 DEF Tables
<1>8. ListsStillOpen' /\ StartupOfAccount'
  BY <1>1, <1>7 DEF IInv, Started, ListsStillOpen, StartupOfAccount, OtherCall
<1>9. StartedMeansOpen'
  <2>1. Success(at[t]) => AccountTable \in Tables
    BY TableConstants, CallType DEF IInv, Started, ListsStillOpen, StartupOfAccount, Success
  <2>2. QED
    BY <1>1, <1>7, <2>1 DEF IInv, Started, StartedMeansOpen
<1>10. LocksHeldInside'
  BY <1>1, TableConstants DEF IInv, LocksHeldInside, Section, InsideInit, InsideCreate
<1>11. QED
  BY <1>2, <1>3, <1>4, <1>5, <1>6, <1>8, <1>9, <1>10 DEF IInv, Connected, Started

(***************************************************************************)
(* The invariant                                                           *)
(***************************************************************************)
\* An idle process with no open table: before startup, and after a restart.
Fresh ==
  /\ live = [n \in TableNames |-> NoConnection]
  /\ tables = [n \in TableNames |-> NoConnection]
  /\ dataPath = FALSE /\ monitor = NoThread /\ lock = NoThread
  /\ phase = "starting"
  /\ at = [t \in Threads |-> NoCall]

LEMMA FreshIInv ==
  ASSUME Fresh,
         disk \in [TableNames -> {"none", "folder", "database"}],
         data \in [TableNames -> Values \union {NoValue}],
         \A n \in TableNames : data[n] # NoValue => disk[n] = "database"
  PROVE  IInv
<1>1. \A t \in Threads : at[t] = NoCall /\ at[t].pc = "idle" /\ at[t].op = "none"
  BY DEF Fresh, NoCall, CallOf
<1>2. Types
  BY NoCallType DEF Fresh, Types
<1>3. Connected
  BY <1>1 DEF Fresh, Connected, MapHoldsLive, OwnersHoldLive, OwnersDiffer, LiveIsOwned,
              UsersHoldMapped, OnlyClosableClose, InDatabases, Owning, Closing
<1>4. Started /\ LocksHeldInside
  BY <1>1, TableConstants
  DEF Fresh, Started, ListsStillOpen, StartupOfAccount, StartedMeansOpen, LocksHeldInside
<1>5. QED
  BY <1>2, <1>3, <1>4 DEF IInv

LEMMA RestartKeeps ==
  ASSUME IInv, Restart
  PROVE  IInv'
<1>1. \A t \in Threads : at'[t] = NoCall /\ at'[t].pc = "idle" /\ at'[t].op = "none"
  BY DEF Restart, NoCall, CallOf
<1>2. Types'
  BY NoCallType DEF Restart, IInv, Types
<1>3. Connected'
  BY <1>1 DEF Restart, IInv, Connected, MapHoldsLive, OwnersHoldLive, OwnersDiffer, LiveIsOwned,
              UsersHoldMapped, OnlyClosableClose, InDatabases, Owning, Closing
<1>4. Started' /\ LocksHeldInside'
  BY <1>1, TableConstants
  DEF Restart, Started, ListsStillOpen, StartupOfAccount, StartedMeansOpen, LocksHeldInside
<1>5. QED
  BY <1>2, <1>3, <1>4 DEF IInv

LEMMA Invariance == Spec => []IInv
<1>1. Init => IInv
  BY FreshIInv DEF Init, Fresh
<1>2. IInv /\ [Next]_vars => IInv'
  <2> SUFFICES ASSUME IInv, [Next]_vars
               PROVE  IInv'
    OBVIOUS
  <2>1. CASE Restart
    BY <2>1, RestartKeeps
  <2>2. ASSUME NEW t \in Threads, Calls(t) \/ Step(t)
        PROVE  IInv'
    <3>1. \/ Quiet(t)
          \/ Others(t)
          \/ InitOpens(t) \/ CreateOpens(t)
          \/ InitInstalls(t) \/ CreateInstalls(t)
          \/ RemoveTable(t)
          \/ CloseConnection(t)
      BY <2>2 DEF Step, Quiet, Others
    <3>2. QED
      BY <3>1, QuietKeeps, OthersKeeps, OpensKeeps, InstallsKeeps, RemoveKeeps, CloseKeeps
  <2>3. CASE UNCHANGED vars
    BY <2>3
    DEF vars, IInv, Types, Connected, MapHoldsLive, OwnersHoldLive, OwnersDiffer, LiveIsOwned,
        UsersHoldMapped, OnlyClosableClose, InDatabases, Started, ListsStillOpen,
        StartupOfAccount, StartedMeansOpen, LocksHeldInside, Tables
  <2>4. QED
    BY <2>1, <2>2, <2>3 DEF Next
<1>3. QED
  BY <1>1, <1>2, PTL DEF Spec

(***************************************************************************)
(* The theorems                                                            *)
(***************************************************************************)
\* Directories, connections, locks and calls keep their types, and rows and
\* connections are of databases that exist. (RocksDBManager)
THEOREM TypeCorrect == Spec => []TypeOK
<1>1. IInv => TypeOK
  BY DEF IInv, Connected, TypeOK
<1>2. QED
  BY <1>1, Invariance, PTL

\* TABLES never offers a closed connection. (init, createTable: open before
\* put; destroyTable, closeTable: remove before close)
THEOREM MapSound == Spec => []MapHoldsLive
<1>1. IInv => MapHoldsLive
  BY DEF IInv, Connected
<1>2. QED
  BY <1>1, Invariance, PTL

\* An open connection is in the map, or in the hands of exactly one thread.
\* (RocksDBManager)
THEOREM NothingLost == Spec => []NoConnectionLost
<1>1. IInv => NoConnectionLost
  <2> SUFFICES ASSUME IInv, NEW n \in TableNames, live[n] # NoConnection
               PROVE  IF tables[n] = live[n]
                      THEN Owners(n) = {}
                      ELSE \E t \in Threads : Owners(n) = {t}
    BY DEF NoConnectionLost
  <2>1. CASE tables[n] = live[n]
    BY <2>1 DEF IInv, Connected, OwnersHoldLive, Owners, Owning
  <2>2. CASE tables[n] # live[n]
    <3>1. PICK t \in Threads : at[t].pc \in Owning /\ at[t].table = n
      BY <2>2 DEF IInv, Connected, LiveIsOwned
    <3>2. t \in Owners(n)
      BY <3>1 DEF IInv, Connected, OwnersHoldLive, Owners, Owning
    <3>3. \A u \in Owners(n) : u = t
      BY <3>1 DEF IInv, Connected, OwnersDiffer, Owners, Owning
    <3>4. QED
      BY <2>2, <3>2, <3>3
  <2>3. QED
    BY <2>1, <2>2
<1>2. QED
  BY <1>1, Invariance, PTL

\* A table nobody closes is used through its open connection only, however
\* many startups and other calls overlap. (put, get, executeBatch; init)
THEOREM UsesOpen == Spec => []ConnectionInUseIsOpen
<1>1. IInv => ConnectionInUseIsOpen
  BY CallType DEF IInv, Connected, UsersHoldMapped, MapHoldsLive, ConnectionInUseIsOpen
<1>2. QED
  BY <1>1, Invariance, PTL

\* After a successful startup the account table is open. (initDB)
THEOREM StartupOpens == Spec => []StartedMeansOpen
<1>1. IInv => StartedMeansOpen
  BY DEF IInv, Started
<1>2. QED
  BY <1>1, Invariance, PTL

\* The monitor and the lock are held exactly by the thread inside. (init,
\* createTable)
THEOREM LocksSound == Spec => []LocksHeldInside
<1>1. IInv => LocksHeldInside
  BY DEF IInv
<1>2. QED
  BY <1>1, Invariance, PTL

\* A row is lost by a delete, or while its table is closed. (destroyDB takes
\* the LOCK file)
THEOREM DataKept == Spec => OpenTableKeepsData
<1>1. IInv /\ [Next]_vars => [~ \E n \in TableNames : LosesRow(n)]_vars
  <2> SUFFICES ASSUME IInv, Next, NEW n \in TableNames, LosesRow(n)
               PROVE  FALSE
    OBVIOUS
  <2>1. data \in [TableNames -> Values \union {NoValue}]
    BY DEF IInv, Types
  <2>2. PICK t \in Threads : UseConnection(t) \/ DestroyDB(t)
    <3>1. data' # data
      BY DEF LosesRow
    <3>2. ~Restart
      BY <3>1 DEF Restart
    <3>3. PICK t \in Threads : Calls(t) \/ Step(t)
      BY <3>2 DEF Next
    <3>4. ~Quiet(t)
      BY <3>1 DEF Quiet, Calls, Startup, CreateTable, CreateTableIfNotExist, DestroyTable,
                  CloseTable, Write, Read, CreateWriteBatch, Begin, Scan, CheckCurrent,
                  EnumerateKeys, CheckExists, BaseCheckTable, Fetch
    <3>5. ~Connects(t)
      BY <3>1 DEF Connects, InitOpens, InitInstalls, CreateOpens, CreateInstalls,
                  RemoveTable, CloseConnection
    <3>6. ~ \/ EnterInit(t) \/ LeaveInit(t) \/ ReadSize(t) \/ FillList(t)
            \/ CheckNotOpen(t) \/ CreateFails(t) \/ UseFails(t)
      BY <3>1 DEF EnterInit, LeaveInit, ReadSize, FillList, CheckNotOpen, CreateFails, UseFails
    <3>7. QED
      BY <3>3, <3>4, <3>5, <3>6 DEF Step, Quiet, Connects
  <2>3. CASE UseConnection(t)
    <3>1. at[t].pc = "use"
      BY <2>3 DEF UseConnection
    <3>2. at[t].table = n
      BY <2>1, <2>3 DEF UseConnection, LosesRow
    <3>3. QED
      BY <2>3, <3>1, <3>2 DEF LosesRow
  <2>4. CASE DestroyDB(t)
    BY <2>1, <2>4 DEF DestroyDB, LosesRow
  <2>5. QED
    BY <2>2, <2>3, <2>4
<1>2. QED
  BY <1>1, Invariance, PTL DEF Spec, OpenTableKeepsData
=============================================================================

SPECIFICATION Spec

CONSTANTS
  Threads = {t1, t2}
  NoThread = NoThread
  TableNames = {account, other}
  AccountTable = account
  Closable = {other}
  Connections <- MCConnections
  NoConnection = NoConnection
  Values = {v}
  NoValue = NoValue

SYMMETRY Symmetry

INVARIANTS
  TypeOK
  MapHoldsLive
  NoConnectionLost
  ConnectionInUseIsOpen
  StartedMeansOpen
  LocksHeldInside

PROPERTIES
  OpenTableKeepsData

SPECIFICATION Spec
CONSTANTS
  Word = 536870912
  Null = Null
  Accounts <- SomeAccounts
  Orders <- SomeOrders
  Ders <- SomeDers
CHECK_DEADLOCK FALSE
INVARIANTS
  RowReadsBack
  FailsOnlyForBlanks
  HashReproduced
  DataDelivered
  CoinsDelivered
  SignatureDelivered
  FeePaysForBytes

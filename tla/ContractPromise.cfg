SPECIFICATION FairSpec
CONSTANTS
  k1 = k1
  p1 = p1
  p2 = p2
  Keys = {k1}
  Passwords = {p1, p2}
  ValidPasswords = {p1, p2}
  Blank = Blank
  NoKey = NoKey
  Absent = Absent
  Word = 262144
  Requests = {r1, r2}
  Orders <- SomeOrders
  Chains <- HomeOnly
  HomeChain = "home"
  Gas = {60}
  Balances <- SomeBalances
  MaxNonce = 1
  Times = {1}
  Existing = Existing
  ReadFaults = TRUE
  NoTx = NoTx
INVARIANTS
  TypeOK
  CurrentIsAffordable
  TakesTotalCost
  FeeCoversSignedSize
PROPERTIES
  SignedByOwner
  ImplementsSubmissions
  EveryRequestAnswered

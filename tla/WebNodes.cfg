SPECIFICATION FairSpec

CONSTANTS
  n1 = n1
  n2 = n2
  n3 = n3
  Nodes <- MCNodes
  Official <- MCOfficial
  Configured = n1
  Pages = {p1}
  Rounds = {r1}
  Patient = TRUE
  Prompt = TRUE
  MaxCalls = 1
  None = None

INVARIANTS
  TypeOK
  
  WalletFollows

PROPERTIES
  
  TestsEnd
